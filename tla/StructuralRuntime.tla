------------------------- MODULE StructuralRuntime -------------------------
(***************************************************************************)
(* The StructuralRuntime (src/structural_runtime.rs) between the commands  *)
(* that edit the authority's world and the worker that assesses it:        *)
(* committed edits queue dirty seeds, each authority tick takes at most    *)
(* one answer and starts at most one job, and an answer is committed only  *)
(* if nothing it read has changed since.                                   *)
(*                                                                         *)
(* A chunk is compared by the identity of its allocation (ChunkObservation *)
(* in src/world.rs).  A write replaces the allocation a job's snapshot     *)
(* shares, so "written" holds the chunks written since the snapshot, and   *)
(* "reshaped" tells whether a chunk was created or removed since then,     *)
(* which is what an observation of an absent chunk compares.               *)
(***************************************************************************)
EXTENDS Structure, StructuralScheduler, Queues, SequencesExt

CONSTANTS
  InitialWorld,          \* the authored map
  InitialSeeds,          \* StructuralSimulationConfig.initial_seeds
  MaxPendingSeeds,       \* MAX_PENDING_STRUCTURAL_SEEDS
  MaxSeedChecks,         \* MAX_SEED_CHECKS_PER_TICK
  MaxElasticNodes,       \* MAX_ELASTIC_NODES
  MaxSnapshotChunks,     \* MAX_STRUCTURAL_SNAPSHOT_CHUNKS
  MaxActiveBodies,       \* MAX_ACTIVE_BODIES
  MaxHits                \* bound: how many voxels one blast reaches

ASSUME RuntimeAssumption ==
  /\ Voxels = 1..Cardinality(Voxels)
  /\ InitialWorld \subseteq Voxels
  /\ InitialSeeds \in Seq(Voxels)
  /\ Len(InitialSeeds) <= MaxPendingSeeds
  /\ {MaxPendingSeeds, MaxSeedChecks, MaxElasticNodes} \subseteq Nat \ {0}
  /\ {MaxSnapshotChunks, MaxActiveBodies, MaxHits} \subseteq Nat

VARIABLES
  world,        \* the solid voxels of the authority's world
  bodies,       \* how many bodies are active
  dirty,        \* the queue of dirty seeds: [queue, pending, overflowed]
  inFlight,     \* <<seed>> of the job in flight, or <<>>
  late,         \* its MAX_JOB_LATENCY has elapsed
  written,      \* the chunks written since its snapshot
  reshaped,     \* a chunk was created or removed since then
  stopped,      \* status.stopped
  failed,       \* status.failed # 0
  scheduler,    \* the StructuralScheduler
  unchecked     \* history: free voxels of domains not assessed as they are

static == <<world, bodies, unchecked>>
runtime == <<dirty, inFlight, late, stopped, failed>>
snapshot == <<written, reshaped>>

RuntimeVars == <<static, runtime, snapshot, scheduler>>

JobRequests == [seed: Voxels, world: SUBSET Voxels]

Outcomes == {"supported", "fails", "error", "cancelled"}

Answers ==
  [outcome: Outcomes, domain: SUBSET Voxels, occupied: SUBSET ChunksOf(Voxels),
   absent: SUBSET ChunksOf(Voxels), debris: SUBSET SUBSET Voxels]

-----------------------------------------------------------------------------
(* The queue of dirty seeds.                                               *)

NoDirt == [queue |-> <<>>, pending |-> {}, overflowed |-> FALSE]

Enqueued(d, seed) ==
  IF seed \in d.pending THEN d
  ELSE IF Len(d.queue) = MaxPendingSeeds THEN [d EXCEPT !.overflowed = TRUE]
  ELSE [d EXCEPT !.queue = Append(@, seed), !.pending = @ \cup {seed}]

(* The seeds are offered one after the other.                              *)
EnqueuedAll(d, seeds) ==
  LET queued[n \in 0..Len(seeds)] ==
        IF n = 0 THEN d ELSE Enqueued(queued[n - 1], seeds[n])
  IN queued[Len(seeds)]

Ascending(S) == Kept([v \in 1..Cardinality(Voxels) |-> v], S)

(* The seeds observe_changes visits: each changed position, then its       *)
(* neighbors.                                                              *)
AroundAlone == [v \in Voxels |-> <<v>>]

Around == [v \in Voxels |-> <<v>> \o Ascending(Neighbors[v])]

Visited(changed) ==
  LET order == Ascending(changed)
      visited[n \in 0..Len(order)] ==
        IF n = 0 THEN <<>> ELSE visited[n - 1] \o Around[order[n]]
  IN visited[Len(order)]

(* observe_changes: w is the world after the changes.                      *)
Observed(d, w, changed) ==
  EnqueuedAll(d, Kept(Visited(changed), Eligible(w)))

(* The seed of an answer that cannot be used goes behind the others.       *)
RequeuedFirst(d, seed) ==
  IF seed \in d.pending THEN d
  ELSE [d EXCEPT !.queue = <<seed>> \o @, !.pending = @ \cup {seed}]

Requeued(d, seed) == Enqueued(d, seed)

(* A completely extracted domain subsumes the seeds that lie in it.        *)
Coalesced(d, domain) ==
  [d EXCEPT !.queue = Kept(@, Voxels \ domain),
            !.pending = @ \ domain]

Popped(d, n) ==
  [d EXCEPT !.queue = SubSeq(@, n + 1, Len(@)),
            !.pending = @ \ ToSet(SubSeq(d.queue, 1, n))]

(* history: a change alters the domains it takes a voxel from or lies      *)
(* next to, and those have to be assessed again.                           *)
StillUnchecked(old, w, changed) ==
  (old \cap Eligible(w))
    \cup UNION {FreePart(w, v) :
                  v \in Eligible(w) \cap (changed \cup AdjacentTo(changed))}

(* MAX_ACTIVE_BODIES, before n bodies are spawned.                         *)
Fits(n) == bodies + n <= MaxActiveBodies

-----------------------------------------------------------------------------
RuntimeInit ==
  /\ world = InitialWorld
  /\ bodies = 0
  /\ dirty = EnqueuedAll(NoDirt, InitialSeeds)
  /\ inFlight = <<>>
  /\ late = FALSE
  /\ written = {}
  /\ reshaped = FALSE
  /\ stopped = FALSE
  /\ failed = FALSE
  /\ scheduler = NewScheduler
  /\ unchecked = UNION {FreePart(InitialWorld, s) :
                          s \in Eligible(InitialWorld) \cap ToSet(InitialSeeds)}

(* StructuralRuntimeStatus::incomplete                                     *)
Incomplete == failed \/ dirty.overflowed \/ stopped

-----------------------------------------------------------------------------
(* Commands that edit the world, which precede the runtime's tick.         *)

(* set_voxel on the voxels of changed, through the worlds in passed.  What *)
(* is written while no job is in flight is in the next job's snapshot, and *)
(* after a stop nothing is compared any more.                              *)
Written(passed, changed) ==
  IF stopped \/ inFlight = <<>> THEN UNCHANGED snapshot
  ELSE /\ written' = written \cup ChunksOf(changed)
       /\ reshaped' = (reshaped \/ \E w \in passed :
                                     ChunksOf(w) # ChunksOf(world))

ChangesTo(w, changed) ==
  /\ world' = w
  /\ dirty' = Observed(dirty, w, changed)
  /\ unchecked' = StillUnchecked(unchecked, w, changed)
  /\ UNCHANGED <<inFlight, late, stopped, failed, scheduler>>

(* execute_explosion and commit_damage: a hit voxel breaks or is damaged;  *)
(* what the blast cuts off from every anchor falls as bodies in the same   *)
(* transaction.                                                            *)
Explode(hit, broken) ==
  LET islands == Islands(world \ broken, broken)
      fallen == UNION islands
      after == world \ (broken \cup fallen)
  IN /\ Fits(Cardinality(islands))
     /\ bodies' = bodies + Cardinality(islands)
     /\ Written({world \ broken, after}, hit \cup fallen)
     /\ ChangesTo(after, hit \cup fallen)

(* A blast whose debris exceeds a bound is rolled back: the voxels are as  *)
(* before, but their chunks were written.                                  *)
RollBack(hit, broken) ==
  /\ ~Fits(Cardinality(Islands(world \ broken, broken)))
  /\ Written({world \ broken}, hit)
  /\ UNCHANGED <<static, runtime, scheduler>>

(* execute_build: in an empty cell with a solid neighbor.                  *)
Build(v) ==
  /\ v \notin world
  /\ Neighbors[v] \cap world # {}
  /\ Written({world \cup {v}}, {v})
  /\ ChangesTo(world \cup {v}, {v})
  /\ UNCHANGED bodies

Hits == {h \in SUBSET world : h # {} /\ Cardinality(h) <= MaxHits}

WorldCommand ==
  \/ \E hit \in Hits : \E broken \in SUBSET hit : Explode(hit, broken)
  \/ \E hit \in Hits : \E broken \in SUBSET hit : RollBack(hit, broken)
  \/ \E v \in Voxels : Build(v)

-----------------------------------------------------------------------------
(* The worker, on the snapshot of its request.                             *)

(* The answer of a job that extracted domain and looked at the positions   *)
(* in seen; debris is the failure it prepared.                             *)
Calculated(request, outcome, domain, seen, debris) ==
  LET chunks == ChunksOf({request.seed} \cup seen)
      present == ChunksOf(request.world)
  IN [outcome |-> outcome, domain |-> domain, occupied |-> chunks \cap present,
      absent |-> chunks \ present, debris |-> debris]

(* run_request: an extraction that its bound stops has read part of the    *)
(* domain and names no position of it.  A solve needs an anchor, may fail, *)
(* and may find one free voxel of the domain overloaded.                   *)
Calculations(request) ==
  LET domain == LoadDomain(request.world, request.seed)
      seen == ReadFor(request.world, request.seed)
  IN IF Cardinality(domain) > MaxElasticNodes
     THEN {Calculated(request, "error", {}, part, {}) : part \in SUBSET seen}
     ELSE {Calculated(request, "error", domain, seen, {})}
          \cup IF domain \cap Anchors = {} THEN {}
               ELSE {Calculated(request, "supported", domain, seen, {})}
                    \cup {Calculated(request, "fails", domain, seen,
                                     Debris(domain, v)) : v \in domain \ Anchors}

WorkerStep(enabled, next) ==
  /\ enabled
  /\ scheduler' = next
  /\ UNCHANGED <<static, runtime, snapshot>>

Receive == WorkerStep(CanReceive(scheduler), Received(scheduler))

Finish ==
  /\ CanSend(scheduler)
  /\ \E answer \in Calculations(Head(scheduler.running)) :
       WorkerStep(TRUE, Sent(scheduler, answer))

(* The flag is up only once the runtime has stopped (PassDeadline).        *)
GiveUp ==
  /\ CanSend(scheduler)
  /\ WorkerStep(scheduler.cancelled,
       Sent(scheduler,
            Calculated(Head(scheduler.running), "cancelled", {}, {}, {})))

Panic == WorkerStep(Running(scheduler), Panicked(scheduler))

Worker == Receive \/ Finish \/ GiveUp \/ Panic

-----------------------------------------------------------------------------
(* One authority tick: StructuralRuntime.tick.  A tick that finds its job  *)
(* unanswered and in time changes nothing.                                 *)

(* Its second half, from the world w, the queue d, the fault f and the     *)
(* scheduler s that its first half leaves: ineligible seeds are skipped,   *)
(* the first eligible one among MaxSeedChecks is submitted.                *)
NextJob(w, d, f, s) ==
  LET checks == Min({MaxSeedChecks, Len(d.queue)})
      found == {i \in 1..checks : d.queue[i] \in Eligible(w)}
      tooLarge == Cardinality(ChunksOf(w)) > MaxSnapshotChunks
  IN \/ /\ found = {}
        /\ dirty' = Popped(d, checks)
        /\ inFlight' = <<>>
        /\ scheduler' = s
        /\ failed' = f
        /\ UNCHANGED stopped
     \/ /\ found # {} /\ (tooLarge \/ ~s.thread)
        /\ dirty' = Popped(d, Min(found))
        /\ inFlight' = <<>>
        /\ scheduler' = IF tooLarge THEN s ELSE SubmitRefused(s)
        /\ failed' = TRUE
        /\ stopped' = ~tooLarge
     \/ /\ found # {} /\ ~tooLarge /\ s.thread
        /\ dirty' = Popped(d, Min(found))
        /\ LET seed == d.queue[Min(found)]
           IN /\ inFlight' = <<seed>>
              /\ scheduler' = Submitted(s, [seed |-> seed, world |-> w])
        /\ failed' = f
        /\ UNCHANGED stopped

(* What the job read is compared with the world as it is now.              *)
StaleWhereOccupied(answer) == answer.occupied \cap written # {}

Stale(answer) ==
  \/ answer.occupied \cap written # {}
  \/ answer.absent # {} /\ reshaped

Idle == ~stopped /\ inFlight = <<>>

Waiting == ~stopped /\ inFlight # <<>> /\ ~late

(* A job that starts, or ends, in a tick starts over with its clock and    *)
(* its snapshot.                                                           *)
FreshClock == late' = FALSE /\ written' = {} /\ reshaped' = FALSE

StartJob ==
  /\ Idle
  /\ dirty.queue # <<>>
  /\ NextJob(world, dirty, failed, scheduler)
  /\ FreshClock
  /\ UNCHANGED static

(* complete: StaleOrForeign                                                *)
RetryStale(answer) ==
  /\ Stale(answer)
  /\ NextJob(world, Requeued(dirty, Head(inFlight)), failed, Drained(scheduler))
  /\ FreshClock
  /\ UNCHANGED static

(* complete: an answer that is no assessment, and a failure whose bodies   *)
(* do not fit, leave the world alone and the fault on record.  A cancelled *)
(* answer subsumes nothing.                                                *)
RecordError(answer) ==
  /\ ~Stale(answer)
  /\ \/ answer.outcome \in {"error", "cancelled"}
     \/ ~Fits(Cardinality(answer.debris))
     \/ ~(UNION answer.debris \subseteq world)
  /\ NextJob(world,
             IF answer.outcome = "cancelled" THEN dirty
             ELSE Coalesced(dirty, answer.domain),
             TRUE, Drained(scheduler))
  /\ FreshClock
  /\ UNCHANGED static

(* complete: the domain stands.                                            *)
Assess(answer) ==
  /\ ~Stale(answer)
  /\ answer.outcome = "supported"
  /\ unchecked' = unchecked \ answer.domain
  /\ NextJob(world, Coalesced(dirty, answer.domain), failed, Drained(scheduler))
  /\ FreshClock
  /\ UNCHANGED <<world, bodies>>

(* complete and commit_structural_failure: the debris becomes bodies, and  *)
(* what survives around it is dirty again.                                 *)
Collapse(answer) ==
  LET fallen == UNION answer.debris
      after == world \ fallen
  IN /\ ~Stale(answer)
     /\ answer.outcome = "fails"
     /\ Fits(Cardinality(answer.debris))
     /\ fallen \subseteq world
     /\ world' = after
     /\ bodies' = bodies + Cardinality(answer.debris)
     /\ unchecked' = StillUnchecked(unchecked \ answer.domain, after, fallen)
     /\ NextJob(after,
                Observed(Coalesced(dirty, answer.domain), after, fallen),
                failed, Drained(scheduler))
     /\ FreshClock

(* The worker died: the seed goes back, nothing is started ever again.     *)
LoseWorker ==
  /\ Waiting
  /\ Disconnected(scheduler)
  /\ dirty' = Requeued(dirty, Head(inFlight))
  /\ inFlight' = <<>>
  /\ scheduler' = Abandoned(scheduler)
  /\ stopped' = TRUE
  /\ failed' = TRUE
  /\ FreshClock
  /\ UNCHANGED static

(* The deadline is looked at before the answer: a late answer stays in the *)
(* channel, and the slot stays taken.                                      *)
PassDeadlineAnswered ==
  /\ ~stopped /\ inFlight # <<>> /\ late
  /\ HasAnswer(scheduler)
  /\ scheduler' = CancelPending(scheduler)
  /\ stopped' = TRUE
  /\ failed' = TRUE
  /\ written' = {} /\ reshaped' = FALSE
  /\ UNCHANGED <<static, dirty, inFlight, late>>

PassDeadline ==
  /\ ~stopped /\ inFlight # <<>> /\ late
  /\ scheduler' = CancelPending(scheduler)
  /\ stopped' = TRUE
  /\ failed' = TRUE
  /\ written' = {} /\ reshaped' = FALSE
  /\ UNCHANGED <<static, dirty, inFlight, late>>

Tick ==
  \/ StartJob
  \/ /\ Waiting /\ HasAnswer(scheduler)
     /\ LET answer == Answer(scheduler)
        IN \/ RetryStale(answer) \/ RecordError(answer)
           \/ Assess(answer) \/ Collapse(answer)
  \/ LoseWorker
  \/ PassDeadline

Elapse ==
  /\ Waiting
  /\ late' = TRUE
  /\ UNCHANGED <<static, dirty, inFlight, stopped, failed, snapshot, scheduler>>

RuntimeNext == WorldCommand \/ Worker \/ Tick \/ Elapse

(* The tick loop runs at a fixed rate, and a job that stays unanswered     *)
(* grows late; the worker may take for ever, and commands need not come.   *)
RuntimeSpec ==
  RuntimeInit /\ [][RuntimeNext]_RuntimeVars
    /\ WF_RuntimeVars(Tick) /\ WF_RuntimeVars(Elapse /\ ~HasAnswer(scheduler))

-----------------------------------------------------------------------------
RuntimeTypeOK ==
  /\ world \subseteq Voxels
  /\ bodies \in 0..MaxActiveBodies
  /\ dirty \in [queue: Seq(Voxels), pending: SUBSET Voxels, overflowed: BOOLEAN]
  /\ inFlight \in AtMostOne(Voxels)
  /\ {late, reshaped, stopped, failed} \subseteq BOOLEAN
  /\ written \subseteq ChunksOf(Voxels)
  /\ scheduler \in Schedulers(JobRequests, Answers)
  /\ unchecked \subseteq Eligible(world)

(* The set that suppresses duplicate seeds and the queue agree, through    *)
(* pops, coalescing and requeues, and the queue keeps its bound: a seed    *)
(* left in the set alone would never be queued again                       *)
(* (structural_runtime.rs: enqueue, complete, tick).                       *)
EachSeedOnce ==
  /\ ToSet(dirty.queue) = dirty.pending
  /\ Len(dirty.queue) = Cardinality(dirty.pending)
  /\ Len(dirty.queue) <= MaxPendingSeeds

(* Dirty work is never forgotten silently: whatever was blasted, built,    *)
(* split or merged while jobs ran, were found stale or were coalesced,     *)
(* each load domain that was not assessed as it now stands holds a seed in *)
(* the queue or in flight, or the status says the coverage is incomplete   *)
(* (structural_runtime.rs: "Overflow indicates incomplete coverage").      *)
DirtyDomainsHaveSeeds ==
  ~Incomplete =>
    \A v \in unchecked :
      FreePart(world, v) \cap (dirty.pending \cup ToSet(inFlight)) # {}

(* Every solid voxel is held by an anchor.  A blast detaches what it cuts  *)
(* off, and a structural failure, although prepared on an old snapshot,    *)
(* leaves nothing hanging in the world it is committed to                  *)
(* (replication/structural_failure.rs: commit_structural_failure).         *)
NothingFloats == UnsupportedPieces(world, world) = {}

(* Unless commands keep coming for ever, every dirty domain is assessed or *)
(* the fault is on record, whether the worker answers, hangs or dies: the  *)
(* deadline needs nothing of it (structural_runtime.rs: tick).             *)
DirtyWorkSettles ==
  \/ []<><<WorldCommand>>_RuntimeVars
  \/ (unchecked # {}) ~> (unchecked = {} \/ Incomplete)

(* However long commands keep making the answers of one structure stale,   *)
(* every queued seed gets its turn: a stale seed goes behind the others    *)
(* (structural_runtime.rs: complete).                                      *)
SeedsTakeTurns ==
  \A v \in Voxels :
    (v \in dirty.pending) ~> (v \notin dirty.pending \/ stopped)
=============================================================================
