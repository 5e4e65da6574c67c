---------------------------- MODULE ClientProofs ----------------------------
(***************************************************************************)
(* Proofs about the parts of the graphical client: the timer of delta      *)
(* repairs, the meshes, the delta inbox, and the motion of its character,  *)
(* for any number of deltas, chunks, bodies, packets and inputs and every  *)
(* value of the limits.                                                    *)
(***************************************************************************)
EXTENDS InboxFeed, PlayerStream, RepairTimer, ClientMeshes, SequenceTheorems, FiniteSetTheorems, TLAPS
-----------------------------------------------------------------------------
(* The timer of delta repairs (RepairTimer): a round trip is measured from *)
(* the only request that can have been answered.                           *)

Probes == [sequence: 0..LastDelta, first: Nat, latest: Nat, again: BOOLEAN]

TimerNumbers ==
  /\ timerNow \in Nat
  /\ expected \in 1..LastDelta + 1
  /\ waiting \subseteq expected + 1..LastDelta
  /\ gapSince # Unknown => waiting # {}
  /\ probe \in Probes
  /\ askedAt \in [1..LastDelta -> Seq(Nat)]

\* Only the delta that is expected is asked for, and while it is, complete
\* packets wait behind it.
AskedUpToExpected ==
  /\ \A s \in 1..LastDelta : s > expected => askedAt[s] = <<>>
  /\ expected <= LastDelta /\ askedAt[expected] # <<>> =>
       waiting # {} /\ probe.sequence = expected
  /\ probe = NoProbe \/ probe.sequence = expected

ProbeIsOnlyRequest ==
  probe # NoProbe /\ ~probe.again =>
    /\ probe.sequence \in 1..LastDelta
    /\ Len(askedAt[probe.sequence]) = 1
    /\ askedAt[probe.sequence][1] = probe.first

SampleIsPast == sample # NoSample => sample.of \in 1..LastDelta /\ sample.of < expected

TimerInv ==
  TimerNumbers /\ AskedUpToExpected /\ ProbeIsOnlyRequest /\ SampleIsPast
  /\ SampleIsUnambiguous

-----------------------------------------------------------------------------
LEMMA NoProbeFits == NoProbe \in Probes /\ NoProbe.sequence = 0
  BY TimerAssumption DEF NoProbe, Probes, TimerAssumption

(* observe_sequence, for what is expected next                             *)
LEMMA ObserveStep ==
  ASSUME TimerAssumption, TimerInv, NEW next \in expected..LastDelta + 1, Observe(next),
         expected' = next, askedAt' = askedAt
  PROVE  /\ probe' \in Probes /\ (probe' = NoProbe \/ (probe' = probe /\ next = expected))
         /\ next > expected => probe' = NoProbe
         /\ SampleIsPast' /\ SampleIsUnambiguous'
  <1>1. probe \in Probes /\ expected \in Nat /\ LastDelta \in Nat /\ timerNow \in Nat
        /\ next \in Nat
    BY DEF TimerInv, TimerNumbers, TimerAssumption
  <1>2. probe' = IF Completes(next) THEN NoProbe ELSE probe
    BY DEF Observe
  <1>3. probe # NoProbe => probe.sequence = expected
    BY DEF TimerInv, AskedUpToExpected
  <1>4. Completes(next) <=> probe # NoProbe /\ next > expected
    BY <1>1, <1>3 DEF Completes
  <1>5. /\ probe' \in Probes
        /\ probe' = NoProbe \/ (probe' = probe /\ next = expected)
        /\ next > expected => probe' = NoProbe
    <2>1. CASE next > expected
      <3>1. probe' = NoProbe
        BY <1>2, <1>4, <2>1
      <3> QED
        BY <3>1, NoProbeFits, Zenon
    <2>2. CASE next = expected
      <3>1. ~(next > expected)
        BY <1>1, <2>2
      <3> QED
        BY <1>1, <1>2, <1>4, <2>2, <3>1, Zenon
    <2> QED
      BY <1>1, <2>1, <2>2
  <1>6. CASE Completes(next) /\ Usable(probe)
    <2>1. sample' = [of |-> probe.sequence, trip |-> Trip, at |-> timerNow]
      BY <1>6 DEF Observe, UpdateEstimate
    <2>2. /\ probe.sequence \in 1..LastDelta /\ probe.sequence = expected
          /\ Len(askedAt[expected]) = 1 /\ askedAt[expected][1] = probe.first
      BY <1>3, <1>6 DEF TimerInv, ProbeIsOnlyRequest, Completes, Usable
    <2>3. sample'.of = expected /\ sample'.trip = Trip /\ sample'.at = timerNow
      BY <2>1, <2>2
    <2>4. Trip = AtLeast(timerNow - probe.first, 1)
      BY DEF Trip
    <2>5. SampleIsPast' /\ SampleIsUnambiguous'
      BY <1>1, <1>4, <1>6, <2>2, <2>3, <2>4 DEF SampleIsPast, SampleIsUnambiguous, AtLeast
    <2> QED
      BY <1>5, <2>5
  <1>7. CASE ~(Completes(next) /\ Usable(probe))
    <2>1. sample' = sample
      BY <1>7 DEF Observe, estimate
    <2>2. SampleIsPast' /\ SampleIsUnambiguous'
      BY <1>1, <2>1 DEF TimerInv, SampleIsPast, SampleIsUnambiguous, AtLeast
    <2> QED
      BY <1>5, <2>2
  <1> QED
    BY <1>6, <1>7

LEMMA ReleasePreserves ==
  ASSUME TimerAssumption, TimerInv, ReleaseDelta
  PROVE  TimerInv'
  <1>1. PICK next \in expected + 1..LastDelta + 1 :
          /\ expected' = next
          /\ waiting' = {s \in waiting : s > next}
          /\ gapSince' = Unknown
          /\ Observe(next)
          /\ UNCHANGED <<timerNow, askedAt>>
    BY DEF ReleaseDelta
  <1>2. expected \in Nat /\ LastDelta \in Nat /\ next \in expected..LastDelta + 1
        /\ next > expected /\ next \in 1..LastDelta + 1
    BY DEF TimerInv, TimerNumbers, TimerAssumption
  <1>3. probe' = NoProbe /\ SampleIsPast' /\ SampleIsUnambiguous'
    BY <1>1, <1>2, ObserveStep
  <1>4. TimerNumbers'
    <2>1. waiting \subseteq expected + 1..LastDelta
      BY DEF TimerInv, TimerNumbers
    <2>2. \A s \in waiting : s > next => s \in next + 1..LastDelta
      BY <1>2, <2>1
    <2>3. waiting' \subseteq next + 1..LastDelta
      BY <1>1, <2>2
    <2>4. probe' \in Probes
      BY <1>3, NoProbeFits
    <2> QED
      BY <1>1, <1>2, <2>3, <2>4 DEF TimerInv, TimerNumbers
  <1>5. AskedUpToExpected'
    BY <1>1, <1>2, <1>3 DEF TimerInv, AskedUpToExpected
  <1> QED
    BY <1>3, <1>4, <1>5 DEF TimerInv, ProbeIsOnlyRequest

LEMMA KeepPreserves ==
  ASSUME TimerAssumption, TimerInv, NEW s \in 1..LastDelta, KeepDelta(s)
  PROVE  TimerInv'
  <1>1. /\ s # expected /\ expected' = expected /\ UNCHANGED <<timerNow, askedAt>>
        /\ waiting' = IF s > expected THEN waiting \cup {s} ELSE waiting
        /\ gapSince' = IF waiting' # {} /\ gapSince = Unknown THEN timerNow ELSE gapSince
        /\ Observe(expected)
    BY DEF KeepDelta
  <1>2. expected \in expected..LastDelta + 1
    BY DEF TimerInv, TimerNumbers
  <1>3. probe' \in Probes /\ (probe' = NoProbe \/ probe' = probe) /\ SampleIsPast'
        /\ SampleIsUnambiguous'
    BY <1>1, <1>2, ObserveStep
  <1>4. TimerNumbers'
    <2>1. /\ waiting \subseteq expected + 1..LastDelta
          /\ gapSince # Unknown => waiting # {}
          /\ expected \in 1..LastDelta + 1
          /\ timerNow \in Nat /\ askedAt \in [1..LastDelta -> Seq(Nat)]
      BY DEF TimerInv, TimerNumbers
    <2>2. s > expected => s \in expected + 1..LastDelta
      BY <2>1
    <2>3. waiting' \subseteq expected + 1..LastDelta
      BY <1>1, <2>1, <2>2
    <2>4. gapSince' # Unknown => waiting' # {}
      BY <1>1, <2>1
    <2> QED
      BY <1>1, <1>3, <2>1, <2>3, <2>4 DEF TimerNumbers
  <1>5. expected <= LastDelta /\ askedAt[expected] # <<>> => probe' = probe
    <2>1. ~Completes(expected)
      BY DEF Completes, TimerInv, AskedUpToExpected, TimerNumbers
    <2> QED
      BY <1>1, <2>1 DEF Observe
  <1>6. AskedUpToExpected'
    BY <1>1, <1>3, <1>5 DEF TimerInv, AskedUpToExpected
  <1>7. ProbeIsOnlyRequest'
    BY <1>1, <1>3 DEF TimerInv, ProbeIsOnlyRequest
  <1> QED
    BY <1>3, <1>4, <1>6, <1>7 DEF TimerInv

LEMMA ReplacePreserves ==
  ASSUME TimerAssumption, TimerInv, NEW next \in 1..LastDelta + 1, ReplaceWorld(next)
  PROVE  TimerInv'
  <1>1. /\ next >= expected /\ \A s \in waiting : s < next
        /\ expected' = next /\ waiting' = {} /\ gapSince' = Unknown /\ probe' = NoProbe
        /\ UNCHANGED <<timerNow, estimate, askedAt, sample>>
    BY DEF ReplaceWorld
  <1>2. expected \in Nat /\ LastDelta \in Nat
    BY DEF TimerInv, TimerNumbers, TimerAssumption
  <1>3. TimerNumbers'
    BY <1>1, NoProbeFits DEF TimerInv, TimerNumbers
  <1>4. next <= LastDelta => askedAt[next] = <<>>
    <2>1. CASE next > expected
      BY <1>2, <2>1 DEF TimerInv, AskedUpToExpected
    <2>2. CASE next = expected
      <3>1. waiting = {}
        BY <1>1, <1>2, <2>2 DEF TimerInv, TimerNumbers
      <3> QED
        BY <2>2, <3>1 DEF TimerInv, AskedUpToExpected
    <2> QED
      BY <1>1, <1>2, <2>1, <2>2
  <1>5. AskedUpToExpected'
    BY <1>1, <1>2, <1>4 DEF TimerInv, AskedUpToExpected
  <1>6. SampleIsPast' /\ SampleIsUnambiguous'
    BY <1>1, <1>2 DEF TimerInv, SampleIsPast, SampleIsUnambiguous
  <1> QED
    BY <1>1, <1>3, <1>5, <1>6 DEF TimerInv, ProbeIsOnlyRequest

LEMMA AskPreserves ==
  ASSUME TimerAssumption, TimerInv, AskForDelta
  PROVE  TimerInv'
  <1>1. /\ gapSince # Unknown /\ RecordSend(expected)
        /\ askedAt' = [askedAt EXCEPT ![expected] = Append(@, timerNow)]
        /\ UNCHANGED <<timerNow, expected, waiting, gapSince, sample>>
    BY DEF AskForDelta
  <1>2. /\ waiting # {} /\ timerNow \in Nat
        /\ waiting \subseteq expected + 1..LastDelta /\ expected \in 1..LastDelta + 1
        /\ probe \in Probes /\ askedAt \in [1..LastDelta -> Seq(Nat)]
        /\ LastDelta \in Nat
    BY <1>1 DEF TimerInv, TimerNumbers, TimerAssumption
  <1>3. expected \in 1..LastDelta
    <2>1. PICK s : s \in waiting
      BY <1>2
    <2>2. s \in expected + 1..LastDelta
      BY <1>2, <2>1
    <2> QED
      BY <1>2, <2>2
  <1>4. /\ probe = NoProbe \/ probe.sequence = expected
        /\ askedAt[expected] # <<>> => probe.sequence = expected
    BY <1>3 DEF TimerInv, AskedUpToExpected
  <1>5. /\ askedAt' \in [1..LastDelta -> Seq(Nat)]
        /\ askedAt'[expected] = Append(askedAt[expected], timerNow)
        /\ askedAt'[expected] # <<>>
        /\ \A s \in 1..LastDelta : s # expected => askedAt'[s] = askedAt[s]
    <2>1. askedAt[expected] \in Seq(Nat)
      BY <1>2, <1>3
    <2>2. Append(askedAt[expected], timerNow) \in Seq(Nat)
          /\ Append(askedAt[expected], timerNow) # <<>>
      <3> DEFINE before == askedAt[expected]
      <3>1. before \in Seq(Nat) /\ timerNow \in Nat
        BY <1>2, <2>1
      <3> HIDE DEF before
      <3>2. Append(before, timerNow) \in Seq(Nat) /\ Append(before, timerNow) # <<>>
        BY <3>1, AppendProperties, SMTT(30)
      <3> QED
        BY <3>2 DEF before
    <2> QED
      BY <1>1, <1>2, <1>3, <2>2, Zenon
  <1>6. probe' \in Probes /\ probe'.sequence = expected /\ ProbeIsOnlyRequest'
    <2>1. CASE probe # NoProbe
      <3>1. probe' = [probe EXCEPT !.latest = AtLeast(@, timerNow), !.again = TRUE]
        BY <1>1, <1>4, <2>1 DEF RecordSend
      <3>2. probe' \in Probes /\ probe'.sequence = expected /\ probe'.again
        BY <1>2, <1>4, <2>1, <3>1 DEF Probes, AtLeast
      <3> QED
        BY <3>2 DEF ProbeIsOnlyRequest
    <2>2. CASE probe = NoProbe
      <3>1. probe' = [sequence |-> expected, first |-> timerNow, latest |-> timerNow,
                      again |-> FALSE]
        BY <1>1, <2>2 DEF RecordSend
      <3>2. probe' \in Probes /\ probe'.sequence = expected /\ probe'.first = timerNow
        BY <1>2, <1>3, <3>1 DEF Probes
      <3>3. askedAt[expected] = <<>>
        BY <1>3, <1>4, <2>2, NoProbeFits
      <3>4. Len(askedAt'[expected]) = 1 /\ askedAt'[expected][1] = timerNow
        BY <1>2, <1>5, <3>3
      <3> QED
        BY <1>3, <3>2, <3>4 DEF ProbeIsOnlyRequest
    <2> QED
      BY <2>1, <2>2
  <1>7. TimerNumbers'
    BY <1>1, <1>5, <1>6 DEF TimerInv, TimerNumbers
  <1>8. AskedUpToExpected'
    <2>1. expected' = expected /\ waiting' = waiting /\ waiting # {}
      BY <1>1, <1>2
    <2>2. ASSUME NEW s \in 1..LastDelta, s > expected
          PROVE  askedAt'[s] = <<>>
      <3>1. askedAt[s] = <<>> /\ s # expected
        BY <1>3, <2>2 DEF TimerInv, AskedUpToExpected
      <3> QED
        BY <3>1, <1>5
    <2>3. probe'.sequence = expected
      BY <1>6
    <2> QED
      BY <2>1, <2>2, <2>3 DEF AskedUpToExpected
  <1>9. SampleIsPast' /\ SampleIsUnambiguous'
    <2>1. sample # NoSample => sample.of \in 1..LastDelta /\ sample.of # expected
      BY <1>2 DEF TimerInv, SampleIsPast
    <2> QED
      BY <1>1, <1>5, <2>1 DEF TimerInv, SampleIsPast, SampleIsUnambiguous
  <1> QED
    BY <1>6, <1>7, <1>8, <1>9 DEF TimerInv

-----------------------------------------------------------------------------
(* A round trip is measured from the only request for the delta that ended *)
(* it (network_timing.rs: observe_sequence).                               *)
THEOREM SamplesAreUnambiguous == TimerSpec => []SampleIsUnambiguous
  <1>1. TimerInit => TimerInv
    BY TimerAssumption, NoProbeFits
    DEF TimerAssumption, TimerInit, TimerInv, TimerNumbers, AskedUpToExpected,
        ProbeIsOnlyRequest, SampleIsPast, SampleIsUnambiguous
  <1>2. TimerInv /\ [TimerNext]_TimerVars => TimerInv'
    <2> SUFFICES ASSUME TimerInv, [TimerNext]_TimerVars PROVE TimerInv'
      OBVIOUS
    <2>1. CASE UNCHANGED TimerVars
      BY <2>1 DEF TimerVars, TimerInv, TimerNumbers, AskedUpToExpected, ProbeIsOnlyRequest,
         SampleIsPast, SampleIsUnambiguous
    <2>2. CASE TimerElapse
      BY <2>2 DEF TimerElapse, TimerInv, TimerNumbers, AskedUpToExpected,
         ProbeIsOnlyRequest, SampleIsPast, SampleIsUnambiguous
    <2> QED
      BY <2>1, <2>2, TimerAssumption, ReleasePreserves, KeepPreserves, ReplacePreserves,
         AskPreserves DEF TimerNext
  <1>3. TimerInv => SampleIsUnambiguous
    BY DEF TimerInv
  <1> QED
    BY <1>1, <1>2, <1>3, PTL DEF TimerSpec

-----------------------------------------------------------------------------
(* The meshes (ClientMeshes), whatever chunks a mesh depends on: what is   *)
(* drawn is the world's, or will be meshed again, until the client ends.   *)

\* A job belongs to an epoch that has been, and copies are of the world.
JobFits ==
  /\ epoch \in Nat /\ phase.of \in Nat /\ phase.of <= epoch
  /\ phase.busy => job.at # "none"
  /\ world \in Worlds /\ meshSnapshot = world
  /\ pendingBodies \subseteq bodies /\ bodies \subseteq Bodies

MeshInv == JobFits /\ StaleMeshesAreQueued

-----------------------------------------------------------------------------
(* A change that a mesh does not depend on leaves it as it is.             *)
LEMMA MeshDependsOnAround ==
  ASSUME MeshAssumption, NEW w, NEW v, NEW c \in Chunks,
         \A n \in Around(c) : w[n] = v[n]
  PROVE  Mesh(w, c) = Mesh(v, c)
  <1>1. w[c] = v[c]
    BY DEF MeshAssumption
  <1>2. [n \in Around(c) |-> w[n]] = [n \in Around(c) |-> v[n]]
    OBVIOUS
  <1> QED
    BY <1>1, <1>2 DEF Mesh

(* While a body waits there is a job for it.                               *)
LEMMA WaitingBodiesHaveJobs ==
  ASSUME MeshAssumption, NEW some, some \cap bodies # {}
  PROVE  BodyJobs(some) # {}
  <1>1. PICK b : b \in some \cap bodies
    OBVIOUS
  <1>2. Cardinality({b}) = 1 /\ 1 <= MaxJobBodies
    <2>1. Cardinality({b}) = 1
      BY FS_Singleton
    <2>2. \A n \in Nat \ {0} : 1 <= n
      OBVIOUS
    <2> QED
      BY <2>1, <2>2 DEF MeshAssumption
  <1>3. {b} \in {s \in SUBSET (some \cap bodies) : s # {} /\ Cardinality(s) <= MaxJobBodies}
    BY <1>1, <1>2
  <1> QED
    BY <1>3 DEF BodyJobs

LEMMA BodyJobFits ==
  ASSUME NEW some, NEW j \in BodyJobs(some)
  PROVE  j.at = "queued" /\ j.kind = "bodies" /\ j.of \subseteq some \cap bodies
  BY DEF BodyJobs

LEMMA ChunkJobFits ==
  ASSUME NEW chunks, NEW j \in ChunkJobs(chunks)
  PROVE  j.at = "queued" /\ j.kind = "chunks" /\ j.of \subseteq chunks
  BY DEF ChunkJobs

(* What is submitted was pending, and what was pending is submitted or     *)
(* still is.                                                               *)
LEMMA SubmittedOrPending ==
  ASSUME MeshAssumption, NEW chunks, SubmitMeshes(chunks), pendingBodies \subseteq bodies,
         epoch \in Nat
  PROVE  /\ phase'.of \in {0, epoch}
         /\ phase'.busy => phase'.of = epoch /\ job'.at # "none"
         /\ chunks = pendingChunks' \cup {c \in job'.of : phase'.busy /\ job'.kind = "chunks"}
         /\ pendingBodies
              = pendingBodies' \cup {b \in job'.of : phase'.busy /\ job'.kind = "bodies"}
  <1>1. CASE /\ job' \in BodyJobs(pendingBodies)
             /\ phase' = [busy |-> TRUE, of |-> epoch]
             /\ pendingBodies' = pendingBodies \ job'.of
             /\ pendingChunks' = chunks
    <2>1. job'.at = "queued" /\ job'.kind = "bodies" /\ job'.of \subseteq pendingBodies
      BY <1>1, BodyJobFits
    <2> QED
      BY <1>1, <2>1
  <1>2. ASSUME BodyJobs(pendingBodies) = {}
        PROVE  pendingBodies = {}
    BY <1>2, WaitingBodiesHaveJobs
  <1>3. CASE /\ BodyJobs(pendingBodies) = {}
             /\ job' \in ChunkJobs(chunks)
             /\ phase' = [busy |-> TRUE, of |-> epoch]
             /\ pendingBodies' = {}
             /\ pendingChunks' = chunks \ job'.of
    <2>1. job'.at = "queued" /\ job'.kind = "chunks" /\ job'.of \subseteq chunks
      BY <1>3, ChunkJobFits
    <2> QED
      BY <1>2, <1>3, <2>1
  <1>4. CASE /\ BodyJobs(pendingBodies) = {} /\ chunks = {}
             /\ job' = NoJob
             /\ phase' = WorkerIdle
             /\ pendingBodies' = {}
             /\ pendingChunks' = {}
    BY <1>2, <1>4 DEF NoJob, WorkerIdle
  <1> QED
    BY <1>1, <1>3, <1>4 DEF SubmitMeshes

-----------------------------------------------------------------------------
LEMMA DeltaPreserves ==
  ASSUME MeshAssumption, MeshInv, NEW w \in Worlds, NEW some \in SUBSET Bodies,
         ApplyDelta(w, some)
  PROVE  MeshInv'
  <1>1. /\ world' = w /\ bodies' = bodies \cup some
        /\ meshSnapshot' = Copied(w, Changed(w))
        /\ pendingChunks' = pendingChunks \cup Dirty(Changed(w))
        /\ pendingBodies' = pendingBodies \cup some
        /\ ~ended /\ UNCHANGED <<epoch, phase, job, drawn, drawnBodies, ended>>
    BY DEF ApplyDelta, WithDelta
  <1>2. Changed(w) = {} => meshSnapshot = w
    BY DEF Changed, MeshInv, JobFits, Worlds
  <1>3. JobFits'
    BY <1>1, <1>2 DEF Copied, MeshInv, JobFits
  <1>4. ASSUME NEW c \in Chunks
        PROVE  (drawn[c] = Mesh(world, c) \/ c \in pendingChunks \/ InJob("chunks", c))'
    <2>1. CASE c \in Dirty(Changed(w))
      BY <1>1, <2>1
    <2>2. CASE c \notin Dirty(Changed(w))
      <3>1. \A n \in Around(c) : w[n] = world[n]
        BY <2>2 DEF Dirty, Changed, MeshAssumption
      <3>2. Mesh(w, c) = Mesh(world, c)
        BY <3>1, MeshDependsOnAround
      <3> QED
        BY <1>1, <3>2 DEF MeshInv, StaleMeshesAreQueued, InJob, SameEpoch
    <2> QED
      BY <2>1, <2>2
  <1>5. ASSUME NEW b \in Bodies
        PROVE  (b \in bodies <=> b \in drawnBodies \/ b \in pendingBodies
                                 \/ InJob("bodies", b))'
    BY <1>1 DEF MeshInv, StaleMeshesAreQueued, InJob, SameEpoch
  <1> QED
    BY <1>3, <1>4, <1>5 DEF MeshInv, StaleMeshesAreQueued

(* After an install no job is of this epoch, and nothing is drawn.         *)
LEMMA InstallPreserves ==
  ASSUME MeshAssumption, MeshInv, NEW w \in Worlds, NEW some \in SUBSET Bodies,
         InstallWorld(w, some)
  PROVE  MeshInv'
  <1>1. /\ world' = w /\ bodies' = some /\ meshSnapshot' = w
        /\ pendingChunks' = {c \in Chunks : w[c] # Empty}
        /\ pendingBodies' = some
        /\ epoch' = epoch + 1
        /\ drawn' = [c \in Chunks |-> NoMesh] /\ drawnBodies' = {}
        /\ UNCHANGED <<phase, job>>
    BY DEF InstallWorld, Solid
  <1>2. JobFits' /\ ~SameEpoch'
    BY <1>1 DEF MeshInv, JobFits, SameEpoch
  <1>3. \A c \in Chunks : w[c] = Empty => Mesh(w, c) = NoMesh
    BY DEF Mesh
  <1>4. StaleMeshesAreQueued'
    BY <1>1, <1>2, <1>3 DEF StaleMeshesAreQueued, InJob
  <1> QED
    BY <1>2, <1>4 DEF MeshInv

(* A client that ended holds nothing.                                      *)
LEMMA EndPreserves ==
  ASSUME MeshAssumption, EndClient
  PROVE  MeshInv'
  BY DEF EndClient, MeshAssumption, MeshInv, JobFits, StaleMeshesAreQueued, Worlds, WorkerIdle

LEMMA WorkerPreserves ==
  ASSUME MeshInv, TakeJob \/ AnswerJob
  PROVE  MeshInv'
  <1>1. /\ UNCHANGED <<world, bodies, meshSnapshot, pendingChunks, pendingBodies, epoch,
                       phase, drawn, drawnBodies, ended>>
        /\ \E at \in {"taken", "answered"} : job' = [job EXCEPT !.at = at]
    BY DEF TakeJob, AnswerJob, replica
  <1>2. JobFits'
    BY <1>1 DEF MeshInv, JobFits
  <1>3. job'.kind = job.kind /\ job'.of = job.of
    BY <1>1
  <1>4. \A kind, x : InJob(kind, x)' <=> InJob(kind, x)
    BY <1>1, <1>3 DEF InJob, SameEpoch
  <1> QED
    BY <1>1, <1>2, <1>4 DEF MeshInv, StaleMeshesAreQueued

(* What pump_meshing leaves alone, and that it loses nothing.              *)
LEMMA PumpFits ==
  ASSUME MeshAssumption, MeshInv, NEW chunks, FeedWorker(chunks), PumpOnly
  PROVE  /\ JobFits'
         /\ \A c : c \in chunks => c \in pendingChunks' \/ InJob("chunks", c)'
         /\ \A b : b \in pendingBodies <=> b \in pendingBodies' \/ InJob("bodies", b)'
  <1>1. pendingBodies \subseteq bodies
    BY DEF MeshInv, JobFits
  <1>2. epoch \in Nat /\ epoch' = epoch /\ world' = world /\ meshSnapshot' = meshSnapshot
        /\ bodies' = bodies
    BY DEF MeshInv, JobFits, PumpOnly, replica
  <1>3. SubmitMeshes(chunks)
    BY DEF FeedWorker
  <1> QED
    BY <1>1, <1>2, <1>3, SubmittedOrPending DEF MeshInv, JobFits, InJob, SameEpoch

LEMMA PumpIdlePreserves ==
  ASSUME MeshAssumption, MeshInv, ~ended, PumpIdle
  PROVE  MeshInv'
  <1>1. /\ ~phase.busy /\ FeedWorker(pendingChunks) /\ PumpOnly
        /\ UNCHANGED <<drawn, drawnBodies>>
    BY DEF PumpIdle
  <1>2. /\ JobFits'
        /\ \A c : c \in pendingChunks => c \in pendingChunks' \/ InJob("chunks", c)'
        /\ \A b : b \in pendingBodies <=> b \in pendingBodies' \/ InJob("bodies", b)'
    BY <1>1, PumpFits
  <1>3. \A kind, x : ~InJob(kind, x)
    BY <1>1 DEF InJob, SameEpoch
  <1>4. world' = world /\ bodies' = bodies /\ drawn' = drawn /\ drawnBodies' = drawnBodies
    BY <1>1 DEF PumpOnly, replica
  <1>5. StaleMeshesAreQueued'
    BY <1>2, <1>3, <1>4 DEF MeshInv, StaleMeshesAreQueued
  <1> QED
    BY <1>2, <1>5 DEF MeshInv

(* A mesh of this epoch is uploaded if the world it shows is the world's,  *)
(* and its chunks are queued again if it is not.                           *)
LEMMA PumpChunksPreserves ==
  ASSUME MeshAssumption, MeshInv, ~ended, PumpChunks
  PROVE  MeshInv'
  <1> DEFINE completion == Completion(job.world = world)
             chunks == IF completion = "requeue" THEN pendingChunks \cup job.of
                                                 ELSE pendingChunks
  <1>1. /\ job.kind = "chunks" /\ FeedWorker(chunks) /\ PumpOnly
        /\ drawn' = [c \in Chunks |-> IF completion = "upload" /\ c \in job.of
                                      THEN Mesh(job.world, c) ELSE drawn[c]]
        /\ drawnBodies' = drawnBodies
    BY DEF PumpChunks
  <1>2. /\ SameEpoch /\ job.world = world => completion = "upload"
        /\ SameEpoch /\ job.world # world => completion = "requeue"
        /\ ~SameEpoch => completion = "discard"
    BY DEF Completion
  <1>3. pendingChunks \subseteq chunks
    OBVIOUS
  <1> HIDE DEF completion
  <1>4. \A c \in Chunks : InJob("chunks", c) => (completion = "upload" /\ c \in job.of)
                                                \/ c \in chunks
    BY <1>2 DEF InJob
  <1>5. completion = "upload" => job.world = world
    BY <1>2
  <1> HIDE DEF chunks
  <1>6. /\ JobFits'
        /\ \A c : c \in chunks => c \in pendingChunks' \/ InJob("chunks", c)'
        /\ \A b : b \in pendingBodies <=> b \in pendingBodies' \/ InJob("bodies", b)'
    BY <1>1, PumpFits
  <1>7. world' = world /\ bodies' = bodies
    BY <1>1 DEF PumpOnly, replica
  <1>8. \A c \in Chunks : (drawn[c] = Mesh(world, c) \/ c \in pendingChunks
                                                     \/ InJob("chunks", c))'
    <2> SUFFICES ASSUME NEW c \in Chunks, c \notin chunks
                 PROVE  drawn'[c] = Mesh(world, c)
      BY <1>6, <1>7
    <2>1. CASE completion = "upload" /\ c \in job.of
      BY <1>1, <1>5, <2>1
    <2>2. CASE ~(completion = "upload" /\ c \in job.of)
      <3>1. drawn'[c] = drawn[c]
        BY <1>1, <2>2
      <3>2. c \notin pendingChunks /\ ~InJob("chunks", c)
        BY <1>3, <1>4, <2>2
      <3> QED
        BY <3>1, <3>2 DEF MeshInv, StaleMeshesAreQueued
    <2> QED
      BY <2>1, <2>2
  <1>9. \A b \in Bodies : (b \in bodies <=> b \in drawnBodies \/ b \in pendingBodies
                                             \/ InJob("bodies", b))'
    <2>1. \A b : ~InJob("bodies", b)
      BY <1>1 DEF InJob
    <2> QED
      BY <1>1, <1>6, <1>7, <2>1 DEF MeshInv, StaleMeshesAreQueued
  <1> QED
    BY <1>6, <1>8, <1>9 DEF MeshInv, StaleMeshesAreQueued

LEMMA PumpBodiesPreserves ==
  ASSUME MeshAssumption, MeshInv, ~ended, PumpBodies
  PROVE  MeshInv'
  <1>1. /\ job.kind = "bodies" /\ FeedWorker(pendingChunks) /\ PumpOnly
        /\ drawnBodies' = IF SameEpoch THEN drawnBodies \cup job.of ELSE drawnBodies
        /\ drawn' = drawn
    BY DEF PumpBodies, Completion
  <1>2. /\ JobFits'
        /\ \A c : c \in pendingChunks => c \in pendingChunks' \/ InJob("chunks", c)'
        /\ \A b : b \in pendingBodies <=> b \in pendingBodies' \/ InJob("bodies", b)'
    BY <1>1, PumpFits
  <1>3. /\ \A c : ~InJob("chunks", c)
        /\ \A b : InJob("bodies", b) <=> SameEpoch /\ b \in job.of
    BY <1>1 DEF InJob
  <1>4. world' = world /\ bodies' = bodies
    BY <1>1 DEF PumpOnly, replica
  <1>5. StaleMeshesAreQueued'
    BY <1>1, <1>2, <1>3, <1>4 DEF MeshInv, StaleMeshesAreQueued
  <1> QED
    BY <1>2, <1>5 DEF MeshInv

LEMMA MeshInvStep ==
  ASSUME MeshAssumption, MeshInv, [MeshNext]_MeshVars
  PROVE  MeshInv'
  <1>1. CASE UNCHANGED MeshVars
    BY <1>1 DEF MeshVars, replica, MeshInv, JobFits, StaleMeshesAreQueued, InJob, SameEpoch
  <1>2. CASE MeshNext
    BY <1>2, DeltaPreserves, InstallPreserves, EndPreserves, WorkerPreserves,
       PumpIdlePreserves, PumpChunksPreserves, PumpBodiesPreserves
       DEF MeshNext, Pump, EndByDelta, RefuseWorld, EndByRequeue
  <1> QED
    BY <1>1, <1>2

-----------------------------------------------------------------------------
(* Until the client ends, what is drawn is the world's or will be meshed   *)
(* again, whatever changes while a copy of the world is meshed             *)
(* (multiplayer_demo.rs: MeshWorkerPhase::complete, pump_meshing,          *)
(* receive_world_delta, receive_snapshot).                                 *)
THEOREM NothingStaleStays == MeshSpec => []StaleMeshesAreQueued
  <1>1. MeshInit => MeshInv
    BY MeshAssumption
    DEF MeshAssumption, MeshInit, MeshInv, JobFits, StaleMeshesAreQueued, Mesh, Worlds,
        WorkerIdle, NoJob, InJob, SameEpoch
  <1>2. MeshInv /\ [MeshNext]_MeshVars => MeshInv'
    BY MeshInvStep, MeshAssumption
  <1>3. MeshInv => StaleMeshesAreQueued
    BY DEF MeshInv
  <1> QED
    BY <1>1, <1>2, <1>3, PTL DEF MeshSpec

-----------------------------------------------------------------------------
(* The delta inbox, for any limits and any packets.  A frame that arrived  *)
(* is either of a packet that was released or still held, and no packet is *)
(* held whole among the pending ones: what has arrived whole was released  *)
(* or waits behind a gap.                                                  *)

InboxTypes ==
  /\ inbox \in [pending: SUBSET arrived, complete: SUBSET arrived, next: Nat \ {0}]
  /\ arrived \subseteq Stream

WaitsWhole ==
  \A f \in inbox.complete :
    f.seq > inbox.next /\ Packet(f.seq, f.count) \subseteq inbox.complete

ReleasedWhole == \A s \in 1..inbox.next - 1 : s \in DOMAIN Fragments /\ Arrived(s)

NoneForgotten ==
  fault = NoFault =>
    \A f \in arrived :
      f.seq >= inbox.next => f \in inbox.pending \/ f \in inbox.complete

PendingIncomplete ==
  \A s \in DOMAIN Fragments : ~(Packet(s, Fragments[s]) \subseteq inbox.pending)

InboxInv ==
  /\ InboxTypes
  /\ WaitsWhole
  /\ ReleasedWhole
  /\ NoneForgotten
  /\ PendingIncomplete

(* A frame of the stream belongs to its packet.                            *)
LEMMA StreamFrame ==
  ASSUME NEW f \in Stream
  PROVE  /\ f.seq \in DOMAIN Fragments /\ f.seq \in Nat \ {0}
         /\ f.count = Fragments[f.seq]
         /\ f \in Packet(f.seq, f.count)
  <1>1. PICK s \in DOMAIN Fragments : f \in Packet(s, Fragments[s])
    BY DEF Stream
  <1>2. PICK i \in 1..Fragments[s] : f = [seq |-> s, index |-> i, count |-> Fragments[s]]
    BY <1>1 DEF Packet
  <1>3. f.seq = s /\ f.count = Fragments[s]
    BY <1>2
  <1>4. s \in Nat \ {0}
    BY FragmentsAssumption
  <1> QED
    BY <1>1, <1>3, <1>4

LEMMA PacketFrames ==
  ASSUME NEW s \in DOMAIN Fragments
  PROVE  /\ \A f \in Packet(s, Fragments[s]) : f.seq = s
         /\ Packet(s, Fragments[s]) # {}
  <1>1. Fragments[s] \in Nat \ {0}
    BY FragmentsAssumption
  <1>2. 1 \in 1..Fragments[s]
    BY <1>1
  <1>3. \A f \in Packet(s, Fragments[s]) : f.seq = s
    BY DEF Packet
  <1>4. [seq |-> s, index |-> 1, count |-> Fragments[s]] \in Packet(s, Fragments[s])
    BY <1>2 DEF Packet
  <1> QED
    BY <1>3, <1>4

LEMMA InboxStart == Init => InboxInv
  <1> SUFFICES ASSUME Init PROVE InboxInv
    OBVIOUS
  <1>1. inbox = [pending |-> {}, complete |-> {}, next |-> 1] /\ arrived = {}
    BY DEF Init, EmptyInbox
  <1>2. InboxTypes /\ WaitsWhole /\ ReleasedWhole /\ NoneForgotten
    BY <1>1 DEF InboxTypes, WaitsWhole, ReleasedWhole, NoneForgotten
  <1>3. PendingIncomplete
    BY <1>1, PacketFrames DEF PendingIncomplete
  <1> QED
    BY <1>2, <1>3 DEF InboxInv

(* The fields of the inbox, and what the frame says of itself.             *)
LEMMA FrameArrives ==
  ASSUME InboxInv, NEW f \in Stream, Arrives(f)
  PROVE  /\ fault = NoFault
         /\ arrived' = arrived \cup {f} /\ arrived' \subseteq Stream
         /\ inbox.pending \subseteq arrived /\ inbox.complete \subseteq arrived
         /\ inbox.next \in Nat \ {0}
         /\ \A s : Arrived(s) => Arrived(s)'
  BY DEF Arrives, InboxInv, InboxTypes, Arrived

LEMMA InboxRetains ==
  ASSUME InboxInv, NEW f \in Stream, Retain(f)
  PROVE  InboxInv'
  <1>1. Arrives(f) /\ inbox' = [inbox EXCEPT !.pending = @ \cup {f}]
    BY DEF Retain, AfterRetaining
  <1>2. /\ inbox'.pending = inbox.pending \cup {f}
        /\ inbox'.complete = inbox.complete /\ inbox'.next = inbox.next
    BY <1>1 DEF InboxInv, InboxTypes
  <1>3. InboxTypes'
    BY <1>1, FrameArrives DEF InboxInv, InboxTypes
  <1>4. WaitsWhole'
    BY <1>2 DEF InboxInv, WaitsWhole
  <1>5. ReleasedWhole'
    BY <1>1, <1>2, FrameArrives DEF InboxInv, ReleasedWhole
  <1>6. NoneForgotten'
    BY <1>1, <1>2, FrameArrives DEF InboxInv, NoneForgotten
  <1>7. PendingIncomplete'
    <2>1. ~(Packet(f.seq, Fragments[f.seq]) \subseteq inbox'.pending)
      BY <1>2, StreamFrame DEF Retain, Retains, Refused, Assembles
    <2>2. ASSUME NEW s \in DOMAIN Fragments, s # f.seq
          PROVE  ~(Packet(s, Fragments[s]) \subseteq inbox'.pending)
      BY <1>2, <2>2, PacketFrames DEF InboxInv, PendingIncomplete
    <2> QED
      BY <2>1, <2>2 DEF PendingIncomplete
  <1> QED
    BY <1>3, <1>4, <1>5, <1>6, <1>7 DEF InboxInv

(* The inbox gives up the pending frames of a sequence, if anything.       *)
LEMMA InboxTakes ==
  ASSUME InboxInv, NEW f \in Stream, Arrives(f),
         inbox' \in {inbox, Taken(inbox, f)},
         \/ fault' # NoFault
         \/ f.seq < inbox.next
         \/ f.seq > inbox.next /\ f.seq \in SequencesOf(inbox.complete)
  PROVE  InboxInv'
  <1>1. /\ inbox'.pending \subseteq inbox.pending
        /\ \A g \in inbox.pending : g.seq # f.seq => g \in inbox'.pending
        /\ inbox'.complete = inbox.complete /\ inbox'.next = inbox.next
    BY DEF Taken, Without, InboxInv, InboxTypes
  <1>2. InboxTypes'
    BY FrameArrives DEF InboxInv, InboxTypes, Taken, Without
  <1>3. WaitsWhole'
    BY <1>1 DEF InboxInv, WaitsWhole
  <1>4. ReleasedWhole'
    BY <1>1, FrameArrives DEF InboxInv, ReleasedWhole
  <1>5. PendingIncomplete'
    BY <1>1 DEF InboxInv, PendingIncomplete
  <1>6. ASSUME fault' = NoFault, NEW g \in arrived', g.seq >= inbox'.next
        PROVE  g \in inbox'.pending \/ g \in inbox'.complete
    <2>1. g \in Stream
      BY <1>6, FrameArrives
    <2>2. CASE g.seq = f.seq
      <3>1. f.seq \in SequencesOf(inbox.complete)
        BY <1>1, <1>6, <2>1, <2>2, StreamFrame, FrameArrives
      <3>2. PICK h \in inbox.complete : h.seq = g.seq
        BY <2>2, <3>1 DEF SequencesOf
      <3>3. h \in Stream
        BY <3>2, FrameArrives DEF InboxInv, InboxTypes
      <3>4. Packet(h.seq, h.count) \subseteq inbox.complete
        BY <3>2 DEF InboxInv, WaitsWhole
      <3>5. g \in Packet(h.seq, h.count)
        BY <2>1, <3>2, <3>3, StreamFrame
      <3> QED
        BY <1>1, <3>4, <3>5
    <2>3. CASE g.seq # f.seq
      BY <1>1, <1>6, <2>3, FrameArrives DEF InboxInv, NoneForgotten
    <2> QED
      BY <2>2, <2>3
  <1>7. NoneForgotten'
    BY <1>6 DEF NoneForgotten
  <1> QED
    BY <1>2, <1>3, <1>4, <1>5, <1>7 DEF InboxInv

(* What is assembled has arrived.                                          *)
LEMMA AssembledArrived ==
  ASSUME InboxInv, NEW f \in Stream, Arrives(f), Assembles(inbox, f)
  PROVE  /\ Arrived(f.seq)'
         /\ Packet(f.seq, f.count) \subseteq arrived'
  BY StreamFrame, FrameArrives DEF Assembles, Arrived

LEMMA InboxBuffers ==
  ASSUME InboxInv, NEW f \in Stream, Buffer(f)
  PROVE  InboxInv'
  <1>1. /\ Arrives(f) /\ Assembles(inbox, f) /\ f.seq > inbox.next
        /\ inbox' = AfterBuffering(inbox, f)
    BY DEF Buffer, Buffers
  <1>2. /\ inbox'.pending = Without(inbox.pending, f.seq)
        /\ inbox'.complete = inbox.complete \cup Packet(f.seq, f.count)
        /\ inbox'.next = inbox.next
    BY <1>1 DEF AfterBuffering, Taken, InboxInv, InboxTypes
  <1>3. /\ inbox'.pending \subseteq inbox.pending
        /\ \A g \in inbox.pending : g.seq # f.seq => g \in inbox'.pending
    BY <1>2 DEF Without
  <1>4. InboxTypes'
    <2>1. /\ Without(inbox.pending, f.seq) \subseteq arrived'
          /\ inbox.complete \cup Packet(f.seq, f.count) \subseteq arrived'
      BY <1>1, <1>2, <1>3, FrameArrives, AssembledArrived
    <2> QED
      BY <1>1, <2>1, FrameArrives DEF AfterBuffering, Taken, InboxInv, InboxTypes
  <1>5. WaitsWhole'
    <2>1. f.seq \in DOMAIN Fragments /\ f.count = Fragments[f.seq]
      BY StreamFrame
    <2>2. \A g \in Packet(f.seq, f.count) : g.seq = f.seq /\ g.count = f.count
      BY DEF Packet
    <2> QED
      BY <1>1, <1>2, <2>2 DEF InboxInv, WaitsWhole
  <1>6. ReleasedWhole'
    BY <1>1, <1>2, FrameArrives DEF InboxInv, ReleasedWhole
  <1>7. PendingIncomplete'
    BY <1>3 DEF InboxInv, PendingIncomplete
  <1>8. ASSUME NEW g \in arrived', g.seq >= inbox'.next
        PROVE  g \in inbox'.pending \/ g \in inbox'.complete
    <2>1. g \in Stream
      BY <1>1, FrameArrives
    <2>2. CASE g.seq = f.seq
      BY <1>2, <2>1, <2>2, StreamFrame
    <2>3. CASE g.seq # f.seq
      BY <1>1, <1>2, <1>3, <1>8, <2>3, FrameArrives DEF InboxInv, NoneForgotten
    <2> QED
      BY <2>2, <2>3
  <1>9. NoneForgotten'
    BY <1>8 DEF NoneForgotten
  <1> QED
    BY <1>4, <1>5, <1>6, <1>7, <1>9 DEF InboxInv

LEMMA InboxReleases ==
  ASSUME InboxInv, NEW f \in Stream, Release(f)
  PROVE  InboxInv'
  <1>1. /\ Arrives(f) /\ Assembles(inbox, f) /\ f.seq = inbox.next
    BY DEF Release, Releases
  <1>2. inbox.next \in Nat \ {0}
    BY DEF InboxInv, InboxTypes
  <1>3. PICK n \in inbox.next + 1 .. inbox.next + 1 + MaxCompletePackets :
          EndsAt(inbox, n) /\ inbox' = AfterRelease(inbox, f, n)
    BY DEF Release
  <1>4. /\ n \in Nat \ {0} /\ n > inbox.next
        /\ n \notin SequencesOf(inbox.complete)
        /\ \A s \in inbox.next + 1 .. n - 1 : s \in SequencesOf(inbox.complete)
    BY <1>2, <1>3, InboxAssumption DEF EndsAt
  <1>5. /\ inbox'.pending = Without(inbox.pending, f.seq)
        /\ inbox'.complete = {g \in inbox.complete : g.seq \notin inbox.next + 1 .. n - 1}
        /\ inbox'.next = n
        /\ inbox' = [pending |-> inbox'.pending, complete |-> inbox'.complete, next |-> n]
    BY <1>3 DEF AfterRelease
  <1>6. /\ inbox'.pending \subseteq inbox.pending
        /\ \A g \in inbox.pending : g.seq # f.seq => g \in inbox'.pending
    BY <1>5 DEF Without
  <1>7. InboxTypes'
    <2>1. inbox'.pending \subseteq arrived' /\ inbox'.complete \subseteq arrived'
      BY <1>1, <1>5, <1>6, FrameArrives
    <2> QED
      BY <1>1, <1>4, <1>5, <2>1, FrameArrives DEF InboxTypes
  <1>8. \A g \in inbox.complete : g \in Stream /\ g.seq \in Nat /\ g.seq > inbox.next
    BY <1>1, FrameArrives, StreamFrame DEF InboxInv, InboxTypes, WaitsWhole
  <1>9. WaitsWhole'
    <2> SUFFICES ASSUME NEW g \in inbox'.complete
                 PROVE  g.seq > n /\ Packet(g.seq, g.count) \subseteq inbox'.complete
      BY <1>5 DEF WaitsWhole
    <2>1. g \in inbox.complete /\ g.seq \notin inbox.next + 1 .. n - 1
      BY <1>5
    <2>2. g.seq # n
      BY <1>4, <2>1 DEF SequencesOf
    <2>3. g.seq > n
      BY <1>2, <1>4, <1>8, <2>1, <2>2
    <2>4. Packet(g.seq, g.count) \subseteq inbox.complete
      BY <2>1 DEF InboxInv, WaitsWhole
    <2>5. \A h \in Packet(g.seq, g.count) : h.seq = g.seq
      BY DEF Packet
    <2> QED
      BY <1>5, <2>1, <2>3, <2>4, <2>5
  <1>10. ReleasedWhole'
    <2> SUFFICES ASSUME NEW s \in 1..n - 1
                 PROVE  s \in DOMAIN Fragments /\ Arrived(s)'
      BY <1>5 DEF ReleasedWhole
    <2>1. CASE s \in 1..inbox.next - 1
      BY <1>1, <2>1, FrameArrives DEF InboxInv, ReleasedWhole
    <2>2. CASE s = inbox.next
      BY <1>1, <2>2, AssembledArrived, StreamFrame
    <2>3. CASE s \in inbox.next + 1 .. n - 1
      <3>1. PICK h \in inbox.complete : h.seq = s
        BY <1>4, <2>3 DEF SequencesOf
      <3>2. Packet(h.seq, h.count) \subseteq arrived
        BY <1>1, <3>1, FrameArrives DEF InboxInv, WaitsWhole
      <3>3. h.seq \in DOMAIN Fragments /\ h.count = Fragments[h.seq]
        BY <1>8, <3>1, StreamFrame
      <3>4. Arrived(s)
        BY <3>1, <3>2, <3>3 DEF Arrived
      <3> QED
        BY <1>1, <3>1, <3>3, <3>4, FrameArrives
    <2> QED
      BY <1>2, <1>4, <2>1, <2>2, <2>3
  <1>11. PendingIncomplete'
    BY <1>6 DEF InboxInv, PendingIncomplete
  <1>12. ASSUME NEW g \in arrived', g.seq >= n
         PROVE  g \in inbox'.pending \/ g \in inbox'.complete
    <2>1. g \in Stream /\ g.seq \in Nat
      BY <1>1, FrameArrives, StreamFrame
    <2>2. g.seq >= inbox.next /\ g.seq # f.seq /\ g.seq \notin inbox.next + 1 .. n - 1
      BY <1>1, <1>2, <1>4, <1>12, <2>1
    <2>3. g \in arrived
      BY <1>1, <2>2, FrameArrives
    <2>4. g \in inbox.pending \/ g \in inbox.complete
      BY <1>1, <2>2, <2>3, FrameArrives DEF InboxInv, NoneForgotten
    <2> QED
      BY <1>5, <1>6, <2>2, <2>4
  <1>13. NoneForgotten'
    BY <1>5, <1>12 DEF NoneForgotten
  <1> QED
    BY <1>7, <1>9, <1>10, <1>11, <1>13 DEF InboxInv

LEMMA InboxStep == InboxInv /\ [Next]_vars => InboxInv'
  <1> SUFFICES ASSUME InboxInv, [Next]_vars PROVE InboxInv'
    OBVIOUS
  <1>1. ASSUME NEW f \in Stream, Ignore(f) \/ Refuse(f) \/ Overflow(f)
        PROVE  InboxInv'
    <2>1. Arrives(f)
      BY <1>1 DEF Ignore, Refuse, Overflow
    <2>2. inbox' \in {inbox, Taken(inbox, f)}
      BY <1>1 DEF Ignore, Refuse, Overflow, AfterRefusal, Taken
    <2>3. \/ fault' # NoFault
          \/ f.seq < inbox.next
          \/ f.seq > inbox.next /\ f.seq \in SequencesOf(inbox.complete)
      BY <1>1 DEF Ignore, Ignores, Refuse, Overflow, NoFault
    <2> QED
      BY <2>1, <2>2, <2>3, InboxTakes
  <1>2. CASE UNCHANGED vars
    BY <1>2 DEF vars, InboxInv, InboxTypes, WaitsWhole, ReleasedWhole, Arrived,
                NoneForgotten, PendingIncomplete
  <1> QED
    BY <1>1, <1>2, InboxRetains, InboxBuffers, InboxReleases DEF Next

LEMMA InboxAlways == Spec => []InboxInv
  BY InboxStart, InboxStep, PTL DEF Spec

(* In whatever order frames arrive, are lost and come again, the inbox has *)
(* released exactly the packets before the first that misses a fragment    *)
(* (OrderedDeltaInbox::push).                                              *)
THEOREM InboxReleasesWhatIsDue == Spec => []ReleasesWhatIsDue
  <1>1. ASSUME InboxInv PROVE ReleasesWhatIsDue
    <2>1. \A s \in 1..inbox.next - 1 : Arrived(s)
      BY <1>1 DEF InboxInv, ReleasedWhole
    <2>2. ASSUME fault = NoFault, inbox.next \in DOMAIN Fragments, Arrived(inbox.next)
          PROVE  FALSE
      <3>1. \A f \in Packet(inbox.next, Fragments[inbox.next]) :
              f \in arrived /\ f.seq = inbox.next
        BY <2>2, PacketFrames DEF Arrived
      <3>2. inbox.next \in Nat
        BY <1>1 DEF InboxInv, InboxTypes
      <3>3. \A f \in inbox.complete : f.seq > inbox.next
        BY <1>1 DEF InboxInv, WaitsWhole
      <3>4. Packet(inbox.next, Fragments[inbox.next]) \subseteq inbox.pending
        BY <1>1, <2>2, <3>1, <3>2, <3>3 DEF InboxInv, NoneForgotten
      <3> QED
        BY <1>1, <2>2, <3>4 DEF InboxInv, PendingIncomplete
    <2> QED
      BY <2>1, <2>2 DEF ReleasesWhatIsDue
  <1> QED
    BY <1>1, InboxAlways, PTL

(* What waits complete waits whole and behind a gap, and nothing that      *)
(* arrived whole is kept anywhere else.                                    *)
THEOREM InboxWaitsBehindGaps == Spec => []WaitingBehindGap
  <1>1. ASSUME InboxInv PROVE WaitingBehindGap
    <2>1. ASSUME NEW s \in DOMAIN Fragments, s > inbox.next, Arrived(s), fault = NoFault
          PROVE  s \in SequencesOf(inbox.complete)
      <3>1. PICK f \in Packet(s, Fragments[s]) : f \notin inbox.pending
        BY <1>1 DEF InboxInv, PendingIncomplete
      <3>2. f \in arrived /\ f.seq = s
        BY <2>1, <3>1, PacketFrames DEF Arrived
      <3>3. s >= inbox.next
        <4>1. s \in Nat /\ inbox.next \in Nat
          BY <1>1, FragmentsAssumption DEF InboxInv, InboxTypes
        <4> QED
          BY <2>1, <4>1
      <3>4. f \in inbox.complete
        BY <1>1, <2>1, <3>1, <3>2, <3>3 DEF InboxInv, NoneForgotten
      <3> QED
        BY <3>2, <3>4 DEF SequencesOf
    <2> QED
      BY <1>1, <2>1 DEF InboxInv, WaitsWhole, WaitingBehindGap
  <1> QED
    BY <1>1, InboxAlways, PTL

-----------------------------------------------------------------------------
(* Character motion, for any cells, worlds and limits.  What the authority *)
(* acknowledges grows with its ticks, never beyond what was produced, and  *)
(* the last acknowledgement that was reconciled is that of a state it      *)
(* sent; so a newer state never acknowledges less, nor more than exists.   *)

MotionTypes ==
  /\ playerTick \in Nat
  /\ player.state.last \in Nat /\ DOMAIN player.state = {"cell", "last"}
  /\ DOMAIN prediction = {"player", "pending", "tick", "acknowledged", "produced"}
  /\ prediction.produced \in Nat /\ prediction.tick \in Nat
  /\ \A input \in inputs : input.sequence \in Nat
  /\ \A view \in states : view.tick \in Nat \ {0} /\ view.own.last \in Nat

(* Nothing is sent, and so nothing acknowledged, before there is a state   *)
(* to predict from; then inputs are numbered one after the other.          *)
NumberedInTurn ==
  /\ Predicting => nextInput = prediction.produced + 1
  /\ ~Predicting => prediction.produced = 0
  /\ \A input \in inputs : input.sequence <= prediction.produced
  /\ player.state.last <= prediction.produced

AcknowledgedInOrder ==
  /\ \A view \in states : view.tick <= playerTick /\ view.own.last <= player.state.last
  /\ \A older, newer \in states :
       older.tick <= newer.tick => older.own.last <= newer.own.last
  /\ Predicting =>
       \E view \in states :
         view.tick = prediction.tick /\ view.own.last = prediction.acknowledged

MotionInv ==
  /\ MotionTypes
  /\ NumberedInTurn
  /\ AcknowledgedInOrder
  /\ OnlyTheLimitEnds

LEMMA MotionStart == PlayerInit => MotionInv
  <1> SUFFICES ASSUME PlayerInit PROVE MotionInv
    OBVIOUS
  <1>1. /\ playerTick = 0 /\ inputs = {} /\ states = {} /\ failure = "none"
        /\ prediction = NoPrediction
        /\ \E c \in Spawns : player = Standing([cell |-> c, last |-> 0])
    BY DEF PlayerInit
  <1>2. player.state.last = 0
    BY <1>1 DEF Standing
  <1>7. DOMAIN player.state = {"cell", "last"}
    BY <1>1 DEF Standing
  <1>3. /\ DOMAIN prediction = {"player", "pending", "tick", "acknowledged", "produced"}
        /\ prediction.produced = 0 /\ prediction.tick = 0
    BY <1>1 DEF NoPrediction
  <1>4. MotionTypes
    BY <1>1, <1>2, <1>3, <1>7 DEF MotionTypes
  <1>5. NumberedInTurn
    BY <1>1, <1>2, <1>3 DEF NumberedInTurn, Predicting
  <1>6. AcknowledgedInOrder
    BY <1>1, <1>3 DEF AcknowledgedInOrder, Predicting
  <1> QED
    BY <1>1, <1>4, <1>5, <1>6 DEF MotionInv, OnlyTheLimitEnds

(* The authority's player changes; what it acknowledges does not go back.  *)
LEMMA AuthorityMoves ==
  ASSUME MotionInv,
         UNCHANGED <<inputs, states, prediction, nextInput, failure, playerTick>>,
         player'.state.last \in Nat, DOMAIN player'.state = {"cell", "last"},
         player.state.last <= player'.state.last,
         player'.state.last <= prediction.produced
  PROVE  MotionInv'
  <1>1. MotionTypes'
    BY DEF MotionInv, MotionTypes
  <1>2. NumberedInTurn'
    BY DEF MotionInv, NumberedInTurn, Predicting
  <1>3. AcknowledgedInOrder'
    BY DEF MotionInv, MotionTypes, AcknowledgedInOrder, Predicting
  <1> QED
    BY <1>1, <1>2, <1>3 DEF MotionInv, OnlyTheLimitEnds

LEMMA InputAccepted ==
  ASSUME MotionInv, NEW input \in inputs, AcceptPlayerInput(input)
  PROVE  MotionInv'
  <1>1. player' = Accept(player, input) /\ input.sequence > player.state.last
    BY DEF AcceptPlayerInput, Accepts
  <1>2. UNCHANGED <<inputs, states, prediction, nextInput, failure, playerTick>>
    BY DEF AcceptPlayerInput, ClientAndNetwork
  <1>3. PICK m : player'.state = [player.state EXCEPT !.last = m] /\ m = input.sequence
    BY <1>1 DEF Accept
  <1>4. "last" \in DOMAIN player.state
    BY DEF MotionInv, MotionTypes
  <1>5. player'.state.last = input.sequence /\ DOMAIN player'.state = {"cell", "last"}
    BY <1>3, <1>4 DEF MotionInv, MotionTypes
  <1> QED
    BY <1>1, <1>2, <1>5, AuthorityMoves DEF MotionInv, MotionTypes, NumberedInTurn

LEMMA AuthoritySimulates ==
  ASSUME MotionInv, SimulateAndBroadcast
  PROVE  MotionInv'
  <1>1. /\ playerTick' = playerTick + 1 /\ player' \in AfterStep(player)
        /\ states' \in {states, states \cup {View}}
        /\ UNCHANGED <<inputs, prediction, nextInput, failure>>
    BY DEF SimulateAndBroadcast
  <1>2. /\ playerTick \in Nat /\ player.state.last \in Nat
        /\ DOMAIN player.state = {"cell", "last"}
    BY DEF MotionInv, MotionTypes
  <1>3. player'.state.last = player.state.last /\ DOMAIN player'.state = {"cell", "last"}
    <2>1. CASE player' = Step(player, Current)
      <3>1. PICK c : player'.state = [player.state EXCEPT !.cell = c]
        BY <2>1 DEF Step
      <3> QED
        BY <1>2, <3>1
    <2>2. CASE \E c \in Clear(Current) : player' = Recovered(player, c)
      BY <2>2 DEF Recovered, Standing
    <2>3. CASE player' = player
      BY <1>2, <2>3
    <2> QED
      BY <1>1, <2>1, <2>2, <2>3 DEF AfterStep
  <1> DEFINE new == View
  <1>4. new.tick = playerTick + 1 /\ new.own.last = player.state.last
    BY <1>1, <1>3 DEF View
  <1>5. states' \in {states, states \cup {new}}
    BY <1>1
  <1> HIDE DEF new
  <1>6. MotionTypes'
    BY <1>1, <1>2, <1>3, <1>4, <1>5 DEF MotionInv, MotionTypes
  <1>7. NumberedInTurn'
    BY <1>1, <1>3 DEF MotionInv, NumberedInTurn, Predicting
  <1>8. \A view \in states' :
          view.tick <= playerTick' /\ view.own.last <= player'.state.last
    BY <1>1, <1>2, <1>3, <1>4, <1>5 DEF MotionInv, MotionTypes, AcknowledgedInOrder
  <1>9. \A older, newer \in states' :
          older.tick <= newer.tick => older.own.last <= newer.own.last
    <2> SUFFICES ASSUME NEW older \in states', NEW newer \in states',
                        older.tick <= newer.tick
                 PROVE  older.own.last <= newer.own.last
      OBVIOUS
    <2>1. CASE newer = new
      BY <1>3, <1>4, <1>8, <2>1
    <2>2. CASE newer \in states /\ older \in states
      BY <2>2 DEF MotionInv, AcknowledgedInOrder
    <2>3. CASE newer \in states /\ older = new
      <3>1. newer.tick \in Nat /\ newer.tick <= playerTick
        BY <2>3 DEF MotionInv, MotionTypes, AcknowledgedInOrder
      <3> QED
        BY <1>2, <1>4, <2>3, <3>1
    <2> QED
      BY <1>5, <2>1, <2>2, <2>3
  <1>10. AcknowledgedInOrder'
    BY <1>1, <1>5, <1>8, <1>9 DEF MotionInv, AcknowledgedInOrder, Predicting
  <1> QED
    BY <1>1, <1>6, <1>7, <1>10 DEF MotionInv, OnlyTheLimitEnds

-----------------------------------------------------------------------------
LEMMA ClientPredicts ==
  ASSUME MotionInv, NEW move \in Moves,
         Predict([sequence |-> nextInput, move |-> move])
  PROVE  MotionInv'
  <1> DEFINE input == [sequence |-> nextInput, move |-> move]
  <1>1. /\ Predicting /\ nextInput = prediction.produced + 1
        /\ playerTick' = playerTick /\ player' = player /\ states' = states
    BY DEF Predict, MotionInv, NumberedInTurn, AuthorityOnly, authority
  <1>2. \/ /\ failure' = "limit"
           /\ UNCHANGED <<inputs, prediction, nextInput>>
        \/ /\ \E p, q : prediction' = [prediction EXCEPT !.player = p, !.pending = q,
                                                         !.produced = nextInput]
           /\ inputs' = inputs \cup {input}
           /\ nextInput' = nextInput + 1
           /\ failure' = failure
    BY <1>1 DEF Predict, Produced
  <1>3. CASE /\ failure' = "limit"
             /\ UNCHANGED <<inputs, prediction, nextInput>>
    BY <1>1, <1>3 DEF MotionInv, MotionTypes, NumberedInTurn, AcknowledgedInOrder,
                      Predicting, OnlyTheLimitEnds
  <1>4. CASE /\ \E p, q : prediction' = [prediction EXCEPT !.player = p, !.pending = q,
                                                          !.produced = nextInput]
             /\ inputs' = inputs \cup {input}
             /\ nextInput' = nextInput + 1
             /\ failure' = failure
    <2>1. PICK p, q : prediction' = [prediction EXCEPT !.player = p, !.pending = q,
                                                       !.produced = nextInput]
      BY <1>4
    <2>2. /\ DOMAIN prediction = {"player", "pending", "tick", "acknowledged", "produced"}
          /\ prediction.produced \in Nat
      BY DEF MotionInv, MotionTypes
    <2>3. /\ DOMAIN prediction' = DOMAIN prediction
          /\ prediction'.produced = nextInput
          /\ prediction'.tick = prediction.tick
          /\ prediction'.acknowledged = prediction.acknowledged
      BY <2>1, <2>2
    <2>4. nextInput \in Nat /\ input.sequence = nextInput
      BY <1>1, <2>2
    <2> HIDE DEF input
    <2>5. MotionTypes'
      BY <1>1, <1>4, <2>2, <2>3, <2>4 DEF MotionInv, MotionTypes
    <2>6. NumberedInTurn'
      BY <1>1, <1>4, <2>2, <2>3, <2>4 DEF MotionInv, MotionTypes, NumberedInTurn, Predicting
    <2>7. AcknowledgedInOrder'
      BY <1>1, <2>3 DEF MotionInv, AcknowledgedInOrder, Predicting
    <2> QED
      BY <1>4, <2>5, <2>6, <2>7 DEF MotionInv, OnlyTheLimitEnds
  <1> QED
    BY <1>2, <1>3, <1>4

LEMMA ClientReceivesState ==
  ASSUME MotionInv, NEW view \in states, ReceiveState(view)
  PROVE  MotionInv'
  <1>1. /\ playerTick' = playerTick /\ player' = player /\ states' = states
        /\ inputs' = inputs /\ Running
    BY DEF ReceiveState, AuthorityOnly, authority
  <1>2. /\ view.tick \in Nat \ {0} /\ view.own.last \in Nat
        /\ view.own.last <= player.state.last
        /\ player.state.last \in Nat /\ prediction.produced \in Nat
        /\ player.state.last <= prediction.produced
    BY DEF MotionInv, MotionTypes, AcknowledgedInOrder, NumberedInTurn
  <1>3. CASE /\ UNCHANGED <<prediction, nextInput>> /\ failure' = "none"
    BY <1>1, <1>3 DEF MotionInv, MotionTypes, NumberedInTurn, AcknowledgedInOrder,
                      Predicting, OnlyTheLimitEnds
  <1>4. CASE Reconcile(view)
    <2>1. PICK older \in states :
            older.tick = prediction.tick /\ older.own.last = prediction.acknowledged
      BY <1>4 DEF Reconcile, MotionInv, AcknowledgedInOrder
    <2>2. prediction.acknowledged <= view.own.last
      <3>1. prediction.tick \in Nat /\ view.tick > prediction.tick
        BY <1>4 DEF Reconcile, MotionInv, MotionTypes
      <3>2. older.tick <= view.tick
        BY <1>2, <2>1, <3>1
      <3> QED
        BY <2>1, <3>2 DEF MotionInv, AcknowledgedInOrder
    <2>3. prediction.acknowledged \in Nat
      BY <2>1 DEF MotionInv, MotionTypes
    <2>4. Refusal(view) = "none"
      BY <1>2, <2>2, <2>3 DEF Refusal
    <2>5. failure' = "none" /\ nextInput' = nextInput /\ Predicting
      BY <1>4, <2>4 DEF Reconcile
    <2>6. CASE prediction' = prediction
      BY <1>3, <2>5, <2>6
    <2>7. CASE prediction' # prediction
      <3>1. PICK p, q :
              prediction' = [player |-> p, pending |-> q, tick |-> view.tick,
                             acknowledged |-> view.own.last,
                             produced |-> prediction.produced]
        BY <1>4, <2>4, <2>7 DEF Reconcile
      <3>2. /\ DOMAIN prediction' = {"player", "pending", "tick", "acknowledged", "produced"}
            /\ prediction'.produced = prediction.produced
            /\ prediction'.tick = view.tick
            /\ prediction'.acknowledged = view.own.last
        BY <3>1
      <3>3. MotionTypes'
        BY <1>1, <1>2, <3>2 DEF MotionInv, MotionTypes
      <3>4. NumberedInTurn'
        BY <1>1, <1>2, <2>5, <3>2 DEF MotionInv, NumberedInTurn, Predicting
      <3>5. AcknowledgedInOrder'
        BY <1>1, <3>2 DEF MotionInv, AcknowledgedInOrder
      <3> QED
        BY <2>5, <3>3, <3>4, <3>5 DEF MotionInv, OnlyTheLimitEnds
    <2> QED
      BY <2>6, <2>7
  <1>5. CASE /\ ~Predicting /\ prediction' = FromState(view)
             /\ nextInput' = view.own.last + 1 /\ failure' = failure
    <2>1. view.own.last = 0 /\ prediction.produced = 0
      BY <1>2, <1>5 DEF MotionInv, NumberedInTurn
    <2>2. /\ DOMAIN prediction' = {"player", "pending", "tick", "acknowledged", "produced"}
          /\ prediction'.produced = view.own.last
          /\ prediction'.tick = view.tick
          /\ prediction'.acknowledged = view.own.last
      BY <1>5 DEF FromState
    <2>3. MotionTypes'
      BY <1>1, <1>2, <2>2 DEF MotionInv, MotionTypes
    <2>4. NumberedInTurn'
      BY <1>1, <1>2, <1>5, <2>1, <2>2 DEF MotionInv, NumberedInTurn, Predicting
    <2>5. AcknowledgedInOrder'
      BY <1>1, <2>2 DEF MotionInv, AcknowledgedInOrder
    <2> QED
      BY <1>5, <2>3, <2>4, <2>5 DEF MotionInv, OnlyTheLimitEnds
  <1> QED
    BY <1>1, <1>3, <1>4, <1>5 DEF ReceiveState, Running

LEMMA MotionStep == MotionInv /\ [PlayerNext]_PlayerVars => MotionInv'
  <1> SUFFICES ASSUME MotionInv, [PlayerNext]_PlayerVars PROVE MotionInv'
    OBVIOUS
  <1>1. CASE \/ ChangeWorld \/ ComeOrGo \/ FollowWorld \/ RequestSnapshot
             \/ InstallSnapshot \/ UNCHANGED PlayerVars
    <2>1. UNCHANGED <<playerTick, player, inputs, states, prediction, nextInput, failure>>
      BY <1>1 DEF ChangeWorld, ComeOrGo, FollowWorld, RequestSnapshot, InstallSnapshot,
                  ClientAndNetwork, AuthorityOnly, authority, PlayerVars
    <2> QED
      BY <2>1 DEF MotionInv, MotionTypes, NumberedInTurn, AcknowledgedInOrder,
                  Predicting, OnlyTheLimitEnds
  <1> QED
    BY <1>1, InputAccepted, AuthoritySimulates, ClientPredicts, ClientReceivesState
       DEF PlayerNext

(* However states are lost, repeated and reordered around changing worlds, *)
(* snapshots and recoveries, the client never meets an impossible state or *)
(* number: only the limit of its pending inputs ends it (reconcile,        *)
(* predict, receive_player_state).                                         *)
THEOREM OnlyTheLimitEndsIt == PlayerSpec => []OnlyTheLimitEnds
  <1>1. MotionInv => OnlyTheLimitEnds
    BY DEF MotionInv
  <1> QED
    BY <1>1, MotionStart, MotionStep, PTL DEF PlayerSpec
=============================================================================
