---------------------------- MODULE ClientMeshes ----------------------------
(***************************************************************************)
(* Meshes of the graphical client: MeshScheduler and its worker thread     *)
(* (src/mesh_scheduler.rs) as receive_world_delta, receive_snapshot and    *)
(* pump_meshing of bin/multiplayer_demo.rs use them.  The worker meshes a  *)
(* copy of the world while deltas and snapshots change the client's.       *)
(*                                                                         *)
(* A world is what each chunk holds.  The mesh of a chunk shows the chunk  *)
(* and what of the chunks around it reaches into it; an empty chunk has no *)
(* mesh.  A body keeps its form for ever, so its mesh is that it is drawn. *)
(*                                                                         *)
(* More chunks waiting to be meshed than the client allows end it.  A body *)
(* never does: it has at most BodyLimits::default (physics.rs), half of    *)
(* MAX_BODY_VOXELS_PER_MESH_JOB, and a world has at most the               *)
(* MAX_ACTIVE_BODIES that the renderer holds.  That a mesh is larger than  *)
(* the renderer or the worker allows is left out.                          *)
(***************************************************************************)
EXTENDS Naturals, FiniteSets

CONSTANTS
  Chunks, Contents, Empty,
  Around(_),         \* the chunks that a mesh depends on, its own included
  Bodies,
  MaxJobChunks,      \* MAX_CHUNKS_PER_MESH_JOB
  MaxJobBodies,      \* MAX_BODIES_PER_MESH_JOB
  MaxPendingChunks,  \* MAX_PENDING_NETWORK_MESH_CHUNKS
  MaxEpoch           \* bound of the snapshots

ASSUME MeshAssumption ==
  /\ {MaxJobChunks, MaxJobBodies} \subseteq Nat \ {0}
  /\ {MaxPendingChunks, MaxEpoch} \subseteq Nat
  /\ Empty \in Contents
  /\ \A c \in Chunks : c \in Around(c) /\ Around(c) \subseteq Chunks

VARIABLES
  world,             \* replica.world()
  bodies,            \* replica.bodies()
  meshSnapshot,      \* mesh_snapshot
  pendingChunks, pendingBodies,
  epoch,             \* mesh_epoch
  phase,             \* mesh_worker_phase: "idle", or the epoch of the job
  job,               \* the job and where it is: queued, meshed, answered
  drawn, drawnBodies,\* the renderer's chunks and bodies
  ended              \* a frame returned an error, which ends the client

replica == <<world, bodies>>
MeshVars == <<replica, meshSnapshot, pendingChunks, pendingBodies, epoch, phase,
              job, drawn, drawnBodies, ended>>

Worlds == [Chunks -> Contents]
NoMesh == [n \in {} |-> Empty]

(* mesh_chunk                                                              *)
Mesh(w, c) == IF w[c] = Empty THEN NoMesh ELSE [n \in Around(c) |-> w[n]]

(* dirty_chunks: with what touches it                                      *)
DirtyAlone(changed) == changed

Dirty(changed) == {c \in Chunks : Around(c) \cap changed # {}}

WorkerIdle == [busy |-> FALSE, of |-> 0]
NoJob == [at |-> "none", kind |-> "none", of |-> {}, world |-> NoMesh]

MeshInit ==
  /\ world = [c \in Chunks |-> Empty]
  /\ bodies = {}
  /\ meshSnapshot = world
  /\ pendingChunks = {} /\ pendingBodies = {}
  /\ epoch = 0
  /\ phase = WorkerIdle
  /\ job = NoJob
  /\ drawn = [c \in Chunks |-> NoMesh]
  /\ drawnBodies = {}
  /\ ended = FALSE

(* An error ends the client, and what it held is dropped with it.          *)
EndClient ==
  /\ world' = [c \in Chunks |-> Empty]
  /\ bodies' = {}
  /\ meshSnapshot' = world'
  /\ pendingChunks' = {} /\ pendingBodies' = {}
  /\ epoch' = 0
  /\ phase' = WorkerIdle
  /\ job' = NoJob
  /\ drawn' = [c \in Chunks |-> NoMesh]
  /\ drawnBodies' = {}
  /\ ended' = TRUE

(* More than MAX_PENDING_NETWORK_MESH_CHUNKS                               *)
Saturated(chunks) == Cardinality(chunks) > MaxPendingChunks

-----------------------------------------------------------------------------
(* The copy that is meshed follows the world.                              *)
CopiedOnInstall(w, changed) == meshSnapshot

Copied(w, changed) == IF changed = {} THEN meshSnapshot ELSE w

(* receive_world_delta applies a delta with changed voxels or new bodies.  *)
(* Deltas are taken once a first snapshot was installed; the id of a body  *)
(* is new.  A delta with which too many chunks wait ends the client.       *)
Changed(w) == {c \in Chunks : w[c] # world[c]}

WithDelta(w) == pendingChunks \cup Dirty(Changed(w))

ApplyDelta(w, appeared) ==
  /\ ~ended /\ epoch > 0 /\ appeared \cap bodies = {}
  /\ ~Saturated(WithDelta(w))
  /\ world' = w
  /\ bodies' = bodies \cup appeared
  /\ meshSnapshot' = Copied(w, Changed(w))
  /\ pendingChunks' = WithDelta(w)
  /\ pendingBodies' = pendingBodies \cup appeared
  /\ UNCHANGED <<epoch, phase, job, drawn, drawnBodies, ended>>

EndByDelta(w) ==
  /\ ~ended /\ epoch > 0 /\ Saturated(WithDelta(w))
  /\ EndClient

(* receive_snapshot clears what is drawn and queues everything there is.   *)
Solid(w) == {c \in Chunks : w[c] # Empty}

InstallWorld(w, present) ==
  /\ ~ended /\ epoch < MaxEpoch /\ bodies \subseteq present
  /\ ~Saturated(Solid(w))
  /\ world' = w
  /\ bodies' = present
  /\ meshSnapshot' = w
  /\ pendingChunks' = Solid(w)
  /\ pendingBodies' = present
  /\ epoch' = epoch + 1
  /\ drawn' = [c \in Chunks |-> NoMesh]
  /\ drawnBodies' = {}
  /\ UNCHANGED <<phase, job, ended>>

(* A world of more chunks than may wait is refused, which ends the client. *)
RefuseWorld(w) ==
  /\ ~ended /\ epoch < MaxEpoch /\ Saturated(Solid(w))
  /\ EndClient

-----------------------------------------------------------------------------
(* The worker thread                                                       *)
TakeJob ==
  /\ ~ended /\ job.at = "queued"
  /\ job' = [job EXCEPT !.at = "taken"]
  /\ UNCHANGED <<replica, meshSnapshot, pendingChunks, pendingBodies, epoch, phase,
                 drawn, drawnBodies, ended>>

AnswerJob ==
  /\ ~ended /\ job.at = "taken"
  /\ job' = [job EXCEPT !.at = "answered"]
  /\ UNCHANGED <<replica, meshSnapshot, pendingChunks, pendingBodies, epoch, phase,
                 drawn, drawnBodies, ended>>

-----------------------------------------------------------------------------
(* pump_meshing                                                            *)

(* MeshWorkerPhase::complete                                               *)
SameEpoch == phase.busy /\ phase.of = epoch

Completion(matches) ==
  IF ~SameEpoch THEN "discard" ELSE IF matches THEN "upload" ELSE "requeue"

(* The body before the chunks, and only one job at a time.                 *)
BodyJobs(some) ==
  {[at |-> "queued", kind |-> "bodies", of |-> b, world |-> NoMesh] :
     b \in {s \in SUBSET (some \cap bodies) : s # {} /\ Cardinality(s) <= MaxJobBodies}}

(* The chunks nearest to the viewer, wherever that is.                     *)
ChunkJobs(chunks) ==
  {[at |-> "queued", kind |-> "chunks", of |-> c, world |-> meshSnapshot] :
     c \in {s \in SUBSET chunks : s # {} /\ (s = chunks \/ Cardinality(s) = MaxJobChunks)
                                           /\ Cardinality(s) <= MaxJobChunks}}

(* queue_body_mesh_job, else queue_chunk_mesh_job                          *)
SubmitMeshes(chunks) ==
  \/ /\ job' \in BodyJobs(pendingBodies)
     /\ phase' = [busy |-> TRUE, of |-> epoch]
     /\ pendingBodies' = pendingBodies \ job'.of
     /\ pendingChunks' = chunks
  \/ /\ BodyJobs(pendingBodies) = {}
     /\ job' \in ChunkJobs(chunks)
     /\ phase' = [busy |-> TRUE, of |-> epoch]
     /\ pendingBodies' = {}
     /\ pendingChunks' = chunks \ job'.of
  \/ /\ BodyJobs(pendingBodies) = {} /\ chunks = {}
     /\ job' = NoJob
     /\ phase' = WorkerIdle
     /\ pendingBodies' = {}
     /\ pendingChunks' = {}

FeedWorker(chunks) ==
  /\ ~Saturated(chunks)
  /\ SubmitMeshes(chunks)
  /\ UNCHANGED ended

PumpOnly == UNCHANGED <<replica, meshSnapshot, epoch>>

PumpIdle ==
  /\ ~phase.busy
  /\ pendingChunks # {} \/ pendingBodies # {}
  /\ FeedWorker(pendingChunks)
  /\ UNCHANGED <<drawn, drawnBodies>> /\ PumpOnly

(* The copy that was meshed is compared with the world by fingerprint.     *)
PumpChunks ==
  /\ job.at = "answered" /\ job.kind = "chunks"
  /\ LET completion == Completion(job.world = world)
     IN  /\ drawn' = [c \in Chunks |-> IF completion = "upload" /\ c \in job.of
                                       THEN Mesh(job.world, c) ELSE drawn[c]]
         /\ FeedWorker(IF completion = "requeue" THEN pendingChunks \cup job.of
                                             ELSE pendingChunks)
  /\ UNCHANGED drawnBodies /\ PumpOnly

PumpBodies ==
  /\ job.at = "answered" /\ job.kind = "bodies"
  /\ drawnBodies' = IF Completion(TRUE) = "upload" THEN drawnBodies \cup job.of
                                                  ELSE drawnBodies
  /\ FeedWorker(pendingChunks)
  /\ UNCHANGED drawn /\ PumpOnly

(* Chunks queued again may be too many, and end the client.                *)
EndByRequeue ==
  /\ job.at = "answered" /\ job.kind = "chunks"
  /\ Completion(job.world = world) = "requeue"
  /\ Saturated(pendingChunks \cup job.of)
  /\ EndClient

Pump == ~ended /\ (PumpIdle \/ PumpChunks \/ PumpBodies \/ EndByRequeue)

-----------------------------------------------------------------------------
MeshNext ==
  \/ \E w \in Worlds, some \in SUBSET Bodies : ApplyDelta(w, some) \/ InstallWorld(w, some)
  \/ \E w \in Worlds : EndByDelta(w) \/ RefuseWorld(w)
  \/ TakeJob \/ AnswerJob \/ Pump

(* The client pumps every frame and the worker is a thread of its own.     *)
MeshFairness ==
  /\ WF_MeshVars(TakeJob) /\ WF_MeshVars(AnswerJob)
  /\ WF_MeshVars(Pump)

MeshSpec == MeshInit /\ [][MeshNext]_MeshVars /\ MeshFairness

-----------------------------------------------------------------------------
MeshTypeOK ==
  /\ world \in Worlds /\ bodies \subseteq Bodies
  /\ meshSnapshot = world
  /\ pendingChunks \subseteq Chunks /\ pendingBodies \subseteq bodies
  /\ epoch \in 0..MaxEpoch
  /\ phase \in [busy: BOOLEAN, of: 0..MaxEpoch]
  /\ job.at \in {"none", "queued", "taken", "answered"}
  /\ job.kind = "chunks" => job.of \subseteq Chunks /\ job.world \in Worlds
  /\ job.kind = "bodies" => job.of \subseteq Bodies
  /\ phase.busy <=> job.at # "none"
  /\ drawnBodies \subseteq bodies
  /\ ~Saturated(pendingChunks)

(* Whatever changes while a copy of the world is meshed: until the client  *)
(* ends, what is drawn is the world's, or its chunk or body will be meshed *)
(* again, as it is pending or in the job of this epoch.  Nothing of an     *)
(* earlier world stays (multiplayer_demo.rs: MeshWorkerPhase::complete,    *)
(* pump_meshing, receive_world_delta, receive_snapshot).                   *)
InJob(kind, x) == SameEpoch /\ job.kind = kind /\ x \in job.of

StaleMeshesAreQueued ==
  ~ended =>
    /\ \A c \in Chunks : drawn[c] = Mesh(world, c) \/ c \in pendingChunks \/ InJob("chunks", c)
    /\ \A b \in Bodies : b \in bodies <=>
         b \in drawnBodies \/ b \in pendingBodies \/ InJob("bodies", b)

(* When the world rests, everything is drawn as it is, unless more chunks  *)
(* waited than the client allows and it ended: nothing that a delta, a     *)
(* snapshot or a late answer does leaves a stale mesh on the screen of a   *)
(* client that runs (multiplayer_demo.rs: pump_meshing,                    *)
(* receive_world_delta, receive_snapshot).                                 *)
AllDrawn == drawn = [c \in Chunks |-> Mesh(world, c)] /\ drawnBodies = bodies

MeshesSettle == <>[][UNCHANGED <<replica, epoch>>]_MeshVars => []<>(ended \/ AllDrawn)
=============================================================================
