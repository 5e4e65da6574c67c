--------------------------- MODULE GeometryWorld ---------------------------
(***************************************************************************)
(* The storage of a world (WorldStorage, src/world.rs), uniform and        *)
(* refined (world/geometry.rs), with the checkpoints and transactions of   *)
(* world/geometry/wire.rs.                                                 *)
(*                                                                         *)
(* Chunks are shared by reference: `heap` is what each Arc points to, a    *)
(* chunk that somebody else holds is copied before it is written, and an   *)
(* address is used again as soon as nobody holds it.  A world starts as a  *)
(* uniform World, read by a snapshot and by an observation as the          *)
(* structural jobs do, and may be promoted to a GeometryState.             *)
(*                                                                         *)
(* Space has one axis.  A cell is air, a uniform solid or a refined page;  *)
(* fingerprints are the sets of tokens the code combines by exclusive or,  *)
(* with no collisions.  A record in a checkpoint has the code's size.      *)
(* Ticks are left out: a caller whose tick goes back is refused.  So is    *)
(* the capacity of the map, for which a snapshot may be refused too.       *)
(***************************************************************************)
EXTENDS Integers, Sequences, FiniteSets, SequencesExt, Functions, Queues

CONSTANTS
  Positions, ChunkEdge,
  Void,               \* GeometryCell::AIR
  Uniforms,           \* solid uniform cells
  Refined, PageLeaves,\* refined pages and how many leaves each has
  MaxChunks, MaxCells, MaxPages, MaxRefinedLeaves,
  MaxCheckpointBytes, MaxChanges, MaxTransactionLeaves,
  MaxSnapshotChunks,  \* what a structural job may take
  MaxSequence         \* bound of the model

Cell == {Void} \cup Uniforms \cup Refined

ASSUME GeometryAssumption ==
  /\ Positions \subseteq Int /\ IsFiniteSet(Positions)
  /\ ChunkEdge \in Nat \ {0}
  /\ Void \notin Uniforms \cup Refined /\ Uniforms \cap Refined = {}
  /\ PageLeaves \in [Refined -> Nat \ {0, 1}]
  /\ {MaxChunks, MaxCells, MaxPages, MaxRefinedLeaves, MaxCheckpointBytes, MaxChanges,
      MaxTransactionLeaves, MaxSnapshotChunks, MaxSequence} \subseteq Nat

VARIABLES
  heap,       \* chunks in memory, by address
  world,      \* the WorldStorage
  refined,    \* whether it is a RefinedWorld in a GeometryState
  next,       \* next_sequence
  snapshot,   \* a clone of the world, with what it contained (auxiliary)
  observed,   \* a ChunkObservation, with whether the chunk was written since (auxiliary)
  prepared,   \* a GeometryTransaction, with the cells it was prepared for (auxiliary)
  checkpoint, \* an encoded GeometryState, with its cells (auxiliary)
  cells       \* the last value given to each cell (auxiliary)

GeometryVars == <<heap, world, refined, next, snapshot, observed, prepared,
                  checkpoint, cells>>

None == [none |-> TRUE]
Some(x) == x # None

-----------------------------------------------------------------------------
ChunkOf(p) == p \div ChunkEdge
LocalOf(p) == p % ChunkEdge

LeavesIn(cell) == IF cell \in Refined THEN PageLeaves[cell] ELSE 0
Token(p, cell) == IF cell = Void THEN {} ELSE {<<p, cell>>}
Xor(a, b) == (a \ b) \cup (b \ a)
Occupied(cell) == IF cell = Void THEN 0 ELSE 1

EmptyChunk == [cell |-> [l \in 0..ChunkEdge - 1 |-> Void], solid |-> 0, leaves |-> 0]
EmptyStore == [chunks |-> <<>>, epoch |-> 0, solid |-> 0, hash |-> {}]

CellAt(mem, store, p) ==
  IF ChunkOf(p) \in DOMAIN store.chunks
  THEN mem[store.chunks[ChunkOf(p)]].cell[LocalOf(p)] ELSE Void

Addresses(store) == {store.chunks[c] : c \in DOMAIN store.chunks}
Fresh(used) == CHOOSE n \in 0..Cardinality(used) : n \notin used /\ \A m \in 0..n - 1 : m \in used

Only(f, keys) == [k \in DOMAIN f \cap keys |-> f[k]]
With(f, k, x) == [j \in DOMAIN f \cup {k} |-> IF j = k THEN x ELSE f[j]]

(* What everybody but the world itself holds. *)
ReaderAddresses ==
  (IF Some(snapshot) THEN Addresses(snapshot.store) ELSE {})
  \cup (IF Some(observed) /\ observed.occupied THEN {observed.token} ELSE {})
ReaderEpochs ==
  (IF Some(snapshot) THEN {snapshot.store.epoch} ELSE {})
  \cup (IF Some(observed) /\ ~observed.occupied THEN {observed.token} ELSE {})
Readers == [addresses |-> ReaderAddresses, epochs |-> ReaderEpochs]

(* Arc::make_mut: in place when nobody else holds the chunk. *)
WritableInPlace(mem, store, c, others) ==
  IF c \in DOMAIN store.chunks THEN store.chunks[c] ELSE Fresh(DOMAIN mem)

Writable(mem, store, c, others) ==
  IF c \in DOMAIN store.chunks /\ store.chunks[c] \notin others.addresses
  THEN store.chunks[c] ELSE Fresh(DOMAIN mem)

WriteOver(chunk, p, cell) ==
  [cell |-> [chunk.cell EXCEPT ![LocalOf(p)] = cell],
   solid |-> chunk.solid - Occupied(chunk.cell[LocalOf(p)]) + Occupied(cell),
   leaves |-> chunk.leaves + LeavesIn(cell)]

WriteInto(chunk, p, cell) ==
  LET was == chunk.cell[LocalOf(p)]
  IN [cell |-> [chunk.cell EXCEPT ![LocalOf(p)] = cell],
      solid |-> chunk.solid - Occupied(was) + Occupied(cell),
      leaves |-> chunk.leaves - LeavesIn(was) + LeavesIn(cell)]

(* The token of absence changes when a chunk comes or goes. *)
NewEpoch(store, others) == Fresh(others.epochs \cup {store.epoch})

(* set_voxel, set_cell: memory and world after one write. *)
Written(state, others, p, cell) ==
  LET mem == state.mem
      store == state.store
      c == ChunkOf(p)
      was == CellAt(mem, store, p)
      comes == c \notin DOMAIN store.chunks
      chunk == WriteInto(IF comes THEN EmptyChunk ELSE mem[store.chunks[c]], p, cell)
      at == Writable(mem, store, c, others)
      goes == chunk.solid = 0
      chunks == IF goes THEN Only(store.chunks, DOMAIN store.chunks \ {c})
                ELSE With(store.chunks, c, at)
      after == [chunks |-> chunks,
                epoch |-> IF comes \/ goes THEN NewEpoch(store, others) ELSE store.epoch,
                solid |-> store.solid - Occupied(was) + Occupied(cell),
                hash |-> Xor(store.hash, Xor(Token(p, was), Token(p, cell)))]
  IN IF was = cell THEN state
     ELSE [mem |-> Only(With(mem, at, chunk), others.addresses \cup Addresses(after)),
           store |-> after]

AllWritten(state, others, writes) ==
  LET done[n \in 0..Len(writes)] ==
        IF n = 0 THEN state ELSE Written(done[n - 1], others, writes[n][1], writes[n][2])
  IN done[Len(writes)]

Here == [mem |-> heap, store |-> world]

Commits(state) == heap' = state.mem /\ world' = state.store

Touches(ps) ==
  observed' = IF Some(observed)
              THEN [observed EXCEPT !.touched = @ \/ \E p \in ps : ChunkOf(p) = observed.chunk]
              ELSE observed

-----------------------------------------------------------------------------
(* Changes: sequences of [at, before, after], by position. *)
Orders ==
  {q \in SeqOf(Positions, Cardinality(Positions)) : \A i, j \in DOMAIN q : i < j => q[i] < q[j]}

ChangesAt(order, before, after) ==
  [i \in DOMAIN order |-> [at |-> order[i], before |-> before[i], after |-> after[i]]]

Real(changes) == Kept(changes, {c \in Range(changes) : c.before # c.after})
Sites(changes) == {changes[i].at : i \in DOMAIN changes}
Forth(changes) == [i \in DOMAIN changes |-> <<changes[i].at, changes[i].after>>]
Back(changes) == Reverse([i \in DOMAIN changes |-> <<changes[i].at, changes[i].before>>])
Removal(changes) == [i \in DOMAIN changes |-> <<changes[i].at, Void>>]

Changed(was, changes) ==
  [p \in Positions |-> IF p \in Sites(changes)
                       THEN changes[CHOOSE i \in DOMAIN changes : changes[i].at = p].after
                       ELSE was[p]]

BeforeHolds(changes) ==
  \A i \in DOMAIN changes : CellAt(heap, world, changes[i].at) = changes[i].before

-----------------------------------------------------------------------------
(* The uniform world of the game and its readers. *)
GeometryInit ==
  /\ heap = <<>>
  /\ world = EmptyStore
  /\ refined = FALSE /\ next = 0
  /\ snapshot = None /\ observed = None /\ prepared = None /\ checkpoint = None
  /\ cells = [p \in Positions |-> Void]

Coarse == Uniforms \cup {Void}

(* set_voxel, and fill_box, which is one set_voxel after another. *)
SetVoxel ==
  /\ ~refined
  /\ \E p \in Positions, v \in Coarse :
       /\ Commits(Written(Here, Readers, p, v))
       /\ Touches(IF cells[p] = v THEN {} ELSE {p})
       /\ cells' = [cells EXCEPT ![p] = v]
  /\ UNCHANGED <<refined, next, snapshot, prepared, checkpoint>>

(* apply_checked: a wrong final fingerprint takes every write back. *)
ApplyChecked ==
  /\ ~refined
  /\ \E order \in Orders : \E before, after \in [DOMAIN order -> Coarse] :
       LET changes == ChangesAt(order, before, after)
           done == AllWritten(Here, Readers, Forth(changes))
       IN /\ Len(order) <= MaxChanges /\ BeforeHolds(changes)
          /\ \E expected \in {done.store.hash, world.hash} :
               IF done.store.hash = expected
               THEN Commits(done) /\ cells' = Changed(cells, changes)
               ELSE Commits(AllWritten(done, Readers, Back(changes))) /\ UNCHANGED cells
          /\ Touches(Sites(Real(changes)))
  /\ UNCHANGED <<refined, next, snapshot, prepared, checkpoint>>

(* observe_chunk. *)
ObserveChunk ==
  /\ ~Some(observed)
  /\ \E c \in {ChunkOf(p) : p \in Positions} :
       observed' = [chunk |-> c, occupied |-> c \in DOMAIN world.chunks,
                    token |-> IF c \in DOMAIN world.chunks THEN world.chunks[c] ELSE world.epoch,
                    touched |-> FALSE]
  /\ UNCHANGED <<heap, world, refined, next, snapshot, prepared, checkpoint, cells>>

(* bounded_snapshot. *)
TakeSnapshot ==
  /\ ~Some(snapshot)
  /\ Cardinality(DOMAIN world.chunks) <= MaxSnapshotChunks
  /\ snapshot' = [store |-> world, cells |-> cells]
  /\ UNCHANGED <<heap, world, refined, next, observed, prepared, checkpoint, cells>>

(* A job is done with what it read. *)
LetGo ==
  /\ Some(observed) \/ Some(snapshot)
  /\ observed' = None /\ snapshot' = None
  /\ heap' = Only(heap, Addresses(world))
  /\ UNCHANGED <<world, refined, next, prepared, checkpoint, cells>>

Matches ==
  IF observed.occupied
  THEN observed.chunk \in DOMAIN world.chunks /\ world.chunks[observed.chunk] = observed.token
  ELSE observed.chunk \notin DOMAIN world.chunks /\ world.epoch = observed.token

-----------------------------------------------------------------------------
(* GeometryStats, from what the chunks count. *)

(* The sum of a function of naturals over its domain: how many pairs there *)
(* are of an argument and a number up to its value.                        *)
Total(f) == Cardinality(UNION {{x} \X (1..f[x]) : x \in DOMAIN f})

PagesIn(chunk) == Cardinality({l \in DOMAIN chunk.cell : chunk.cell[l] \in Refined})

StatsOf(mem, store) ==
  [chunks |-> Cardinality(DOMAIN store.chunks),
   occupied |-> store.solid,
   pages |-> Total([c \in DOMAIN store.chunks |-> PagesIn(mem[store.chunks[c]])]),
   leaves |-> Total([c \in DOMAIN store.chunks |-> mem[store.chunks[c]].leaves])]

Stats == StatsOf(heap, world)

CheckpointableCells(stats) == 41 + 15 * stats.occupied + 8 * stats.leaves <= MaxCheckpointBytes
Checkpointable(stats) ==
  41 + 15 * stats.occupied + 11 * stats.pages + 8 * stats.leaves <= MaxCheckpointBytes

Allowed(stats) ==
  /\ stats.chunks <= MaxChunks /\ stats.occupied <= MaxCells
  /\ stats.pages <= MaxPages /\ stats.leaves <= MaxRefinedLeaves
  /\ Checkpointable(stats)

(* How a count of cells moves with some of the changes. *)
Moved(changes, some, Count(_)) ==
  Total([i \in some |-> Count(changes[i].after)]) - Total([i \in some |-> Count(changes[i].before)])

Paged(cell) == IF cell \in Refined THEN 1 ELSE 0

(* The residency that changes would end in. *)
SolidAfter(changes, c) ==
  (IF c \in DOMAIN world.chunks THEN heap[world.chunks[c]].solid ELSE 0)
  + Moved(changes, {i \in DOMAIN changes : ChunkOf(changes[i].at) = c}, Occupied)

StatsAfter(changes) ==
  [chunks |-> Cardinality({c \in DOMAIN world.chunks \cup {ChunkOf(p) : p \in Sites(changes)} :
                             SolidAfter(changes, c) # 0}),
   occupied |-> Stats.occupied + Moved(changes, DOMAIN changes, Occupied),
   pages |-> Stats.pages + Moved(changes, DOMAIN changes, Paged),
   leaves |-> Stats.leaves + Moved(changes, DOMAIN changes, LeavesIn)]

HashAfter(changes) ==
  FoldLeft(LAMBDA hash, c : Xor(hash, Xor(Token(c.at, c.before), Token(c.at, c.after))),
           world.hash, changes)

Validates(changes) ==
  /\ Len(changes) <= MaxChanges
  /\ BeforeHolds(changes)
  /\ Total([i \in DOMAIN changes |-> LeavesIn(changes[i].before) + LeavesIn(changes[i].after)])
       <= MaxTransactionLeaves
  /\ Allowed(StatsAfter(changes))

-----------------------------------------------------------------------------
(* The same chunks at addresses of their own. *)
Spare == (0..Cardinality(DOMAIN heap) + Cardinality(DOMAIN world.chunks) - 1) \ DOMAIN heap

Rehoused(at) ==
  [mem |-> [a \in DOMAIN heap \cup Range(at) |->
              IF a \in DOMAIN heap THEN heap[a]
              ELSE heap[world.chunks[CHOOSE c \in DOMAIN at : at[c] = a]]],
   store |-> [chunks |-> at, epoch |-> NewEpoch(world, Readers),
              solid |-> world.solid, hash |-> world.hash]]

Housed(state) ==
  [mem |-> Only(state.mem, ReaderAddresses \cup Addresses(state.store)), store |-> state.store]

Rehouse ==
  \E at \in Injection(DOMAIN world.chunks, Spare) : Commits(Housed(Rehoused(at)))

(* from_uniform, GeometryState::new. *)
Promote ==
  /\ ~refined /\ Allowed(Stats)
  /\ Rehouse
  /\ refined' = TRUE /\ next' = 1
  /\ UNCHANGED <<snapshot, observed, prepared, checkpoint, cells>>

(* to_uniform: refused while a page is left. *)
Demote ==
  /\ refined /\ Stats.pages = 0
  /\ Rehouse
  /\ refined' = FALSE /\ next' = 0
  /\ UNCHANGED <<snapshot, observed, prepared, checkpoint, cells>>

Prepare ==
  /\ refined /\ next < MaxSequence
  /\ \E order \in Orders : \E after \in [DOMAIN order -> Cell] :
       LET changes == ChangesAt(order, [i \in DOMAIN order |-> cells[order[i]]], after)
       IN /\ Validates(changes)
          /\ prepared' = [sequence |-> next, before |-> world.hash,
                          after |-> HashAfter(changes), changes |-> changes, cells |-> cells]
  /\ UNCHANGED <<heap, world, refined, next, snapshot, observed, checkpoint, cells>>

(* Candidates share every chunk with the state they are to replace. *)
WithSelf == [addresses |-> ReaderAddresses \cup Addresses(world),
             epochs |-> ReaderEpochs \cup {world.epoch}]

Candidate(changes) ==
  AllWritten(AllWritten(Here, WithSelf, Removal(Real(changes))), WithSelf, Forth(Real(changes)))

(* GeometryState::apply. *)
Apply ==
  /\ refined /\ Some(prepared)
  /\ prepared.sequence = next /\ prepared.before = world.hash
  /\ Validates(prepared.changes)
  /\ HashAfter(prepared.changes) = prepared.after
  /\ Candidate(prepared.changes).store.hash = prepared.after
  /\ Commits(Housed(Candidate(prepared.changes)))
  /\ Touches(Sites(Real(prepared.changes)))
  /\ next' = next + 1
  /\ cells' = Changed(prepared.cells, prepared.changes)
  /\ UNCHANGED <<refined, snapshot, prepared, checkpoint>>

-----------------------------------------------------------------------------
(* DFGC: the header, 15 bytes for a uniform cell, 17 and the volume for a page. *)
CellsOf(store) == {p \in Positions : CellAt(heap, store, p) # Void}
VolumeBytes(cell) == 9 + 8 * PageLeaves[cell]
RecordBytes(cell) == IF cell \in Refined THEN 17 + VolumeBytes(cell) ELSE 15
EncodedBytes == 41 + Total([p \in CellsOf(world) |-> RecordBytes(CellAt(heap, world, p))])

Records ==
  LET order == CHOOSE q \in Orders : Range(q) = CellsOf(world)
  IN [i \in DOMAIN order |-> <<order[i], CellAt(heap, world, order[i])>>]

EncodeCheckpoint ==
  /\ refined /\ Allowed(Stats) /\ EncodedBytes <= MaxCheckpointBytes
  /\ checkpoint' = [next |-> next, hash |-> world.hash, records |-> Records,
                     cells |-> cells]
  /\ UNCHANGED <<heap, world, refined, next, snapshot, observed, prepared, cells>>

Decoded(records) ==
  AllWritten([mem |-> heap, store |-> [EmptyStore EXCEPT !.epoch = NewEpoch(world, Readers)]],
             WithSelf, records)

(* decode_checkpoint: the state takes the place of the present one. *)
Restore ==
  /\ refined /\ Some(checkpoint)
  /\ Allowed(StatsOf(Decoded(checkpoint.records).mem, Decoded(checkpoint.records).store))
  /\ Decoded(checkpoint.records).store.hash = checkpoint.hash
  /\ Commits(Housed(Decoded(checkpoint.records)))
  /\ Touches(Positions)
  /\ next' = checkpoint.next
  /\ cells' = checkpoint.cells
  /\ UNCHANGED <<refined, snapshot, prepared, checkpoint>>

GeometryNext ==
  \/ SetVoxel \/ ApplyChecked \/ ObserveChunk \/ TakeSnapshot \/ LetGo
  \/ Promote \/ Demote \/ Prepare \/ Apply \/ EncodeCheckpoint \/ Restore

GeometrySpec == GeometryInit /\ [][GeometryNext]_GeometryVars

-----------------------------------------------------------------------------
(* Nobody who reads a world sees it change: a snapshot holds the cells it  *)
(* was taken with, and an observation matches only while its chunk has     *)
(* never been written, not even by a change that was taken back or a       *)
(* chunk that came and went (world.rs: set_voxel, apply_checked,           *)
(* ChunkObservation::matches).                                             *)
ReadersKeepWhatTheyTook ==
  /\ Some(snapshot) => \A p \in Positions : CellAt(heap, snapshot.store, p) = snapshot.cells[p]
  /\ Some(observed) /\ Matches => ~observed.touched

(* The leaves in the cells of a chunk. *)
LeavesOf(row) == Total([l \in DOMAIN row |-> LeavesIn(row[l])])

(* The world holds what was last written, put by a transaction in the      *)
(* state it was prepared for, or read back from a checkpoint, and nothing  *)
(* of a change that was taken back; the counters and the fingerprint,      *)
(* which are only ever adjusted, are those of its cells; and no chunk      *)
(* stays without a cell in it (world.rs: set_voxel; geometry.rs: set_cell, *)
(* apply_changes).                                                         *)
StorageIsExact ==
  /\ \A p \in Positions : CellAt(heap, world, p) = cells[p]
  /\ \A c \in DOMAIN world.chunks :
       LET chunk == heap[world.chunks[c]]
       IN /\ chunk.solid = Cardinality({l \in DOMAIN chunk.cell : chunk.cell[l] # Void})
          /\ chunk.solid > 0
          /\ chunk.leaves = LeavesOf(chunk.cell)
  /\ world.solid = Cardinality({p \in Positions : cells[p] # Void})
  /\ world.hash = UNION {Token(p, cells[p]) : p \in Positions}

(* A state that was accepted can always be saved, and what is saved is     *)
(* accepted when it is read back, and is that state (geometry.rs:          *)
(* GeometryStats::validate; wire.rs: encode_checkpoint,                    *)
(* decode_checkpoint).                                                     *)
EveryStateRestores ==
  refined =>
    /\ Allowed(Stats) /\ EncodedBytes <= MaxCheckpointBytes
    /\ LET back == Decoded(Records)
       IN /\ Allowed(StatsOf(back.mem, back.store))
          /\ \A p \in Positions : CellAt(back.mem, back.store, p) = cells[p]
          /\ back.store.solid = world.solid /\ back.store.hash = world.hash
=============================================================================
