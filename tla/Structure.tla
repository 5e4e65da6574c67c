----------------------------- MODULE Structure -----------------------------
(***************************************************************************)
(* Voxels, anchors and what stands on them: connectivity and the bounded   *)
(* mechanical domains of src/structural.rs, src/structural_jobs.rs and     *)
(* src/structural_failure.rs as operators on a world, the set of its solid *)
(* voxels.                                                                 *)
(*                                                                         *)
(* Materials, integrity, forces and strengths are not modelled: whether a  *)
(* hit breaks a voxel or only damages it, which voxel of a loaded domain   *)
(* is overloaded, and whether the solve fails, are left open.              *)
(***************************************************************************)
EXTENDS Naturals, FiniteSets

CONSTANTS
  Voxels,      \* positions, numbered in the order of IVec3
  Neighbors,   \* Neighbors[v]: the positions that share a face with v
  Anchors,     \* the positions StructuralAnchors contains
  ChunkOf      \* ChunkOf[v]: the chunk v lies in

ASSUME StructureAssumption ==
  /\ Voxels \subseteq Nat
  /\ IsFiniteSet(Voxels)
  /\ Neighbors \in [Voxels -> SUBSET Voxels]
  /\ \A v, w \in Voxels : w \in Neighbors[v] <=> v \in Neighbors[w]
  /\ Anchors \subseteq Voxels
  /\ DOMAIN ChunkOf = Voxels

AdjacentTo(S) == UNION {Neighbors[v] : v \in S}

ChunksOf(S) == {ChunkOf[v] : v \in S}

(* StructuralRuntime::eligible: solid and not itself held in place.        *)
Eligible(w) == w \ Anchors

(* What a breadth-first search from v visits in S when only the voxels in  *)
(* through are expanded.                                                   *)
Reached(S, v, through) ==
  LET Step(visited) == visited \cup (S \cap AdjacentTo(visited \cap through))
      Visited[n \in 0..Cardinality(S)] ==
        IF n = 0 THEN {v} ELSE Step(Visited[n - 1])
  IN Visited[Cardinality(S)]

(* extract_domain: every free voxel joined to the seed, and the anchors    *)
(* they touch, which clamp the domain and end the branch.                  *)
LoadDomain(w, seed) == Reached(w, seed, Voxels \ Anchors)

FreePart(w, seed) == LoadDomain(w, seed) \ Anchors

(* Every position read_voxel looks at while the domain is extracted.       *)
ReadFor(w, seed) == FreePart(w, seed) \cup AdjacentTo(FreePart(w, seed))

(* The connected pieces of S around the voxels of seeds, none of which     *)
(* holds an anchor.                                                        *)
UnsupportedPieces(S, seeds) ==
  {p \in {Reached(S, v, S) : v \in S \cap seeds} : p \cap Anchors = {}}

(* analyze_structural_changes: the islands around what a change broke.     *)
Islands(w, broken) == UnsupportedPieces(w, AdjacentTo(broken))

(* prepare_failure: the severed voxel is a body of its own; what it held   *)
(* up falls as the other bodies.                                           *)
Debris(domain, candidate) ==
  {{candidate}} \cup UnsupportedPieces(domain \ {candidate}, domain)
=============================================================================
