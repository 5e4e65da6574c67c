-------------------------- MODULE StructureProofs --------------------------
(***************************************************************************)
(* Connectivity, proved: a bounded search reaches everything its start is  *)
(* joined to; what a voxel is joined to depends on the voxels of its own   *)
(* domain and those beside it alone; and what stands goes on standing when *)
(* something is built against it, or breaks and takes along what lost its  *)
(* support.                                                                *)
(***************************************************************************)
EXTENDS Structure, QueueProofs, FiniteSetTheorems

-----------------------------------------------------------------------------
(* A search that is given as many rounds as there are voxels.              *)

(* Nothing the search could still visit is missing from X.                 *)
Closed(S, through, X) == S \cap AdjacentTo(X \cap through) \subseteq X

StepOf(S, through, X) == X \cup (S \cap AdjacentTo(X \cap through))

(* The first m rounds.                                                     *)
Searches(f, m, S, v, through) ==
  /\ DOMAIN f = 0..m
  /\ f[0] = {v}
  /\ \A n \in 1..m : f[n] = StepOf(S, through, f[n - 1])

LEMMA SearchExists ==
  ASSUME NEW S, IsFiniteSet(S), NEW v, NEW through, NEW m \in 0..Cardinality(S)
  PROVE  \E f : Searches(f, m, S, v, through)
  <1> DEFINE Good(k) == \E f : Searches(f, k, S, v, through)
             Bad == {k \in 0..Cardinality(S) : ~Good(k)}
  <1>1. Cardinality(S) \in Nat
    BY FS_CardinalityType
  <1>2. SUFFICES ASSUME m \in Bad PROVE FALSE
    OBVIOUS
  <1>3. Bad \subseteq Nat
    BY <1>1
  <1> HIDE DEF Bad
  <1>4. PICK k \in Bad : \A j \in Bad : k <= j
    BY <1>2, <1>3, LeastOfNaturals
  <1>5. k \in 0..Cardinality(S) /\ ~Good(k)
    BY <1>4 DEF Bad
  <1>6. CASE k = 0
    <2> DEFINE f == [n \in 0..0 |-> {v}]
    <2>1. DOMAIN f = 0..k /\ 1..k = {} /\ f[0] = {v}
      BY <1>6
    <2> HIDE DEF f
    <2>2. Good(k)
      BY <2>1 DEF Searches
    <2> QED
      BY <1>5, <2>2
  <1>7. CASE k # 0
    <2>1. k - 1 \in 0..Cardinality(S) /\ ~(k <= k - 1)
      BY <1>1, <1>5, <1>7
    <2>2. Good(k - 1)
      BY <1>4, <2>1 DEF Bad
    <2>3. PICK f : /\ DOMAIN f = 0..k - 1
                   /\ f[0] = {v}
                   /\ \A n \in 1..k - 1 : f[n] = StepOf(S, through, f[n - 1])
      BY <2>2 DEF Searches
    <2> DEFINE g == [n \in 0..k |-> IF n = k THEN StepOf(S, through, f[k - 1])
                                    ELSE f[n]]
    <2>4. DOMAIN g = 0..k
      OBVIOUS
    <2>5. g[0] = {v}
      BY <1>1, <1>5, <1>7, <2>3
    <2>6. \A n \in 1..k - 1 : g[n] = f[n] /\ g[n - 1] = f[n - 1]
      BY <1>1, <1>5, <1>7
    <2>7. g[k] = StepOf(S, through, f[k - 1]) /\ g[k - 1] = f[k - 1]
      BY <1>1, <1>5, <1>7
    <2>8. \A n \in 1..k : n = k \/ n \in 1..k - 1
      BY <1>1, <1>5
    <2> HIDE DEF g
    <2>9. \A n \in 1..k : g[n] = StepOf(S, through, g[n - 1])
      BY <2>3, <2>6, <2>7, <2>8
    <2>10. Good(k)
      BY <2>4, <2>5, <2>9 DEF Searches
    <2> QED
      BY <1>5, <2>10
  <1> QED
    BY <1>6, <1>7

LEMMA ReachedIsSearched ==
  ASSUME NEW S, IsFiniteSet(S), NEW v, NEW through
  PROVE  \E f : Searches(f, Cardinality(S), S, v, through) /\ Reached(S, v, through) = f[Cardinality(S)]
  <1> DEFINE Rec(f) == [n \in 0..Cardinality(S) |->
                          IF n = 0 THEN {v}
                          ELSE f[n - 1] \cup (S \cap AdjacentTo(f[n - 1] \cap through))]
             visited == CHOOSE f : f = Rec(f)
  <1>1. Cardinality(S) \in Nat /\ Cardinality(S) \in 0..Cardinality(S)
    BY FS_CardinalityType
  <1>2. PICK f : Searches(f, Cardinality(S), S, v, through)
    BY <1>1, SearchExists
  <1>3. \A n \in 0..Cardinality(S) : n = 0 \/ n \in 1..Cardinality(S)
    BY <1>1
  <1> DEFINE g == Rec(f)
  <1>4. g = Rec(g)
    <2>1. \A n \in 0..Cardinality(S) : g[n] = f[n]
      BY <1>2, <1>3 DEF Searches, StepOf
    <2>2. \A n \in 1..Cardinality(S) : n - 1 \in 0..Cardinality(S)
      BY <1>1
    <2>3. \A n \in 1..Cardinality(S) : g[n - 1] = f[n - 1]
      BY <2>1, <2>2
    <2> HIDE DEF g
    <2>4. Rec(g) = Rec(f)
      BY <2>3, <1>3
    <2> QED
      BY <2>4 DEF g
  <1>5. visited = Rec(visited)
    BY <1>4
  <1>6. Reached(S, v, through) = visited[Cardinality(S)]
    BY DEF Reached
  <1> HIDE DEF visited
  <1>7. DOMAIN visited = 0..Cardinality(S) /\ visited[0] = {v}
    BY <1>1, <1>5
  <1>8. \A n \in 1..Cardinality(S) : visited[n] = StepOf(S, through, visited[n - 1])
    <2> SUFFICES ASSUME NEW n \in 1..Cardinality(S)
                 PROVE  visited[n] = StepOf(S, through, visited[n - 1])
      OBVIOUS
    <2>1. n \in 0..Cardinality(S) /\ n # 0
      BY <1>1
    <2>2. visited[n] = Rec(visited)[n]
      BY <1>5
    <2> QED
      BY <2>1, <2>2 DEF StepOf
  <1>9. Searches(visited, Cardinality(S), S, v, through)
    BY <1>7, <1>8 DEF Searches
  <1> QED
    BY <1>6, <1>9

(* A search visits its start, and nothing outside S but its start.         *)
LEMMA SearchStays ==
  ASSUME NEW S, IsFiniteSet(S), NEW v, NEW through, NEW f,
         Searches(f, Cardinality(S), S, v, through), NEW m \in 0..Cardinality(S)
  PROVE  v \in f[m] /\ f[m] \subseteq S \cup {v}
  <1> DEFINE Bad == {k \in 0..Cardinality(S) : ~(v \in f[k] /\ f[k] \subseteq S \cup {v})}
  <1>1. Cardinality(S) \in Nat
    BY FS_CardinalityType
  <1>2. SUFFICES ASSUME m \in Bad PROVE FALSE
    OBVIOUS
  <1>3. Bad \subseteq Nat
    BY <1>1
  <1> HIDE DEF Bad
  <1>4. PICK k \in Bad : \A j \in Bad : k <= j
    BY <1>2, <1>3, LeastOfNaturals
  <1>5. k \in 0..Cardinality(S) /\ ~(v \in f[k] /\ f[k] \subseteq S \cup {v})
    BY <1>4 DEF Bad
  <1>6. k # 0
    BY <1>5 DEF Searches
  <1>7. k - 1 \in 0..Cardinality(S) /\ ~(k <= k - 1) /\ k \in 1..Cardinality(S)
    BY <1>1, <1>5, <1>6
  <1>8. v \in f[k - 1] /\ f[k - 1] \subseteq S \cup {v}
    BY <1>4, <1>7 DEF Bad
  <1>9. f[k] = StepOf(S, through, f[k - 1])
    BY <1>7 DEF Searches
  <1> QED
    BY <1>5, <1>8, <1>9 DEF StepOf

(* Each round adds a voxel, or the search has come to its end.             *)
LEMMA SearchGrows ==
  ASSUME NEW S, IsFiniteSet(S), NEW v, NEW through, NEW f,
         Searches(f, Cardinality(S), S, v, through), NEW m \in 0..Cardinality(S)
  PROVE  Closed(S, through, f[m]) \/ Cardinality(f[m]) > m
  <1> DEFINE Bad == {k \in 0..Cardinality(S) :
                       ~(Closed(S, through, f[k]) \/ Cardinality(f[k]) > k)}
  <1>1. Cardinality(S) \in Nat
    BY FS_CardinalityType
  <1>2. SUFFICES ASSUME m \in Bad PROVE FALSE
    OBVIOUS
  <1>3. Bad \subseteq Nat
    BY <1>1
  <1> HIDE DEF Bad
  <1>4. PICK k \in Bad : \A j \in Bad : k <= j
    BY <1>2, <1>3, LeastOfNaturals
  <1>5. k \in 0..Cardinality(S) /\ ~Closed(S, through, f[k]) /\ ~(Cardinality(f[k]) > k)
    BY <1>4 DEF Bad
  <1>6. CASE k = 0
    <2>1. Cardinality(f[0]) = 1
      BY FS_Singleton DEF Searches
    <2> QED
      BY <1>5, <1>6, <2>1
  <1>7. CASE k # 0
    <2>1. k - 1 \in 0..Cardinality(S) /\ ~(k <= k - 1) /\ k \in 1..Cardinality(S)
      BY <1>1, <1>5, <1>7
    <2>2. Closed(S, through, f[k - 1]) \/ Cardinality(f[k - 1]) > k - 1
      BY <1>4, <2>1 DEF Bad
    <2>3. f[k] = StepOf(S, through, f[k - 1])
      BY <2>1 DEF Searches
    <2>4. ~Closed(S, through, f[k - 1])
      <3>1. SUFFICES ASSUME Closed(S, through, f[k - 1]) PROVE FALSE
        OBVIOUS
      <3>2. f[k] = f[k - 1]
        BY <2>3, <3>1 DEF StepOf, Closed
      <3> QED
        BY <1>5, <3>1, <3>2
    <2>5. PICK y : y \in f[k] /\ y \notin f[k - 1]
      BY <2>3, <2>4 DEF StepOf, Closed
    <2>6. f[k - 1] \cup {y} \subseteq f[k]
      BY <2>3, <2>5 DEF StepOf
    <2>7. IsFiniteSet(S \cup {v}) /\ f[k] \subseteq S \cup {v} /\ f[k - 1] \subseteq S \cup {v}
      BY <1>5, <2>1, SearchStays, FS_AddElement
    <2>8. IsFiniteSet(f[k]) /\ IsFiniteSet(f[k - 1])
      BY <2>7, FS_Subset
    <2>9. Cardinality(f[k - 1] \cup {y}) = Cardinality(f[k - 1]) + 1
      BY <2>5, <2>8, FS_AddElement
    <2>10. Cardinality(f[k - 1] \cup {y}) <= Cardinality(f[k])
      BY <2>6, <2>8, FS_Subset
    <2>11. Cardinality(f[k - 1]) \in Nat /\ Cardinality(f[k]) \in Nat /\ k \in Nat
      BY <1>1, <1>5, <2>8, FS_CardinalityType
    <2>12. Cardinality(f[k - 1]) > k - 1
      BY <2>2, <2>4
    <2>13. Cardinality(f[k - 1]) + 1 <= Cardinality(f[k])
      BY <2>9, <2>10
    <2>14. Cardinality(f[k]) > k
      BY <2>11, <2>12, <2>13
    <2> QED
      BY <1>5, <2>14
  <1> QED
    BY <1>6, <1>7

(* The search leaves out nothing it could visit.                           *)
LEMMA ReachedIsClosed ==
  ASSUME NEW S, IsFiniteSet(S), NEW v, NEW through
  PROVE  /\ v \in Reached(S, v, through)
         /\ Reached(S, v, through) \subseteq S \cup {v}
         /\ Closed(S, through, Reached(S, v, through))
  <1> DEFINE n == Cardinality(S)
  <1>1. n \in Nat /\ n \in 0..n
    BY FS_CardinalityType
  <1>2. PICK f : Searches(f, n, S, v, through) /\ Reached(S, v, through) = f[n]
    BY ReachedIsSearched
  <1>3. v \in f[n] /\ f[n] \subseteq S \cup {v}
    BY <1>1, <1>2, SearchStays
  <1>4. Closed(S, through, f[n]) \/ Cardinality(f[n]) > n
    BY <1>1, <1>2, SearchGrows
  <1>5. ASSUME Cardinality(f[n]) > n PROVE Closed(S, through, f[n])
    <2>1. IsFiniteSet(S \cup {v}) /\ Cardinality(S \cup {v}) <= n + 1
      BY <1>1, FS_AddElement
    <2>2. IsFiniteSet(f[n]) /\ Cardinality(f[n]) <= Cardinality(S \cup {v})
      BY <1>3, <2>1, FS_Subset
    <2>3. Cardinality(f[n]) \in Nat /\ Cardinality(S \cup {v}) \in Nat
      BY <2>1, <2>2, FS_CardinalityType
    <2>4. Cardinality(f[n]) = Cardinality(S \cup {v})
      BY <1>1, <1>5, <2>1, <2>2, <2>3
    <2>5. f[n] = S \cup {v}
      BY <1>3, <2>1, <2>4, FS_Subset
    <2> QED
      BY <2>5 DEF Closed
  <1> QED
    BY <1>2, <1>3, <1>4, <1>5

(* Nor does it visit more than it has to.                                  *)
LEMMA ReachedIsLeast ==
  ASSUME NEW S, IsFiniteSet(S), NEW v, NEW through,
         NEW X, v \in X, Closed(S, through, X)
  PROVE  Reached(S, v, through) \subseteq X
  <1> DEFINE n == Cardinality(S)
  <1>1. n \in Nat /\ n \in 0..n
    BY FS_CardinalityType
  <1>2. PICK f : Searches(f, n, S, v, through) /\ Reached(S, v, through) = f[n]
    BY ReachedIsSearched
  <1> HIDE DEF n
  <1> DEFINE Bad == {k \in 0..n : ~(f[k] \subseteq X)}
  <1>3. SUFFICES ASSUME n \in Bad PROVE FALSE
    BY <1>1, <1>2
  <1>4. Bad \subseteq Nat
    BY <1>1
  <1> HIDE DEF Bad
  <1>5. PICK k \in Bad : \A j \in Bad : k <= j
    BY <1>3, <1>4, LeastOfNaturals
  <1>6. k \in 0..n /\ ~(f[k] \subseteq X)
    BY <1>5 DEF Bad
  <1>7. k # 0
    BY <1>2, <1>6 DEF Searches
  <1>8. k - 1 \in 0..n /\ ~(k <= k - 1) /\ k \in 1..n
    BY <1>1, <1>6, <1>7
  <1>9. f[k - 1] \subseteq X
    BY <1>5, <1>8 DEF Bad
  <1>10. f[k] = StepOf(S, through, f[k - 1])
    BY <1>2, <1>8 DEF Searches
  <1>11. AdjacentTo(f[k - 1] \cap through) \subseteq AdjacentTo(X \cap through)
    BY <1>9 DEF AdjacentTo
  <1> QED
    BY <1>6, <1>9, <1>10, <1>11 DEF StepOf, Closed

(* What two voxels that are joined are joined to is the same.              *)
LEMMA SearchFromWithin ==
  ASSUME NEW S, S \subseteq Voxels, NEW through, NEW v \in S \cap through,
         NEW u \in Reached(S, v, through) \cap through
  PROVE  Reached(S, u, through) = Reached(S, v, through)
  <1> DEFINE Around1(x) == Reached(S, x, through)
  <1>1. IsFiniteSet(S)
    BY StructureAssumption, FS_Subset
  <1>2. \A x \in S : x \in Around1(x) /\ Around1(x) \subseteq S /\ Closed(S, through, Around1(x))
    BY <1>1, ReachedIsClosed
  <1>3. \A x \in S, y \in S : y \in Around1(x) => Around1(y) \subseteq Around1(x)
    BY <1>1, <1>2, ReachedIsLeast
  <1> HIDE DEF Around1
  <1>4. \A x \in S \cap through, y \in S \cap through :
          y \in Neighbors[x] => x \in Around1(y)
    BY <1>2, StructureAssumption DEF Closed, AdjacentTo
  <1> DEFINE X == {x \in S : x \in through => v \in Around1(x)}
  <1>5. Closed(S, through, X)
    <2> SUFFICES ASSUME NEW x \in S \cap through, v \in Around1(x),
                        NEW y \in S \cap through, y \in Neighbors[x]
                 PROVE  v \in Around1(y)
      BY DEF Closed, AdjacentTo
    <2>1. x \in Around1(y)
      BY <1>4
    <2> QED
      BY <1>3, <2>1
  <1>6. v \in X
    BY <1>2
  <1>7. u \in X
    BY <1>1, <1>5, <1>6, ReachedIsLeast
  <1>8. u \in Around1(v)
    BY DEF Around1
  <1>9. Around1(u) = Around1(v)
    BY <1>3, <1>7, <1>8
  <1> QED
    BY <1>9 DEF Around1

(* Worlds that agree beside what the search went through give one answer.  *)
LEMMA SearchIsLocal ==
  ASSUME NEW S, S \subseteq Voxels, NEW S2, S2 \subseteq Voxels, NEW v, NEW through,
         \A x \in AdjacentTo(Reached(S, v, through) \cap through) : x \in S <=> x \in S2
  PROVE  Reached(S2, v, through) = Reached(S, v, through)
  <1> DEFINE D == Reached(S, v, through)
             D2 == Reached(S2, v, through)
  <1>1. IsFiniteSet(S) /\ IsFiniteSet(S2)
    BY StructureAssumption, FS_Subset
  <1>2. v \in D /\ Closed(S, through, D)
    BY <1>1, ReachedIsClosed
  <1>3. v \in D2 /\ Closed(S2, through, D2)
    BY <1>1, ReachedIsClosed
  <1>4. Closed(S2, through, D)
    BY <1>2 DEF Closed
  <1>5. D2 \subseteq D
    BY <1>1, <1>2, <1>4, ReachedIsLeast
  <1> HIDE DEF D2
  <1>6. AdjacentTo(D2 \cap through) \subseteq AdjacentTo(D \cap through)
    BY <1>5 DEF AdjacentTo
  <1>7. Closed(S, through, D2)
    BY <1>3, <1>6 DEF Closed
  <1>8. D \subseteq D2
    BY <1>1, <1>3, <1>7, ReachedIsLeast
  <1> QED
    BY <1>5, <1>8 DEF D2

-----------------------------------------------------------------------------
(* Load domains.                                                           *)

LEMMA DomainOfVoxel ==
  ASSUME NEW w, w \subseteq Voxels, NEW v \in Eligible(w)
  PROVE  /\ v \in FreePart(w, v)
         /\ FreePart(w, v) \subseteq Eligible(w)
         /\ LoadDomain(w, v) \subseteq w
         /\ FreePart(w, v) = LoadDomain(w, v) \cap (Voxels \ Anchors)
         /\ w \cap AdjacentTo(FreePart(w, v)) \subseteq LoadDomain(w, v)
  <1>1. IsFiniteSet(w)
    BY StructureAssumption, FS_Subset
  <1>2. /\ v \in LoadDomain(w, v)
        /\ LoadDomain(w, v) \subseteq w \cup {v}
        /\ Closed(w, Voxels \ Anchors, LoadDomain(w, v))
    BY <1>1, ReachedIsClosed DEF LoadDomain
  <1>3. LoadDomain(w, v) \subseteq w /\ v \in w /\ v \notin Anchors
    BY <1>2 DEF Eligible
  <1>4. FreePart(w, v) = LoadDomain(w, v) \cap (Voxels \ Anchors)
    BY <1>3 DEF FreePart
  <1> QED
    BY <1>2, <1>3, <1>4 DEF FreePart, Eligible, Closed

LEMMA DomainFromWithin ==
  ASSUME NEW w, w \subseteq Voxels, NEW v \in Eligible(w), NEW u \in FreePart(w, v)
  PROVE  u \in Eligible(w) /\ FreePart(w, u) = FreePart(w, v)
  <1>1. v \in w \cap (Voxels \ Anchors) /\ u \in LoadDomain(w, v) \cap (Voxels \ Anchors)
    BY DomainOfVoxel DEF Eligible
  <1>2. LoadDomain(w, u) = LoadDomain(w, v)
    BY <1>1, SearchFromWithin DEF LoadDomain
  <1>3. u \in Eligible(w)
    BY DomainOfVoxel
  <1> QED
    BY <1>2, <1>3 DEF FreePart

(* A domain is what it was unless something beside it changed.             *)
LEMMA DomainIsLocal ==
  ASSUME NEW w, w \subseteq Voxels, NEW w2, w2 \subseteq Voxels, NEW v \in Eligible(w),
         \A x \in AdjacentTo(FreePart(w, v)) : x \in w <=> x \in w2
  PROVE  LoadDomain(w2, v) = LoadDomain(w, v)
  <1>1. FreePart(w, v) = LoadDomain(w, v) \cap (Voxels \ Anchors)
    BY DomainOfVoxel
  <1>2. \A x \in AdjacentTo(LoadDomain(w, v) \cap (Voxels \ Anchors)) : x \in w <=> x \in w2
    BY <1>1
  <1> QED
    BY <1>2, SearchIsLocal DEF LoadDomain

(* The worlds w and w2 differ in voxels of changed alone.                  *)
AgreeOff(w, w2, changed) == \A x \in Voxels \ changed : x \in w <=> x \in w2

LEMMA DomainOffChanges ==
  ASSUME NEW w, w \subseteq Voxels, NEW w2, w2 \subseteq Voxels,
         NEW changed, changed \subseteq Voxels, AgreeOff(w, w2, changed),
         NEW v \in Eligible(w2),
         FreePart(w2, v) \cap (changed \cup AdjacentTo(changed)) = {}
  PROVE  v \in Eligible(w) /\ LoadDomain(w, v) = LoadDomain(w2, v)
  <1>1. v \in FreePart(w2, v) /\ FreePart(w2, v) \subseteq Voxels
    BY DomainOfVoxel DEF Eligible
  <1>2. AdjacentTo(FreePart(w2, v)) \subseteq Voxels
    <2>1. \A x \in FreePart(w2, v) : Neighbors[x] \subseteq Voxels
      BY <1>1, StructureAssumption
    <2> QED
      BY <2>1 DEF AdjacentTo
  <1>3. AdjacentTo(FreePart(w2, v)) \cap changed = {}
    <2> SUFFICES ASSUME NEW x \in FreePart(w2, v), NEW y \in Neighbors[x], y \in changed
                 PROVE  FALSE
      BY DEF AdjacentTo
    <2>1. x \in Neighbors[y]
      BY <1>1, StructureAssumption
    <2>2. x \in AdjacentTo(changed)
      BY <2>1 DEF AdjacentTo
    <2> QED
      BY <2>2
  <1>4. \A x \in AdjacentTo(FreePart(w2, v)) : x \in w2 <=> x \in w
    BY <1>2, <1>3 DEF AgreeOff
  <1>5. LoadDomain(w, v) = LoadDomain(w2, v)
    BY <1>4, DomainIsLocal
  <1>6. v \in Eligible(w)
    BY <1>1 DEF AgreeOff, Eligible
  <1> QED
    BY <1>5, <1>6

-----------------------------------------------------------------------------
(* Support: what is connected to an anchor is held.                        *)

Piece(S, v) == Reached(S, v, S)

Held(w) == \A v \in w : Piece(w, v) \cap Anchors # {}

LEMMA PieceOfVoxel ==
  ASSUME NEW S, S \subseteq Voxels, NEW v \in S
  PROVE  /\ v \in Piece(S, v)
         /\ Piece(S, v) \subseteq S
         /\ S \cap AdjacentTo(Piece(S, v)) \subseteq Piece(S, v)
  <1>1. IsFiniteSet(S)
    BY StructureAssumption, FS_Subset
  <1>2. /\ v \in Piece(S, v)
        /\ Piece(S, v) \subseteq S \cup {v}
        /\ Closed(S, S, Piece(S, v))
    BY <1>1, ReachedIsClosed DEF Piece
  <1>3. Piece(S, v) \subseteq S /\ Piece(S, v) \cap S = Piece(S, v)
    BY <1>2
  <1> QED
    BY <1>2, <1>3 DEF Closed

LEMMA PieceIsLeast ==
  ASSUME NEW S, S \subseteq Voxels, NEW v, NEW X, v \in X, X \subseteq S,
         S \cap AdjacentTo(X) \subseteq X
  PROVE  Piece(S, v) \subseteq X
  <1>1. IsFiniteSet(S)
    BY StructureAssumption, FS_Subset
  <1>2. X \cap S = X
    OBVIOUS
  <1>3. Closed(S, S, X)
    BY <1>2 DEF Closed
  <1> QED
    BY <1>1, <1>3, ReachedIsLeast DEF Piece

LEMMA PieceFromWithin ==
  ASSUME NEW S, S \subseteq Voxels, NEW v \in S, NEW u \in Piece(S, v)
  PROVE  u \in S /\ Piece(S, u) = Piece(S, v)
  <1>1. u \in S
    BY PieceOfVoxel
  <1>2. v \in S \cap S /\ u \in Reached(S, v, S) \cap S
    BY <1>1 DEF Piece
  <1>3. Reached(S, u, S) = Reached(S, v, S)
    BY <1>2, SearchFromWithin
  <1> QED
    BY <1>1, <1>3 DEF Piece

LEMMA AdjacencyIsMutual ==
  ASSUME NEW X, X \subseteq Voxels, NEW Y, Y \subseteq Voxels
  PROVE  /\ AdjacentTo(X) \subseteq Voxels
         /\ (X \cap AdjacentTo(Y) = {}) <=> (Y \cap AdjacentTo(X) = {})
  <1>1. \A x \in X, y \in Y : x \in Neighbors[y] <=> y \in Neighbors[x]
    BY StructureAssumption
  <1>2. AdjacentTo(X) \subseteq Voxels
    BY StructureAssumption DEF AdjacentTo
  <1>3. (X \cap AdjacentTo(Y) = {}) <=> \A x \in X, y \in Y : x \notin Neighbors[y]
    BY DEF AdjacentTo
  <1>4. (Y \cap AdjacentTo(X) = {}) <=> \A x \in X, y \in Y : y \notin Neighbors[x]
    BY DEF AdjacentTo
  <1> QED
    BY <1>1, <1>2, <1>3, <1>4

LEMMA HeldPieces ==
  ASSUME NEW w
  PROVE  Held(w) <=> UnsupportedPieces(w, w) = {}
  BY DEF Held, UnsupportedPieces, Piece

(* A voxel built against the world is held by what it is built against.    *)
LEMMA BuiltIsHeld ==
  ASSUME NEW w, w \subseteq Voxels, Held(w),
         NEW v \in Voxels, Neighbors[v] \cap w # {}
  PROVE  Held(w \cup {v})
  <1> DEFINE w2 == w \cup {v}
  <1>1. w2 \subseteq Voxels /\ w \subseteq w2 /\ v \in w2
    OBVIOUS
  <1>2. ASSUME NEW u \in w PROVE Piece(w2, u) \cap Anchors # {}
    <2> DEFINE X == Piece(w2, u) \cap w
    <2>1. u \in Piece(w2, u) /\ w2 \cap AdjacentTo(Piece(w2, u)) \subseteq Piece(w2, u)
      BY <1>1, PieceOfVoxel
    <2>2. AdjacentTo(X) \subseteq AdjacentTo(Piece(w2, u))
      BY DEF AdjacentTo
    <2>3. u \in X /\ X \subseteq w /\ w \cap AdjacentTo(X) \subseteq X
      BY <1>1, <2>1, <2>2
    <2>4. Piece(w, u) \subseteq X
      BY <2>3, PieceIsLeast
    <2> QED
      BY <2>4 DEF Held
  <1>3. Piece(w2, v) \cap Anchors # {}
    <2>1. PICK u \in w : u \in Neighbors[v]
      OBVIOUS
    <2>2. v \in Piece(w2, v) /\ w2 \cap AdjacentTo(Piece(w2, v)) \subseteq Piece(w2, v)
      BY <1>1, PieceOfVoxel
    <2>3. u \in Piece(w2, v)
      BY <1>1, <2>1, <2>2 DEF AdjacentTo
    <2>4. Piece(w2, u) = Piece(w2, v)
      BY <1>1, <2>3, PieceFromWithin
    <2> QED
      BY <1>2, <2>1, <2>4
  <1> QED
    BY <1>2, <1>3 DEF Held

(* A piece of S that keeps clear of fallen is a piece of what is left of   *)
(* S.                                                                      *)
LEMMA PieceSurvives ==
  ASSUME NEW S, S \subseteq Voxels, NEW fallen, NEW v \in S,
         Piece(S, v) \cap fallen = {}
  PROVE  v \in S \ fallen /\ Piece(S, v) \subseteq Piece(S \ fallen, v)
  <1> DEFINE P == Piece(S, v)
             Q == Piece(S \ fallen, v)
  <1>1. v \in P /\ P \subseteq S /\ S \cap AdjacentTo(P) \subseteq P
    BY PieceOfVoxel
  <1>2. v \in S \ fallen /\ S \ fallen \subseteq Voxels
    BY <1>1
  <1>3. v \in Q /\ Q \subseteq S \ fallen /\ (S \ fallen) \cap AdjacentTo(Q) \subseteq Q
    BY <1>2, PieceOfVoxel
  <1> HIDE DEF Q
  <1> DEFINE X == P \cap Q
  <1>4. AdjacentTo(X) \subseteq AdjacentTo(P) /\ AdjacentTo(X) \subseteq AdjacentTo(Q)
    BY DEF AdjacentTo
  <1>5. S \cap AdjacentTo(X) \subseteq X
    BY <1>1, <1>3, <1>4
  <1>6. v \in X /\ X \subseteq S
    BY <1>1, <1>3
  <1>7. P \subseteq X
    BY <1>5, <1>6, PieceIsLeast
  <1> QED
    BY <1>2, <1>7 DEF Q

(* A blast takes along every piece it cuts off from the anchors.           *)
LEMMA BlastLeavesHeld ==
  ASSUME NEW w, w \subseteq Voxels, Held(w), NEW broken, broken \subseteq w
  PROVE  Held(w \ (broken \cup UNION Islands(w \ broken, broken)))
  <1> DEFINE left == w \ broken
             fallen == UNION Islands(left, broken)
             after == left \ fallen
  <1>1. left \subseteq Voxels /\ w \ (broken \cup fallen) = after
    OBVIOUS
  <1>2. SUFFICES ASSUME NEW v \in after PROVE Piece(after, v) \cap Anchors # {}
    BY <1>1 DEF Held
  <1> HIDE DEF fallen
  <1>3. v \in left
    OBVIOUS
  <1> DEFINE P == Piece(left, v)
  <1>4. v \in P /\ P \subseteq left /\ left \cap AdjacentTo(P) \subseteq P
    BY <1>1, <1>3, PieceOfVoxel
  <1>5. \A u \in P : Piece(left, u) = P
    BY <1>1, <1>3, PieceFromWithin
  <1>6. P \cap fallen = {}
    <2>1. SUFFICES ASSUME NEW u \in P, u \in fallen PROVE FALSE
      OBVIOUS
    <2>2. PICK x \in left : u \in Piece(left, x) /\ Piece(left, x) \subseteq fallen
      BY <2>1 DEF fallen, Islands, UnsupportedPieces, Piece
    <2>3. Piece(left, u) = Piece(left, x)
      BY <1>1, <2>2, PieceFromWithin
    <2> QED
      BY <1>2, <1>4, <1>5, <2>2, <2>3
  <1>7. P \subseteq Piece(after, v)
    BY <1>1, <1>3, <1>6, PieceSurvives
  <1>8. P \cap Anchors # {}
    <2>1. SUFFICES ASSUME P \cap Anchors = {} PROVE FALSE
      OBVIOUS
    <2>2. P \cap AdjacentTo(broken) = {}
      <3>1. SUFFICES ASSUME NEW x \in P, x \in AdjacentTo(broken) PROVE FALSE
        OBVIOUS
      <3>2. x \in left \cap AdjacentTo(broken) /\ Reached(left, x, left) = P
        BY <1>4, <1>5, <3>1 DEF Piece
      <3>3. P \in Islands(left, broken)
        BY <2>1, <3>2 DEF Islands, UnsupportedPieces
      <3>4. P \subseteq fallen
        BY <3>3 DEF fallen
      <3> QED
        BY <1>4, <1>6, <3>4
    <2>3. broken \cap AdjacentTo(P) = {}
      BY <1>1, <1>4, <2>2, AdjacencyIsMutual
    <2>4. P \subseteq w /\ w \cap AdjacentTo(P) \subseteq P
      BY <1>4, <2>3
    <2>5. Piece(w, v) \subseteq P
      BY <1>4, <2>4, PieceIsLeast
    <2> QED
      BY <1>4, <2>1, <2>5 DEF Held
  <1> QED
    BY <1>7, <1>8

(* So does a structural failure, whatever of the domain gave way.          *)
LEMMA CollapseLeavesHeld ==
  ASSUME NEW w, w \subseteq Voxels, Held(w), NEW seed \in Eligible(w),
         NEW candidate \in LoadDomain(w, seed) \ Anchors
  PROVE  Held(w \ UNION Debris(LoadDomain(w, seed), candidate))
  <1> DEFINE D == LoadDomain(w, seed)
             rest == D \ {candidate}
             fallen == UNION Debris(D, candidate)
             after == w \ fallen
  <1>1. /\ D \subseteq w
        /\ \A y \in D \ Anchors : w \cap Neighbors[y] \subseteq D
    BY DomainOfVoxel DEF AdjacentTo, FreePart
  <1>2. rest \subseteq Voxels /\ rest \subseteq D
    BY <1>1
  <1>3. /\ candidate \in fallen
        /\ \A y \in fallen : y \in D /\ y \notin Anchors
        /\ \A y \in fallen : y # candidate =>
             \E x \in rest : y \in Piece(rest, x) /\ Piece(rest, x) \cap Anchors = {}
        /\ \A x \in rest : Piece(rest, x) \cap Anchors = {} => Piece(rest, x) \subseteq fallen
    <2>1. \A x \in rest : Piece(rest, x) \subseteq D
      BY <1>2, PieceOfVoxel
    <2>2. rest \cap D = rest
      OBVIOUS
    <2>3. Debris(D, candidate) =
            {{candidate}} \cup {p \in {Piece(rest, x) : x \in rest} : p \cap Anchors = {}}
      BY <2>2 DEF Debris, UnsupportedPieces, Piece
    <2> HIDE DEF rest
    <2>4. candidate \in D /\ candidate \notin Anchors
      OBVIOUS
    <2> HIDE DEF D
    <2>5. fallen = {candidate} \cup UNION {p \in {Piece(rest, x) : x \in rest} :
                                                p \cap Anchors = {}}
      BY <2>3
    <2> HIDE DEF fallen
    <2> QED
      BY <2>1, <2>4, <2>5
  <1> HIDE DEF D, fallen, rest
  <1>4. SUFFICES ASSUME NEW v \in after, Piece(after, v) \cap Anchors = {} PROVE FALSE
    BY DEF Held, fallen, D
  <1> DEFINE K == Piece(after, v)
  <1>5. v \in K /\ K \subseteq after /\ after \cap AdjacentTo(K) \subseteq K
    BY PieceOfVoxel
  <1>6. ~(w \cap AdjacentTo(K) \subseteq K)
    <2>1. SUFFICES ASSUME w \cap AdjacentTo(K) \subseteq K PROVE FALSE
      OBVIOUS
    <2>2. K \subseteq w
      BY <1>5
    <2>3. Piece(w, v) \subseteq K
      BY <1>5, <2>1, <2>2, PieceIsLeast
    <2> QED
      BY <1>4, <2>3 DEF Held
  <1>7. PICK x \in K, y \in w : y \in Neighbors[x] /\ y \notin K
    BY <1>6 DEF AdjacentTo
  <1>8. y \in fallen
    BY <1>5, <1>7 DEF AdjacentTo
  <1>9. x \in w /\ x \notin fallen /\ x \in Neighbors[y]
    BY <1>5, <1>7, StructureAssumption
  <1>10. x \in D
    BY <1>1, <1>3, <1>8, <1>9
  <1>11. x \in rest
    BY <1>3, <1>9, <1>10 DEF rest
  <1> DEFINE P == Piece(rest, x)
  <1>12. P \subseteq rest /\ x \in P /\ P \cap Anchors # {}
    BY <1>2, <1>3, <1>9, <1>11, PieceOfVoxel
  <1>13. P \cap fallen = {}
    <2>1. SUFFICES ASSUME NEW u \in P, u \in fallen PROVE FALSE
      OBVIOUS
    <2>2. u # candidate
      BY <1>12 DEF rest
    <2>3. PICK z \in rest : u \in Piece(rest, z) /\ Piece(rest, z) \cap Anchors = {}
      BY <1>3, <2>1, <2>2
    <2>4. Piece(rest, u) = Piece(rest, z) /\ Piece(rest, u) = P
      BY <1>2, <1>11, <2>3, PieceFromWithin
    <2> QED
      BY <1>12, <2>3, <2>4
  <1>14. P \subseteq Piece(after, x)
    <2> DEFINE Q == Piece(after, x)
    <2>1. x \in Q /\ Q \subseteq after /\ after \cap AdjacentTo(Q) \subseteq Q
      BY <1>5, PieceOfVoxel
    <2>2. rest \cap AdjacentTo(P) \subseteq P
      BY <1>2, <1>11, PieceOfVoxel
    <2> HIDE DEF Q
    <2> HIDE DEF P
    <2> DEFINE X == P \cap Q
    <2>3. AdjacentTo(X) \subseteq AdjacentTo(P) /\ AdjacentTo(X) \subseteq AdjacentTo(Q)
      BY DEF AdjacentTo
    <2>4. rest \cap AdjacentTo(X) \subseteq X
      <3>1. SUFFICES ASSUME NEW u \in rest, u \in AdjacentTo(X) PROVE u \in X
        OBVIOUS
      <3>2. u \in P
        BY <2>2, <2>3, <3>1
      <3>3. u \in after
        BY <1>1, <1>2, <1>13, <3>1, <3>2
      <3> QED
        BY <2>1, <2>3, <3>1, <3>2, <3>3
    <2>5. x \in X /\ X \subseteq rest
      BY <1>12, <2>1
    <2>6. Piece(rest, x) \subseteq X
      BY <1>2, <2>4, <2>5, PieceIsLeast
    <2> QED
      BY <2>6 DEF P, Q
  <1>15. Piece(after, x) = K
    BY <1>5, PieceFromWithin
  <1> QED
    BY <1>4, <1>12, <1>14, <1>15

=============================================================================
