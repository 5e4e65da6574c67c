--------------------------- MODULE RuntimeProofs ---------------------------
(***************************************************************************)
(* Structural coverage, proved: a bounded search reaches everything its    *)
(* start is joined to, what a voxel is joined to depends on the voxels of  *)
(* its own domain and those beside it alone, and so neither the queue of   *)
(* dirty seeds nor a structural failure forgets part of the world.         *)
(***************************************************************************)
EXTENDS StructuralRuntime, StructureProofs, FunctionTheorems

-----------------------------------------------------------------------------
(* The queue of dirty seeds.                                               *)

Dirts == [queue: Seq(Voxels), pending: SUBSET Voxels, overflowed: BOOLEAN]

(* What offering the seeds of offered does to the queue d.                 *)
Grown(e, d, offered) ==
  /\ e \in Dirts
  /\ d.pending \subseteq e.pending
  /\ d.overflowed => e.overflowed
  /\ ~e.overflowed => offered \subseteq e.pending

LEMMA EnqueuedGrows ==
  ASSUME NEW d \in Dirts, NEW seed \in Voxels
  PROVE  Grown(Enqueued(d, seed), d, {seed})
  <1>1. CASE seed \in d.pending
    BY <1>1 DEF Enqueued, Grown
  <1>2. CASE seed \notin d.pending /\ Len(d.queue) = MaxPendingSeeds
    BY <1>2 DEF Enqueued, Grown, Dirts
  <1>3. CASE seed \notin d.pending /\ Len(d.queue) # MaxPendingSeeds
    <2>1. Append(d.queue, seed) \in Seq(Voxels)
      BY DEF Dirts
    <2> QED
      BY <1>3, <2>1 DEF Enqueued, Grown, Dirts
  <1> QED
    BY <1>1, <1>2, <1>3

(* The queue after each of the first m seeds.                              *)
Queuing(f, m, d, seeds) ==
  /\ DOMAIN f = 0..m
  /\ f[0] = d
  /\ \A n \in 1..m : f[n] = Enqueued(f[n - 1], seeds[n])

LEMMA QueuingExists ==
  ASSUME NEW d, NEW seeds \in Seq(Voxels), NEW m \in 0..Len(seeds)
  PROVE  \E f : Queuing(f, m, d, seeds)
  <1> DEFINE Bad == {k \in 0..Len(seeds) : ~\E f : Queuing(f, k, d, seeds)}
  <1>1. Len(seeds) \in Nat
    OBVIOUS
  <1>2. SUFFICES ASSUME m \in Bad PROVE FALSE
    OBVIOUS
  <1>3. Bad \subseteq Nat
    BY <1>1
  <1> HIDE DEF Bad
  <1>4. PICK k \in Bad : \A j \in Bad : k <= j
    BY <1>2, <1>3, LeastOfNaturals
  <1>5. k \in 0..Len(seeds) /\ ~\E f : Queuing(f, k, d, seeds)
    BY <1>4 DEF Bad
  <1>6. CASE k = 0
    <2> DEFINE f == [n \in 0..0 |-> d]
    <2>1. DOMAIN f = 0..k /\ 1..k = {} /\ f[0] = d
      BY <1>6
    <2> HIDE DEF f
    <2>2. Queuing(f, k, d, seeds)
      BY <2>1 DEF Queuing
    <2> QED
      BY <1>5, <2>2
  <1>7. CASE k # 0
    <2>1. k - 1 \in 0..Len(seeds) /\ ~(k <= k - 1)
      BY <1>1, <1>5, <1>7
    <2>2. PICK f : Queuing(f, k - 1, d, seeds)
      BY <1>4, <2>1 DEF Bad
    <2> DEFINE g == [n \in 0..k |-> IF n = k THEN Enqueued(f[k - 1], seeds[k]) ELSE f[n]]
    <2>3. DOMAIN g = 0..k /\ g[0] = d
      BY <1>1, <1>5, <1>7, <2>2 DEF Queuing
    <2>4. \A n \in 1..k - 1 : g[n] = f[n] /\ g[n - 1] = f[n - 1]
      BY <1>1, <1>5, <1>7
    <2>5. g[k] = Enqueued(f[k - 1], seeds[k]) /\ g[k - 1] = f[k - 1]
      BY <1>1, <1>5, <1>7
    <2>6. \A n \in 1..k : n = k \/ n \in 1..k - 1
      BY <1>1, <1>5
    <2> HIDE DEF g
    <2>7. \A n \in 1..k : g[n] = Enqueued(g[n - 1], seeds[n])
      BY <2>2, <2>4, <2>5, <2>6 DEF Queuing
    <2>8. Queuing(g, k, d, seeds)
      BY <2>3, <2>7 DEF Queuing
    <2> QED
      BY <1>5, <2>8
  <1> QED
    BY <1>6, <1>7

Elements(seq) == {seq[i] : i \in 1..Len(seq)}

LEMMA EnqueuedAllQueues ==
  ASSUME NEW d, NEW seeds \in Seq(Voxels)
  PROVE  \E f : Queuing(f, Len(seeds), d, seeds) /\ EnqueuedAll(d, seeds) = f[Len(seeds)]
  <1> DEFINE N == Len(seeds)
             Rec(f) == [n \in 0..Len(seeds) |->
                          IF n = 0 THEN d ELSE Enqueued(f[n - 1], seeds[n])]
             queued == CHOOSE f : f = Rec(f)
  <1>1. N \in Nat /\ N \in 0..N
    OBVIOUS
  <1>2. PICK f : Queuing(f, N, d, seeds)
    BY <1>1, QueuingExists
  <1>3. \A n \in 0..N : n = 0 \/ n \in 1..N
    BY <1>1
  <1> DEFINE g == Rec(f)
  <1>4. g = Rec(g)
    <2>1. \A n \in 0..N : g[n] = f[n]
      BY <1>2, <1>3 DEF Queuing
    <2>2. \A n \in 1..N : n - 1 \in 0..N
      BY <1>1
    <2>3. \A n \in 1..N : g[n - 1] = f[n - 1]
      BY <2>1, <2>2
    <2> HIDE DEF g
    <2>4. Rec(g) = Rec(f)
      BY <2>3, <1>3
    <2> QED
      BY <2>4 DEF g
  <1>5. queued = Rec(queued)
    BY <1>4
  <1>6. EnqueuedAll(d, seeds) = queued[N]
    BY DEF EnqueuedAll
  <1> HIDE DEF queued
  <1>7. queued[0] = d
    BY <1>1, <1>5
  <1>8. \A n \in 1..N : queued[n] = Enqueued(queued[n - 1], seeds[n])
    <2> SUFFICES ASSUME NEW n \in 1..N
                 PROVE  queued[n] = Enqueued(queued[n - 1], seeds[n])
      OBVIOUS
    <2>1. n \in 0..N /\ n # 0
      BY <1>1
    <2>2. queued[n] = Rec(queued)[n]
      BY <1>5
    <2> QED
      BY <2>1, <2>2
  <1>9. DOMAIN queued = 0..N
    BY <1>5
  <1>10. Queuing(queued, N, d, seeds)
    BY <1>7, <1>8, <1>9 DEF Queuing
  <1> QED
    BY <1>6, <1>10

LEMMA EnqueuedAllGrows ==
  ASSUME NEW d \in Dirts, NEW seeds \in Seq(Voxels)
  PROVE  Grown(EnqueuedAll(d, seeds), d, Elements(seeds))
  <1> DEFINE N == Len(seeds)
  <1>1. N \in Nat /\ N \in 0..N
    OBVIOUS
  <1>2. PICK queued : Queuing(queued, N, d, seeds) /\ EnqueuedAll(d, seeds) = queued[N]
    BY EnqueuedAllQueues
  <1>6. EnqueuedAll(d, seeds) = queued[N]
    BY <1>2
  <1>7. queued[0] = d
    BY <1>2 DEF Queuing
  <1>8. \A n \in 1..N : queued[n] = Enqueued(queued[n - 1], seeds[n])
    BY <1>2 DEF Queuing
  <1> HIDE DEF N
  <1> DEFINE Bad == {n \in 0..N : ~Grown(queued[n], d, {seeds[i] : i \in 1..n})}
  <1>9. Bad = {}
    <2>1. SUFFICES ASSUME Bad # {} PROVE FALSE
      OBVIOUS
    <2>2. Bad \subseteq Nat
      BY <1>1
    <2> HIDE DEF Bad
    <2>3. PICK k \in Bad : \A j \in Bad : k <= j
      BY <2>1, <2>2, LeastOfNaturals
    <2>4. k \in 0..N /\ ~Grown(queued[k], d, {seeds[i] : i \in 1..k})
      BY <2>3 DEF Bad
    <2>5. CASE k = 0
      <3>1. {seeds[i] : i \in 1..k} = {}
        BY <2>5
      <3>2. Grown(d, d, {})
        BY DEF Grown
      <3> QED
        BY <2>4, <2>5, <3>1, <3>2, <1>7
    <2>6. CASE k # 0
      <3>1. k \in 1..N /\ k - 1 \in 0..N /\ ~(k <= k - 1)
        BY <2>4, <2>6, <1>1
      <3>2. Grown(queued[k - 1], d, {seeds[i] : i \in 1..k - 1})
        BY <3>1, <2>3 DEF Bad
      <3>3. seeds[k] \in Voxels
        BY <3>1, ElementOfSeq DEF N
      <3>4. Grown(queued[k], queued[k - 1], {seeds[k]})
        BY <3>1, <3>2, <3>3, <1>8, EnqueuedGrows DEF Grown
      <3>5. \A i \in 1..k : i = k \/ i \in 1..k - 1
        BY <3>1, <1>1
      <3>6. {seeds[i] : i \in 1..k} \subseteq {seeds[i] : i \in 1..k - 1} \cup {seeds[k]}
        BY <3>5
      <3>7. Grown(queued[k], d, {seeds[i] : i \in 1..k})
        BY ONLY <3>2, <3>4, <3>6 DEF Grown
      <3> QED
        BY <2>4, <3>7
    <2> QED
      BY <2>5, <2>6
  <1>10. Grown(queued[N], d, {seeds[i] : i \in 1..N})
    BY <1>1, <1>9
  <1> QED
    BY <1>6, <1>10 DEF N, Elements

LEMMA InOrderHoldsAll ==
  ASSUME NEW S, S \subseteq Voxels
  PROVE  Ascending(S) \in Seq(Voxels) /\ Elements(Ascending(S)) = S
  <1> DEFINE n == Cardinality(Voxels)
             all == [v \in 1..n |-> v]
  <1>1. Voxels = 1..n /\ n \in Nat
    BY RuntimeAssumption, StructureAssumption, FS_CardinalityType
  <1> HIDE DEF n
  <1>2. all \in Seq(Voxels) /\ Len(all) = n /\ \A v \in 1..n : all[v] = v
    BY <1>1
  <1>3. Ascending(S) = Kept(all, S)
    BY DEF Ascending, n
  <1> HIDE DEF all
  <1>4. IsPart(Kept(all, S), n, Voxels, all, S)
    BY <1>2, KeptIsPart
  <1>5. \A v \in S : \E i \in 1..Len(Kept(all, S)) : Kept(all, S)[i] = v
    BY <1>1, <1>2, <1>4 DEF IsPart
  <1> QED
    BY <1>3, <1>4, <1>5 DEF IsPart, Elements

LEMMA ElementsOfJoined ==
  ASSUME NEW S, NEW s \in Seq(S), NEW t \in Seq(S)
  PROVE  s \o t \in Seq(S) /\ Elements(s) \cup Elements(t) \subseteq Elements(s \o t)
  <1>1. /\ s \o t \in Seq(S) /\ Len(s) \in Nat /\ Len(t) \in Nat
        /\ Len(s \o t) = Len(s) + Len(t)
        /\ \A i \in 1..Len(s) + Len(t) :
             (s \o t)[i] = IF i <= Len(s) THEN s[i] ELSE t[i - Len(s)]
    BY ConcatProperties
  <1>2. \A i \in 1..Len(s) : i \in 1..Len(s \o t) /\ (s \o t)[i] = s[i]
    BY <1>1
  <1>3. \A i \in 1..Len(t) : i + Len(s) \in 1..Len(s \o t) /\ (s \o t)[i + Len(s)] = t[i]
    BY <1>1
  <1>4. Elements(s) \subseteq Elements(s \o t)
    <2> SUFFICES ASSUME NEW i \in 1..Len(s)
                 PROVE  \E j \in 1..Len(s \o t) : (s \o t)[j] = s[i]
      BY DEF Elements
    <2> QED
      BY <1>2
  <1>5. Elements(t) \subseteq Elements(s \o t)
    <2> SUFFICES ASSUME NEW i \in 1..Len(t)
                 PROVE  \E j \in 1..Len(s \o t) : (s \o t)[j] = t[i]
      BY DEF Elements
    <2> QED
      BY <1>3
  <1> QED
    BY <1>1, <1>4, <1>5

LEMMA AroundHoldsAll ==
  ASSUME NEW v \in Voxels
  PROVE  Around[v] \in Seq(Voxels) /\ {v} \cup Neighbors[v] \subseteq Elements(Around[v])
  <1>1. Neighbors[v] \subseteq Voxels
    BY StructureAssumption
  <1>2. Ascending(Neighbors[v]) \in Seq(Voxels) /\ Elements(Ascending(Neighbors[v])) = Neighbors[v]
    BY <1>1, InOrderHoldsAll
  <1>3. <<v>> \in Seq(Voxels) /\ Elements(<<v>>) = {v}
    BY DEF Elements
  <1>4. Around[v] = <<v>> \o Ascending(Neighbors[v])
    BY DEF Around
  <1> QED
    BY <1>2, <1>3, <1>4, ElementsOfJoined

Gathering(f, m, order) ==
  /\ DOMAIN f = 0..m
  /\ f[0] = <<>>
  /\ \A n \in 1..m : f[n] = f[n - 1] \o Around[order[n]]

LEMMA GatheringExists ==
  ASSUME NEW order \in Seq(Voxels), NEW m \in 0..Len(order)
  PROVE  \E f : Gathering(f, m, order)
  <1> DEFINE Bad == {k \in 0..Len(order) : ~\E f : Gathering(f, k, order)}
  <1>1. Len(order) \in Nat
    OBVIOUS
  <1>2. SUFFICES ASSUME m \in Bad PROVE FALSE
    OBVIOUS
  <1>3. Bad \subseteq Nat
    BY <1>1
  <1> HIDE DEF Bad
  <1>4. PICK k \in Bad : \A j \in Bad : k <= j
    BY <1>2, <1>3, LeastOfNaturals
  <1>5. k \in 0..Len(order) /\ ~\E f : Gathering(f, k, order)
    BY <1>4 DEF Bad
  <1>6. CASE k = 0
    <2> DEFINE f == [n \in 0..0 |-> <<>>]
    <2>1. DOMAIN f = 0..k /\ 1..k = {} /\ f[0] = <<>>
      BY <1>6
    <2> HIDE DEF f
    <2>2. Gathering(f, k, order)
      BY <2>1 DEF Gathering
    <2> QED
      BY <1>5, <2>2
  <1>7. CASE k # 0
    <2>1. k - 1 \in 0..Len(order) /\ ~(k <= k - 1)
      BY <1>1, <1>5, <1>7
    <2>2. PICK f : Gathering(f, k - 1, order)
      BY <1>4, <2>1 DEF Bad
    <2> DEFINE g == [n \in 0..k |-> IF n = k THEN f[k - 1] \o Around[order[k]] ELSE f[n]]
    <2>3. DOMAIN g = 0..k /\ g[0] = <<>>
      BY <1>1, <1>5, <1>7, <2>2 DEF Gathering
    <2>4. \A n \in 1..k - 1 : g[n] = f[n] /\ g[n - 1] = f[n - 1]
      BY <1>1, <1>5, <1>7
    <2>5. g[k] = f[k - 1] \o Around[order[k]] /\ g[k - 1] = f[k - 1]
      BY <1>1, <1>5, <1>7
    <2>6. \A n \in 1..k : n = k \/ n \in 1..k - 1
      BY <1>1, <1>5
    <2> HIDE DEF g
    <2>7. \A n \in 1..k : g[n] = g[n - 1] \o Around[order[n]]
      BY <2>2, <2>4, <2>5, <2>6 DEF Gathering
    <2>8. Gathering(g, k, order)
      BY <2>3, <2>7 DEF Gathering
    <2> QED
      BY <1>5, <2>8
  <1> QED
    BY <1>6, <1>7

(* Every changed position is visited, and every position beside one.       *)
LEMMA VisitedHoldsAll ==
  ASSUME NEW changed, changed \subseteq Voxels
  PROVE  /\ Visited(changed) \in Seq(Voxels)
         /\ changed \cup AdjacentTo(changed) \subseteq Elements(Visited(changed))
  <1> DEFINE order == Ascending(changed)
  <1>1. order \in Seq(Voxels) /\ Elements(order) = changed
    BY InOrderHoldsAll
  <1>2. Visited(changed) =
          LET visited[n \in 0..Len(order)] ==
                IF n = 0 THEN <<>> ELSE visited[n - 1] \o Around[order[n]]
          IN visited[Len(order)]
    BY DEF Visited
  <1> HIDE DEF order
  <1> DEFINE N == Len(order)
             Rec(f) == [n \in 0..Len(order) |->
                          IF n = 0 THEN <<>> ELSE f[n - 1] \o Around[order[n]]]
             visited == CHOOSE f : f = Rec(f)
  <1>3. N \in Nat /\ N \in 0..N
    BY <1>1
  <1>4. PICK f : Gathering(f, N, order)
    BY <1>1, <1>3, GatheringExists
  <1>5. \A n \in 0..N : n = 0 \/ n \in 1..N
    BY <1>3
  <1> DEFINE g == Rec(f)
  <1>6. g = Rec(g)
    <2>1. \A n \in 0..N : g[n] = f[n]
      BY <1>4, <1>5 DEF Gathering
    <2>2. \A n \in 1..N : n - 1 \in 0..N
      BY <1>3
    <2>3. \A n \in 1..N : g[n - 1] = f[n - 1]
      BY <2>1, <2>2
    <2> HIDE DEF g
    <2>4. Rec(g) = Rec(f)
      BY <2>3, <1>5
    <2> QED
      BY <2>4 DEF g
  <1>7. visited = Rec(visited)
    BY <1>6
  <1>8. Visited(changed) = visited[N]
    BY <1>2
  <1> HIDE DEF visited
  <1>9. visited[0] = <<>>
    BY <1>3, <1>7
  <1>10. \A n \in 1..N : visited[n] = visited[n - 1] \o Around[order[n]]
    <2> SUFFICES ASSUME NEW n \in 1..N
                 PROVE  visited[n] = visited[n - 1] \o Around[order[n]]
      OBVIOUS
    <2>1. n \in 0..N /\ n # 0
      BY <1>3
    <2>2. visited[n] = Rec(visited)[n]
      BY <1>7
    <2> QED
      BY <2>1, <2>2
  <1>11. \A n \in 1..N : order[n] \in Voxels
    BY <1>1, ElementOfSeq
  <1> HIDE DEF N
  <1> DEFINE Good(n) == /\ visited[n] \in Seq(Voxels)
                        /\ \A i \in 1..n : {order[i]} \cup Neighbors[order[i]]
                                            \subseteq Elements(visited[n])
             Bad == {n \in 0..N : ~Good(n)}
  <1>12. Bad = {}
    <2>1. SUFFICES ASSUME Bad # {} PROVE FALSE
      OBVIOUS
    <2>2. Bad \subseteq Nat
      BY <1>3
    <2> HIDE DEF Bad
    <2>3. PICK k \in Bad : \A j \in Bad : k <= j
      BY <2>1, <2>2, LeastOfNaturals
    <2>4. k \in 0..N /\ ~Good(k)
      BY <2>3 DEF Bad
    <2>5. CASE k = 0
      <3>1. <<>> \in Seq(Voxels) /\ 1..k = {}
        BY <2>5
      <3> QED
        BY <2>4, <2>5, <3>1, <1>9
    <2>6. CASE k # 0
      <3>1. k \in 1..N /\ k - 1 \in 0..N /\ ~(k <= k - 1)
        BY <2>4, <2>6, <1>3
      <3>2. Good(k - 1)
        BY <3>1, <2>3 DEF Bad
      <3>3. /\ Around[order[k]] \in Seq(Voxels)
            /\ {order[k]} \cup Neighbors[order[k]] \subseteq Elements(Around[order[k]])
        BY <3>1, <1>11, AroundHoldsAll
      <3>4. /\ visited[k] \in Seq(Voxels)
            /\ Elements(visited[k - 1]) \cup Elements(Around[order[k]])
                 \subseteq Elements(visited[k])
        BY <3>1, <3>2, <3>3, <1>10, ElementsOfJoined, ZenonT(40)
      <3>5. \A i \in 1..k : i = k \/ i \in 1..k - 1
        BY <3>1, <1>3
      <3>6. Good(k)
        BY <3>2, <3>3, <3>4, <3>5
      <3> QED
        BY <2>4, <3>6
    <2> QED
      BY <2>5, <2>6
  <1>13. Good(N)
    BY <1>3, <1>12
  <1>14. \A v \in changed : \E i \in 1..N : order[i] = v
    BY <1>1 DEF Elements, N
  <1> QED
    BY <1>8, <1>13, <1>14 DEF AdjacentTo

(* Whatever is eligible in or beside a change gets a place in the queue.   *)
LEMMA ObservedGrows ==
  ASSUME NEW d \in Dirts, NEW w, NEW changed, changed \subseteq Voxels
  PROVE  Grown(Observed(d, w, changed), d,
               Eligible(w) \cap (changed \cup AdjacentTo(changed)))
  <1> DEFINE visited == Visited(changed)
             kept == Kept(visited, Eligible(w))
  <1>1. /\ visited \in Seq(Voxels)
        /\ changed \cup AdjacentTo(changed) \subseteq Elements(visited)
    BY VisitedHoldsAll
  <1> HIDE DEF visited
  <1>2. IsPart(kept, Len(visited), Voxels, visited, Eligible(w))
    BY <1>1, KeptIsPart
  <1> HIDE DEF kept
  <1>3. kept \in Seq(Voxels)
    BY <1>2 DEF IsPart
  <1>4. Elements(visited) \cap Eligible(w) \subseteq Elements(kept)
    BY <1>2, SMTT(40) DEF IsPart, Elements
  <1>5. Observed(d, w, changed) = EnqueuedAll(d, kept)
    BY DEF Observed, kept, visited
  <1>6. Grown(EnqueuedAll(d, kept), d, Elements(kept))
    BY <1>3, EnqueuedAllGrows
  <1> QED
    BY <1>1, <1>4, <1>5, <1>6 DEF Grown

-----------------------------------------------------------------------------
(* Coverage: every domain that awaits assessment holds a seed.             *)

Covered(w, awaiting, seeds) ==
  \A v \in awaiting : FreePart(w, v) \cap seeds # {}

(* A committed change: what it touched is queued, and what it did not      *)
(* touch keeps its domain and thereby its seed.                            *)
LEMMA ChangeKeepsCoverage ==
  ASSUME NEW w, w \subseteq Voxels, NEW w2, w2 \subseteq Voxels,
         NEW changed, changed \subseteq Voxels, AgreeOff(w, w2, changed),
         NEW awaiting, awaiting \subseteq Eligible(w),
         NEW d \in Dirts, NEW flying, Covered(w, awaiting, d.pending \cup flying),
         ~Observed(d, w2, changed).overflowed
  PROVE  Covered(w2, StillUnchecked(awaiting, w2, changed),
                 Observed(d, w2, changed).pending \cup flying)
  <1> DEFINE e == Observed(d, w2, changed)
             touched == Eligible(w2) \cap (changed \cup AdjacentTo(changed))
  <1>1. Grown(e, d, touched)
    BY ObservedGrows
  <1>2. touched \subseteq e.pending /\ d.pending \subseteq e.pending
    BY <1>1 DEF Grown
  <1> HIDE DEF e
  <1>3. SUFFICES ASSUME NEW v \in StillUnchecked(awaiting, w2, changed)
                 PROVE  FreePart(w2, v) \cap (e.pending \cup flying) # {}
    BY DEF Covered, e
  <1>4. CASE \E s \in touched : v \in FreePart(w2, s)
    <2>1. PICK s \in touched : v \in FreePart(w2, s)
      BY <1>4
    <2>2. s \in Eligible(w2)
      OBVIOUS
    <2>3. FreePart(w2, v) = FreePart(w2, s) /\ s \in FreePart(w2, s)
      BY <2>1, <2>2, DomainOfVoxel, DomainFromWithin
    <2> QED
      BY <1>2, <2>3
  <1>5. CASE ~\E s \in touched : v \in FreePart(w2, s)
    <2>1. v \in awaiting /\ v \in Eligible(w2)
      BY <1>3, <1>5 DEF StillUnchecked
    <2>2. FreePart(w2, v) \subseteq Eligible(w2)
      BY <2>1, DomainOfVoxel
    <2>3. CASE FreePart(w2, v) \cap (changed \cup AdjacentTo(changed)) = {}
      <3>1. LoadDomain(w, v) = LoadDomain(w2, v)
        BY <2>1, <2>3, DomainOffChanges
      <3>2. FreePart(w, v) = FreePart(w2, v)
        BY <3>1 DEF FreePart
      <3> QED
        BY <1>2, <2>1, <3>2 DEF Covered
    <2>4. CASE FreePart(w2, v) \cap (changed \cup AdjacentTo(changed)) # {}
      BY <1>2, <2>2, <2>4
    <2> QED
      BY <2>3, <2>4
  <1> QED
    BY <1>4, <1>5

(* What still awaits assessment is there to be assessed.                   *)
LEMMA StillUncheckedEligible ==
  ASSUME NEW w, w \subseteq Voxels, NEW awaiting, NEW changed
  PROVE  StillUnchecked(awaiting, w, changed) \subseteq Eligible(w)
  BY DomainOfVoxel DEF StillUnchecked

(* An assessed domain takes along its own seeds alone.                     *)
LEMMA AssessedKeepsCoverage ==
  ASSUME NEW w, w \subseteq Voxels, NEW awaiting, awaiting \subseteq Eligible(w),
         NEW seed \in Eligible(w), NEW pending, Covered(w, awaiting, pending \cup {seed})
  PROVE  Covered(w, awaiting \ LoadDomain(w, seed), pending \ LoadDomain(w, seed))
  <1> DEFINE D == LoadDomain(w, seed)
  <1>1. seed \in D /\ FreePart(w, seed) = D \ Anchors
    BY DomainOfVoxel DEF FreePart
  <1>2. SUFFICES ASSUME NEW v \in awaiting \ D
                 PROVE  FreePart(w, v) \cap (pending \ D) # {}
    BY DEF Covered
  <1>3. PICK p \in FreePart(w, v) : p \in pending \cup {seed}
    BY <1>2 DEF Covered
  <1>4. p \in Eligible(w) /\ FreePart(w, p) = FreePart(w, v) /\ v \in FreePart(w, v)
    BY <1>2, <1>3, DomainOfVoxel, DomainFromWithin
  <1>5. p \notin D
    <2>1. SUFFICES ASSUME p \in D PROVE FALSE
      OBVIOUS
    <2>2. p \in FreePart(w, seed)
      BY <1>1, <1>4, <2>1 DEF Eligible
    <2>3. FreePart(w, p) = FreePart(w, seed)
      BY <2>2, DomainFromWithin
    <2> QED
      BY <1>1, <1>2, <1>4, <2>3
  <1> QED
    BY <1>1, <1>3, <1>5

LEMMA CoalescedShrinks ==
  ASSUME NEW d \in Dirts, NEW domain
  PROVE  /\ Coalesced(d, domain) \in Dirts
         /\ Coalesced(d, domain).pending = d.pending \ domain
         /\ Coalesced(d, domain).overflowed = d.overflowed
  <1>1. IsPart(Kept(d.queue, Voxels \ domain), Len(d.queue), Voxels, d.queue, Voxels \ domain)
    BY KeptIsPart DEF Dirts
  <1>2. Kept(d.queue, Voxels \ domain) \in Seq(Voxels)
    BY <1>1 DEF IsPart
  <1> QED
    BY <1>2 DEF Coalesced, Dirts

LEMMA PoppedShrinks ==
  ASSUME NEW d \in Dirts, NEW n \in 0..Len(d.queue)
  PROVE  /\ Popped(d, n) \in Dirts
         /\ Popped(d, n).pending = d.pending \ {d.queue[i] : i \in 1..n}
         /\ Popped(d, n).overflowed = d.overflowed
  <1>1. d.queue \in Seq(Voxels) /\ Len(d.queue) \in Nat
    BY DEF Dirts
  <1>2. SubSeq(d.queue, n + 1, Len(d.queue)) \in Seq(Voxels)
    BY <1>1, SubSeqProperties
  <1>3. /\ Len(SubSeq(d.queue, 1, n)) = n
        /\ \A i \in 1..n : SubSeq(d.queue, 1, n)[i] = d.queue[i]
        /\ SubSeq(d.queue, 1, n) \in Seq(Voxels)
    BY <1>1, SubSeqProperties
  <1>4. DOMAIN SubSeq(d.queue, 1, n) = 1..n
    BY <1>3
  <1>5. ToSet(SubSeq(d.queue, 1, n)) = {d.queue[i] : i \in 1..n}
    BY <1>3, <1>4 DEF ToSet
  <1> QED
    BY <1>2, <1>5 DEF Popped, Dirts

-----------------------------------------------------------------------------
(* The job in flight.                                                      *)

Empty(s) == s.jobs = <<>> /\ s.running = <<>> /\ s.completed = <<>>

(* The scheduler holds the job r, or its answer, or a panic lost it.       *)
HoldsJob(s, r) ==
  \/ Empty(s)
  \/ s.jobs = <<r>> /\ s.running = <<>> /\ s.completed = <<>>
  \/ s.jobs = <<>> /\ s.running = <<r>> /\ s.completed = <<>>
  \/ /\ s.jobs = <<>> /\ s.running = <<>>
     /\ \E answer \in Calculations(r) : s.completed = <<answer>>

(* What the snapshot rw of the job still says of the world: a voxel that   *)
(* differs lies in a chunk written since, and while no chunk came or went  *)
(* the same chunks exist.                                                  *)
Snapshot(rw) ==
  /\ rw \subseteq Voxels
  /\ Head(inFlight) \in Eligible(rw)
  /\ \A v \in Voxels : (v \in rw /\ v \in world) \/ (v \notin rw /\ v \notin world)
                         \/ ChunkOf[v] \in written
  /\ ~reshaped => ChunksOf(rw) = ChunksOf(world)

RequestOn(rw) == [seed |-> Head(inFlight), world |-> rw]

JobInv ==
  ~stopped =>
    /\ ~scheduler.cancelled
    /\ inFlight = <<>> => Empty(scheduler)
    /\ inFlight # <<>> => \E rw : Snapshot(rw) /\ HoldsJob(scheduler, RequestOn(rw))

RuntimeInv == RuntimeTypeOK /\ JobInv /\ DirtyDomainsHaveSeeds

LEMMA OneAtMost ==
  ASSUME NEW S
  PROVE  /\ <<>> \in AtMostOne(S)
         /\ \A x \in S : <<x>> \in AtMostOne(S)
         /\ \A q \in AtMostOne(S) : q # <<>> => /\ Head(q) \in S
                                               /\ q = <<Head(q)>>
                                               /\ Tail(q) = <<>>
         /\ \A x \in S : Append(<<>>, x) = <<x>>
  <1>1. <<>> \in AtMostOne(S) /\ \A x \in S : <<x>> \in AtMostOne(S)
    BY DEF AtMostOne
  <1>2. ASSUME NEW q \in AtMostOne(S), q # <<>>
        PROVE  Head(q) \in S /\ q = <<Head(q)>> /\ Tail(q) = <<>>
    <2>1. q \in Seq(S) /\ Len(q) <= 1 /\ Len(q) \in Nat /\ Len(q) # 0
      BY <1>2, EmptySeq DEF AtMostOne
    <2>2. \A n \in Nat : n <= 1 /\ n # 0 => n = 1
      OBVIOUS
    <2>3. Len(q) = 1
      BY ONLY <2>1, <2>2
    <2>4. Head(q) \in S /\ Tail(q) \in Seq(S) /\ Len(Tail(q)) = 0
      BY <1>2, <2>1, <2>3, HeadTailProperties
    <2>5. Tail(q) = <<>>
      BY <2>4, EmptySeq
    <2>6. Head(q) = q[1]
      BY <2>1, <2>3
    <2>7. q = <<q[1]>>
      BY <2>1, <2>3
    <2> QED
      BY <2>4, <2>5, <2>6, <2>7
  <1>3. \A x \in S : Append(<<>>, x) = <<x>>
    OBVIOUS
  <1> QED
    BY <1>1, <1>2, <1>3

LEMMA CalculationsAreAnswers ==
  ASSUME NEW r \in JobRequests
  PROVE  /\ Calculations(r) \subseteq Answers
         /\ Calculated(r, "cancelled", {}, {}, {}) \in Answers
  <1> DEFINE domain == LoadDomain(r.world, r.seed)
             seen == ReadFor(r.world, r.seed)
  <1>1. r.seed \in Voxels /\ r.world \subseteq Voxels /\ IsFiniteSet(r.world)
    BY StructureAssumption, FS_Subset DEF JobRequests
  <1>2. domain \subseteq Voxels
    BY <1>1, ReachedIsClosed DEF LoadDomain
  <1>3. seen \subseteq Voxels
    <2>1. FreePart(r.world, r.seed) \subseteq Voxels
      BY <1>2 DEF FreePart
    <2> QED
      BY <2>1, AdjacencyIsMutual DEF ReadFor
  <1>4. \A v \in domain : Debris(domain, v) \subseteq SUBSET Voxels
    <2> SUFFICES ASSUME NEW v \in domain PROVE Debris(domain, v) \subseteq SUBSET Voxels
      OBVIOUS
    <2> HIDE DEF domain
    <2>1. domain \ {v} \subseteq Voxels
      BY <1>2
    <2>2. \A x \in domain \ {v} : Piece(domain \ {v}, x) \subseteq Voxels
      BY <2>1, PieceOfVoxel
    <2> QED
      BY <1>2, <2>2 DEF Debris, UnsupportedPieces, Piece
  <1> HIDE DEF domain, seen
  <1>5. \A outcome \in Outcomes, d \in SUBSET Voxels, part \in SUBSET Voxels,
           debris \in SUBSET SUBSET Voxels :
          Calculated(r, outcome, d, part, debris) \in Answers
    <2> SUFFICES ASSUME NEW outcome \in Outcomes, NEW d \in SUBSET Voxels,
                        NEW part \in SUBSET Voxels, NEW debris \in SUBSET SUBSET Voxels
                 PROVE  Calculated(r, outcome, d, part, debris) \in Answers
      OBVIOUS
    <2>1. ChunksOf({r.seed} \cup part) \subseteq ChunksOf(Voxels)
      BY <1>1 DEF ChunksOf
    <2> QED
      BY <2>1 DEF Calculated, Answers
  <1>6. {"supported", "fails", "error", "cancelled"} = Outcomes
    BY DEF Outcomes
  <1>7. Calculations(r) \subseteq Answers
    <2>1. ASSUME NEW a \in Calculations(r) PROVE a \in Answers
      <3>1. \/ \E part \in SUBSET seen : a = Calculated(r, "error", {}, part, {})
            \/ a = Calculated(r, "error", domain, seen, {})
            \/ a = Calculated(r, "supported", domain, seen, {})
            \/ \E v \in domain : a = Calculated(r, "fails", domain, seen, Debris(domain, v))
        BY <2>1 DEF Calculations, domain, seen
      <3> QED
        BY <3>1, <1>2, <1>3, <1>4, <1>5, <1>6
    <2> QED
      BY <2>1
  <1> QED
    BY <1>5, <1>6, <1>7

(* An answer that is not stale is about the world as it is now.            *)
LEMMA AssessmentIsCurrent ==
  ASSUME RuntimeTypeOK, NEW rw, Snapshot(rw),
         NEW answer \in Calculations(RequestOn(rw)), ~Stale(answer),
         answer.outcome \in {"supported", "fails"}
  PROVE  /\ Head(inFlight) \in Eligible(world)
         /\ answer.domain = LoadDomain(world, Head(inFlight))
         /\ answer.outcome = "fails" =>
              \E v \in answer.domain \ Anchors : answer.debris = Debris(answer.domain, v)
  <1> DEFINE seed == Head(inFlight)
             domain == LoadDomain(rw, seed)
             seen == ReadFor(rw, seed)
             chunks == ChunksOf({seed} \cup seen)
  <1>1. rw \subseteq Voxels /\ world \subseteq Voxels /\ seed \in Eligible(rw)
    BY DEF Snapshot, RuntimeTypeOK
  <1>2. RequestOn(rw).seed = seed /\ RequestOn(rw).world = rw
    BY DEF RequestOn
  <1>3. \/ answer = Calculated(RequestOn(rw), "supported", domain, seen, {})
        \/ \E v \in domain \ Anchors :
             answer = Calculated(RequestOn(rw), "fails", domain, seen, Debris(domain, v))
    <2> DEFINE r == RequestOn(rw)
    <2>1. \/ \E part \in SUBSET seen : answer = Calculated(r, "error", {}, part, {})
          \/ answer = Calculated(r, "error", domain, seen, {})
          \/ answer = Calculated(r, "supported", domain, seen, {})
          \/ \E v \in domain \ Anchors :
               answer = Calculated(r, "fails", domain, seen, Debris(domain, v))
      BY <1>2 DEF Calculations
    <2>2. \A d, part, debris : Calculated(r, "error", d, part, debris).outcome = "error"
      BY DEF Calculated
    <2> HIDE DEF r, domain, seen
    <2> QED
      BY <2>1, <2>2 DEF r
  <1>4. /\ answer.domain = domain
        /\ answer.occupied = chunks \cap ChunksOf(rw)
        /\ answer.absent = chunks \ ChunksOf(rw)
        /\ answer.outcome = "fails" =>
              \E v \in domain \ Anchors : answer.debris = Debris(domain, v)
    <2> DEFINE r == RequestOn(rw)
    <2>1. \A outcome, d, part, debris :
            /\ Calculated(r, outcome, d, part, debris).outcome = outcome
            /\ Calculated(r, outcome, d, part, debris).domain = d
            /\ Calculated(r, outcome, d, part, debris).debris = debris
      BY <1>2 DEF Calculated
    <2>2. chunks = ChunksOf({seed} \cup seen)
      OBVIOUS
    <2> HIDE DEF domain, seen, seed, chunks
    <2>3. CASE answer = Calculated(r, "supported", domain, seen, {})
      <3>1. answer.outcome = "supported"
        BY <2>1, <2>3
      <3>2. answer.domain = domain
        BY <2>1, <2>3
      <3>3. /\ answer.occupied = ChunksOf({seed} \cup seen) \cap ChunksOf(rw)
            /\ answer.absent = ChunksOf({seed} \cup seen) \ ChunksOf(rw)
        BY <1>2, <2>3 DEF Calculated
      <3> QED
        BY <2>2, <3>1, <3>2, <3>3
    <2>4. CASE \E v \in domain \ Anchors :
                 answer = Calculated(r, "fails", domain, seen, Debris(domain, v))
      <3>1. PICK v \in domain \ Anchors :
                   answer = Calculated(r, "fails", domain, seen, Debris(domain, v))
        BY <2>4
      <3>2. answer.domain = domain /\ answer.debris = Debris(domain, v)
        BY <2>1, <3>1
      <3>3. /\ answer.occupied = ChunksOf({seed} \cup seen) \cap ChunksOf(rw)
            /\ answer.absent = ChunksOf({seed} \cup seen) \ ChunksOf(rw)
        BY <1>2, <3>1 DEF Calculated
      <3> QED
        BY <2>2, <3>2, <3>3
    <2> QED
      BY <1>3, <2>3, <2>4
  <1>5. ASSUME NEW x \in Voxels, x \in {seed} \cup seen
        PROVE  x \in rw <=> x \in world
    <2>1. ChunkOf[x] \in chunks
      BY <1>5 DEF ChunksOf
    <2>2. SUFFICES ASSUME ~(x \in rw <=> x \in world) PROVE FALSE
      OBVIOUS
    <2>3. ChunkOf[x] \in written
      BY <2>2 DEF Snapshot
    <2>4. ChunkOf[x] \notin ChunksOf(rw)
      BY <1>4, <2>1, <2>3 DEF Stale
    <2>5. ~reshaped
      BY <1>4, <2>1, <2>4 DEF Stale
    <2>6. ChunkOf[x] \in ChunksOf(rw)
      BY <2>2, <2>5 DEF Snapshot, ChunksOf
    <2> QED
      BY <2>4, <2>6
  <1>6. FreePart(rw, seed) \subseteq Voxels /\ AdjacentTo(FreePart(rw, seed)) \subseteq Voxels
    BY <1>1, DomainOfVoxel, AdjacencyIsMutual DEF Eligible
  <1>7. \A x \in AdjacentTo(FreePart(rw, seed)) : x \in rw <=> x \in world
    BY <1>5, <1>6 DEF ReadFor
  <1> HIDE DEF seed
  <1>8. LoadDomain(world, seed) = domain
    BY <1>1, <1>7, DomainIsLocal
  <1>9. seed \in Voxels /\ seed \in rw /\ seed \notin Anchors
    BY <1>1 DEF Eligible
  <1>10. seed \in Eligible(world)
    BY <1>5, <1>9 DEF Eligible
  <1> QED
    BY <1>4, <1>8, <1>10 DEF seed

-----------------------------------------------------------------------------
(* The steps of the worker.                                                *)

LEMMA SchedulerShape ==
  ASSUME NEW s \in Schedulers(JobRequests, Answers)
  PROVE  /\ s.jobs \in AtMostOne(JobRequests) /\ s.running \in AtMostOne(JobRequests)
         /\ s.completed \in AtMostOne(Answers)
  BY DEF Schedulers

LEMMA WorkerKeepsTypes ==
  ASSUME scheduler \in Schedulers(JobRequests, Answers), Worker
  PROVE  scheduler' \in Schedulers(JobRequests, Answers)
  <1>1. /\ scheduler.jobs \in AtMostOne(JobRequests) /\ scheduler.running \in AtMostOne(JobRequests)
        /\ <<>> \in AtMostOne(JobRequests) /\ <<>> \in AtMostOne(Answers)
    BY SchedulerShape, OneAtMost
  <1>2. ASSUME NEW answer \in Answers
        PROVE  Sent(scheduler, answer) \in Schedulers(JobRequests, Answers)
    <2>1. <<answer>> \in AtMostOne(Answers)
      BY OneAtMost
    <2> QED
      BY <1>1, <2>1 DEF Sent, Schedulers
  <1>3. CASE Receive
    <2>1. scheduler.jobs # <<>> /\ scheduler' = Received(scheduler)
      BY <1>3 DEF Receive, WorkerStep, CanReceive
    <2>2. <<Head(scheduler.jobs)>> \in AtMostOne(JobRequests) /\ Tail(scheduler.jobs) = <<>>
      BY <1>1, <2>1, OneAtMost
    <2> QED
      BY <1>1, <2>1, <2>2 DEF Received, Schedulers
  <1>4. CASE Finish
    <2>1. scheduler.running # <<>>
      BY <1>4 DEF Finish, CanSend, Running
    <2>2. Head(scheduler.running) \in JobRequests
      BY <1>1, <2>1, OneAtMost
    <2>3. PICK answer \in Calculations(Head(scheduler.running)) :
                 scheduler' = Sent(scheduler, answer)
      BY <1>4 DEF Finish, WorkerStep
    <2>4. answer \in Answers
      BY <2>2, CalculationsAreAnswers
    <2> QED
      BY <1>2, <2>3, <2>4
  <1>5. CASE GiveUp
    <2>1. scheduler.running # <<>>
      BY <1>5 DEF GiveUp, CanSend, Running
    <2>2. Head(scheduler.running) \in JobRequests
      BY <1>1, <2>1, OneAtMost
    <2>3. Calculated(Head(scheduler.running), "cancelled", {}, {}, {}) \in Answers
      BY <2>2, CalculationsAreAnswers
    <2> QED
      BY <1>2, <1>5, <2>3 DEF GiveUp, WorkerStep
  <1>6. CASE Panic
    BY <1>1, <1>6 DEF Panic, WorkerStep, Panicked, Schedulers
  <1> QED
    BY <1>3, <1>4, <1>5, <1>6 DEF Worker

LEMMA WorkerKeepsJob ==
  ASSUME scheduler \in Schedulers(JobRequests, Answers), NEW r, HoldsJob(scheduler, r),
         ~scheduler.cancelled, Worker
  PROVE  HoldsJob(scheduler', r) /\ ~scheduler'.cancelled /\ ~Empty(scheduler)
  <1>1. CASE Receive
    <2>1. scheduler.jobs # <<>> /\ scheduler' = Received(scheduler)
      BY <1>1 DEF Receive, WorkerStep, CanReceive
    <2>2. scheduler.jobs = <<r>> /\ scheduler.completed = <<>> /\ scheduler.running = <<>>
      BY <2>1 DEF HoldsJob, Empty
    <2>3. Head(<<r>>) = r /\ Tail(<<r>>) = <<>>
      OBVIOUS
    <2>4. /\ scheduler'.running = <<r>> /\ scheduler'.jobs = <<>>
          /\ scheduler'.completed = <<>> /\ scheduler'.cancelled = scheduler.cancelled
      BY <2>1, <2>2, <2>3 DEF Received, Schedulers
    <2> QED
      BY <2>1, <2>4 DEF HoldsJob, Empty
  <1>2. CASE Finish
    <2>1. scheduler.running # <<>>
      BY <1>2 DEF Finish, CanSend, Running
    <2>2. scheduler.running = <<r>> /\ scheduler.completed = <<>> /\ scheduler.jobs = <<>>
      BY <2>1 DEF HoldsJob, Empty
    <2>3. PICK answer \in Calculations(r) : scheduler' = Sent(scheduler, answer)
      BY <1>2, <2>2 DEF Finish, WorkerStep
    <2>4. /\ scheduler'.running = <<>> /\ scheduler'.jobs = <<>>
          /\ scheduler'.completed \in {<<>>, <<answer>>}
          /\ scheduler'.cancelled = scheduler.cancelled
      BY <2>2, <2>3 DEF Sent, Schedulers
    <2> QED
      BY <2>1, <2>3, <2>4 DEF HoldsJob, Empty
  <1>3. CASE GiveUp
    BY <1>3 DEF GiveUp, WorkerStep
  <1>4. CASE Panic
    <2>1. scheduler.running # <<>> /\ scheduler' = Panicked(scheduler)
      BY <1>4 DEF Panic, WorkerStep, Running
    <2>2. scheduler.completed = <<>> /\ scheduler.jobs = <<>>
      BY <2>1 DEF HoldsJob, Empty
    <2>3. /\ scheduler'.running = <<>> /\ scheduler'.jobs = <<>>
          /\ scheduler'.completed = <<>> /\ scheduler'.cancelled = scheduler.cancelled
      BY <2>1, <2>2 DEF Panicked, Schedulers
    <2> QED
      BY <2>1, <2>3 DEF HoldsJob, Empty
  <1> QED
    BY <1>1, <1>2, <1>3, <1>4 DEF Worker

LEMMA WorkerKeeps ==
  ASSUME RuntimeInv, Worker
  PROVE  RuntimeInv'
  <1>1. UNCHANGED <<static, runtime, snapshot>>
    BY DEF Worker, Receive, Finish, GiveUp, Panic, WorkerStep
  <1>2. scheduler \in Schedulers(JobRequests, Answers)
    BY DEF RuntimeInv, RuntimeTypeOK
  <1>3. scheduler' \in Schedulers(JobRequests, Answers)
    BY <1>2, WorkerKeepsTypes
  <1>4. RuntimeTypeOK'
    BY <1>1, <1>3 DEF RuntimeInv, RuntimeTypeOK, static, runtime, snapshot
  <1>5. DirtyDomainsHaveSeeds'
    BY <1>1 DEF RuntimeInv, DirtyDomainsHaveSeeds, Incomplete, static, runtime
  <1>6. JobInv'
    <2>1. SUFFICES ASSUME ~stopped
                   PROVE  /\ ~scheduler'.cancelled
                          /\ inFlight = <<>> => Empty(scheduler')
                          /\ inFlight # <<>> =>
                               \E rw : Snapshot(rw)' /\ HoldsJob(scheduler', RequestOn(rw)')
      BY <1>1 DEF JobInv, runtime
    <2>2. \A rw : (Snapshot(rw)' <=> Snapshot(rw)) /\ RequestOn(rw)' = RequestOn(rw)
      BY <1>1 DEF Snapshot, RequestOn, static, runtime, snapshot
    <2>3. CASE inFlight = <<>>
      <3>1. Empty(scheduler) /\ ~scheduler.cancelled
        BY <2>1, <2>3 DEF RuntimeInv, JobInv
      <3>2. HoldsJob(scheduler, 0)
        BY <3>1 DEF HoldsJob
      <3> QED
        BY <1>2, <3>1, <3>2, WorkerKeepsJob
    <2>4. CASE inFlight # <<>>
      <3>1. PICK rw : Snapshot(rw) /\ HoldsJob(scheduler, RequestOn(rw))
        BY <2>1, <2>4 DEF RuntimeInv, JobInv
      <3>2. ~scheduler.cancelled
        BY <2>1 DEF RuntimeInv, JobInv
      <3>3. HoldsJob(scheduler', RequestOn(rw)) /\ ~scheduler'.cancelled
        BY <1>2, <3>1, <3>2, WorkerKeepsJob
      <3> QED
        BY <2>2, <2>4, <3>1, <3>3
    <2> QED
      BY <2>3, <2>4
  <1> QED
    BY <1>4, <1>5, <1>6 DEF RuntimeInv

-----------------------------------------------------------------------------
(* The commands.                                                           *)

(* A job's snapshot stays comparable with a world that is written on.      *)
LEMMA WritingKeepsJob ==
  ASSUME RuntimeInv, NEW changed, changed \subseteq Voxels, NEW passed,
         AgreeOff(world, world', changed), world' \in passed \/ world' = world,
         Written(passed, changed), UNCHANGED <<inFlight, stopped, scheduler>>
  PROVE  JobInv'
  <1>1. SUFFICES ASSUME ~stopped, inFlight # <<>>
                 PROVE  \E rw : Snapshot(rw)' /\ HoldsJob(scheduler, RequestOn(rw)')
    BY DEF JobInv, RuntimeInv
  <1>2. PICK rw : Snapshot(rw) /\ HoldsJob(scheduler, RequestOn(rw))
    BY <1>1 DEF RuntimeInv, JobInv
  <1>3. /\ written' = written \cup ChunksOf(changed)
        /\ reshaped' = (reshaped \/ \E w \in passed : ChunksOf(w) # ChunksOf(world))
    BY <1>1 DEF Written
  <1>4. RequestOn(rw)' = RequestOn(rw)
    BY DEF RequestOn
  <1>5. ASSUME NEW v \in Voxels
        PROVE  \/ v \in rw /\ v \in world'
               \/ v \notin rw /\ v \notin world'
               \/ ChunkOf[v] \in written'
    <2>1. CASE v \in changed
      BY <1>3, <2>1 DEF ChunksOf
    <2>2. CASE v \notin changed
      BY <1>2, <1>3, <2>2 DEF AgreeOff, Snapshot
    <2> QED
      BY <2>1, <2>2
  <1>6. ~reshaped' => ChunksOf(rw) = ChunksOf(world)'
    <2>1. SUFFICES ASSUME ~reshaped' PROVE ChunksOf(rw) = ChunksOf(world')
      BY DEF ChunksOf
    <2>2. ~reshaped /\ \A w \in passed : ChunksOf(w) = ChunksOf(world)
      BY <1>3, <2>1
    <2>3. ChunksOf(rw) = ChunksOf(world)
      BY <1>2, <2>2 DEF Snapshot
    <2>4. CASE world' = world
      BY <2>3, <2>4
    <2>5. CASE world' \in passed
      BY <2>2, <2>3, <2>5
    <2> QED
      BY <2>4, <2>5
  <1>7. Snapshot(rw)'
    BY <1>2, <1>5, <1>6 DEF Snapshot
  <1> QED
    BY <1>2, <1>4, <1>7

LEMMA WritingKeepsTypes ==
  ASSUME RuntimeTypeOK, NEW changed, changed \subseteq Voxels, NEW passed, Written(passed, changed)
  PROVE  written' \subseteq ChunksOf(Voxels) /\ reshaped' \in BOOLEAN
  <1>1. written \subseteq ChunksOf(Voxels) /\ reshaped \in BOOLEAN
    BY DEF RuntimeTypeOK
  <1>2. CASE UNCHANGED snapshot
    BY <1>1, <1>2 DEF snapshot
  <1>3. CASE ~UNCHANGED snapshot
    <2>1. /\ written' = written \cup ChunksOf(changed)
          /\ reshaped' = (reshaped \/ \E w \in passed : ChunksOf(w) # ChunksOf(world))
      BY <1>3 DEF Written
    <2>2. ChunksOf(changed) \subseteq ChunksOf(Voxels)
      BY DEF ChunksOf
    <2>3. written' \subseteq ChunksOf(Voxels)
      BY <1>1, <2>1, <2>2
    <2>4. reshaped' \in BOOLEAN
      BY <2>1
    <2> QED
      BY <2>3, <2>4
  <1> QED
    BY <1>2, <1>3

LEMMA CommitKeeps ==
  ASSUME RuntimeInv, NEW w, w \subseteq Voxels, NEW changed, changed \subseteq Voxels,
         AgreeOff(world, w, changed), NEW passed, w \in passed,
         bodies' \in 0..MaxActiveBodies, Written(passed, changed), ChangesTo(w, changed)
  PROVE  RuntimeInv'
  <1>1. /\ world' = w
        /\ dirty' = Observed(dirty, w, changed)
        /\ unchecked' = StillUnchecked(unchecked, w, changed)
        /\ UNCHANGED <<inFlight, late, stopped, failed, scheduler>>
    BY DEF ChangesTo
  <1>2. world \subseteq Voxels /\ dirty \in Dirts /\ unchecked \subseteq Eligible(world)
    BY DEF RuntimeInv, RuntimeTypeOK, Dirts
  <1>3. Grown(Observed(dirty, w, changed), dirty,
              Eligible(w) \cap (changed \cup AdjacentTo(changed)))
    BY <1>2, ObservedGrows
  <1>4. RuntimeTypeOK'
    <2>1. dirty' \in Dirts
      BY <1>1, <1>3 DEF Grown
    <2>2. unchecked' \subseteq Eligible(w)
      BY <1>1, StillUncheckedEligible
    <2>3. written' \subseteq ChunksOf(Voxels) /\ reshaped' \in BOOLEAN
      BY WritingKeepsTypes DEF RuntimeInv
    <2> QED
      BY <1>1, <2>1, <2>2, <2>3 DEF RuntimeInv, RuntimeTypeOK, Dirts
  <1>5. JobInv'
    BY <1>1, WritingKeepsJob
  <1>6. DirtyDomainsHaveSeeds'
    <2>1. SUFFICES ASSUME ~failed, ~dirty'.overflowed, ~stopped
                   PROVE  Covered(w, unchecked', dirty'.pending \cup ToSet(inFlight))
      BY <1>1 DEF DirtyDomainsHaveSeeds, Incomplete, Covered
    <2>2. ~dirty.overflowed
      BY <1>1, <1>3, <2>1 DEF Grown
    <2>3. Covered(world, unchecked, dirty.pending \cup ToSet(inFlight))
      BY <2>1, <2>2 DEF RuntimeInv, DirtyDomainsHaveSeeds, Incomplete, Covered
    <2> QED
      BY <1>1, <1>2, <2>1, <2>3, ChangeKeepsCoverage
  <1> QED
    BY <1>4, <1>5, <1>6 DEF RuntimeInv

LEMMA IslandsAreVoxels ==
  ASSUME NEW w, w \subseteq Voxels, NEW broken
  PROVE  /\ UNION Islands(w, broken) \subseteq w
         /\ Islands(w, broken) \subseteq SUBSET w
         /\ Cardinality(Islands(w, broken)) \in Nat
  <1>1. \A v \in w : Piece(w, v) \subseteq w
    BY PieceOfVoxel
  <1>2. Islands(w, broken) \subseteq SUBSET w
    BY <1>1 DEF Islands, UnsupportedPieces, Piece
  <1>3. IsFiniteSet(SUBSET w)
    BY StructureAssumption, FS_Subset, FS_SUBSET
  <1>4. IsFiniteSet(Islands(w, broken))
    BY <1>2, <1>3, FS_Subset
  <1> QED
    BY <1>2, <1>4, FS_CardinalityType

LEMMA BodiesAreCounted ==
  ASSUME bodies \in 0..MaxActiveBodies, NEW n \in Nat, Fits(n)
  PROVE  bodies + n \in 0..MaxActiveBodies
  BY RuntimeAssumption DEF Fits

LEMMA BlastKeeps ==
  ASSUME RuntimeInv, NEW hit \in Hits, NEW broken \in SUBSET hit, Explode(hit, broken)
  PROVE  RuntimeInv'
  <1> DEFINE left == world \ broken
             islands == Islands(left, broken)
             fallen == UNION islands
             after == world \ (broken \cup fallen)
  <1>1. hit \subseteq world /\ world \subseteq Voxels /\ left \subseteq Voxels
    BY DEF Hits, RuntimeInv, RuntimeTypeOK
  <1>2. fallen \subseteq left /\ Cardinality(islands) \in Nat
    BY <1>1, IslandsAreVoxels, ZenonT(40)
  <1>3. /\ Fits(Cardinality(islands))
        /\ bodies' = bodies + Cardinality(islands)
        /\ Written({left, after}, hit \cup fallen)
        /\ ChangesTo(after, hit \cup fallen)
    BY DEF Explode
  <1>4. bodies' \in 0..MaxActiveBodies
    BY <1>2, <1>3, BodiesAreCounted DEF RuntimeInv, RuntimeTypeOK
  <1>5. AgreeOff(world, after, hit \cup fallen)
    BY DEF AgreeOff
  <1>6. hit \cup fallen \subseteq Voxels /\ after \subseteq Voxels /\ after \in {left, after}
    BY <1>1, <1>2
  <1> HIDE DEF left, islands, fallen, after
  <1> QED
    BY <1>3, <1>4, <1>5, <1>6, CommitKeeps

LEMMA RollBackKeeps ==
  ASSUME RuntimeInv, NEW hit \in Hits, NEW broken, RollBack(hit, broken)
  PROVE  RuntimeInv'
  <1>1. hit \subseteq Voxels
    BY DEF Hits, RuntimeInv, RuntimeTypeOK
  <1>2. Written({world \ broken}, hit) /\ UNCHANGED <<static, runtime, scheduler>>
    BY DEF RollBack
  <1>3. UNCHANGED <<world, bodies, unchecked, dirty, inFlight, late, stopped, failed, scheduler>>
    BY <1>2 DEF static, runtime
  <1>4. AgreeOff(world, world', hit)
    BY <1>3 DEF AgreeOff
  <1>5. JobInv'
    BY <1>1, <1>2, <1>3, <1>4, WritingKeepsJob
  <1>6. written' \subseteq ChunksOf(Voxels) /\ reshaped' \in BOOLEAN
    BY <1>1, <1>2, WritingKeepsTypes DEF RuntimeInv
  <1>7. RuntimeTypeOK'
    BY <1>3, <1>6 DEF RuntimeInv, RuntimeTypeOK
  <1>8. DirtyDomainsHaveSeeds'
    BY <1>3 DEF RuntimeInv, DirtyDomainsHaveSeeds, Incomplete
  <1> QED
    BY <1>5, <1>7, <1>8 DEF RuntimeInv

LEMMA BuildKeeps ==
  ASSUME RuntimeInv, NEW v \in Voxels, Build(v)
  PROVE  RuntimeInv'
  <1> DEFINE after == world \cup {v}
  <1>1. /\ Written({after}, {v}) /\ ChangesTo(after, {v}) /\ bodies' = bodies
    BY DEF Build
  <1>2. AgreeOff(world, after, {v})
    BY DEF AgreeOff
  <1>3. after \subseteq Voxels /\ bodies' \in 0..MaxActiveBodies
    BY <1>1 DEF RuntimeInv, RuntimeTypeOK
  <1> HIDE DEF after
  <1> QED
    BY <1>1, <1>2, <1>3, CommitKeeps

-----------------------------------------------------------------------------
(* The tick.                                                               *)

LEMMA LeastIsMin ==
  ASSUME NEW S, S \subseteq Nat, S # {}
  PROVE  Min(S) \in S /\ \A j \in S : Min(S) <= j
  <1>1. \E m \in S : \A j \in S : m <= j
    BY LeastOfNaturals
  <1> QED
    BY <1>1 DEF Min

(* What the second half of a tick leaves of a world w in which awaiting    *)
(* awaits assessment.                                                      *)
NextJobLeaves(w, awaiting) ==
  /\ dirty' \in Dirts
  /\ inFlight' \in AtMostOne(Voxels)
  /\ stopped' \in BOOLEAN /\ failed' \in BOOLEAN
  /\ scheduler' \in Schedulers(JobRequests, Answers)
  /\ ~failed' /\ ~dirty'.overflowed =>
       Covered(w, awaiting, dirty'.pending \cup ToSet(inFlight'))
  /\ ~stopped' =>
       /\ ~scheduler'.cancelled
       /\ inFlight' = <<>> => Empty(scheduler')
       /\ inFlight' # <<>> => /\ Head(inFlight') \in Eligible(w)
                              /\ HoldsJob(scheduler', [seed |-> Head(inFlight'), world |-> w])

LEMMA NextJobKeeps ==
  ASSUME NEW w, w \subseteq Voxels, NEW d \in Dirts, NEW f \in BOOLEAN,
         NEW s \in Schedulers(JobRequests, Answers), Empty(s), ~s.cancelled,
         NEW awaiting, awaiting \subseteq Eligible(w),
         ~f /\ ~d.overflowed => Covered(w, awaiting, d.pending),
         stopped = FALSE, NextJob(w, d, f, s)
  PROVE  NextJobLeaves(w, awaiting)
  <1> DEFINE checks == Min({MaxSeedChecks, Len(d.queue)})
             found == {i \in 1..checks : d.queue[i] \in Eligible(w)}
             k == Min(found)
             tooLarge == Cardinality(ChunksOf(w)) > MaxSnapshotChunks
  <1>1. d.queue \in Seq(Voxels) /\ Len(d.queue) \in Nat /\ MaxSeedChecks \in Nat
    BY RuntimeAssumption DEF Dirts
  <1>2. checks \in Nat /\ checks \in 0..Len(d.queue)
    <2>1. {MaxSeedChecks, Len(d.queue)} \subseteq Nat
      BY <1>1
    <2>2. checks \in {MaxSeedChecks, Len(d.queue)} /\ checks <= Len(d.queue)
      BY <2>1, LeastIsMin
    <2> HIDE DEF checks
    <2> QED
      BY <1>1, <2>2
  <1>3. \A i \in 1..checks : d.queue[i] \in Voxels
    <2> HIDE DEF checks
    <2>1. \A i \in 1..checks : i \in 1..Len(d.queue)
      BY <1>1, <1>2
    <2> QED
      BY <1>1, <2>1, ElementOfSeq
  <1>4. found # {} => k \in found /\ \A i \in found : k <= i
    <2>1. found \subseteq Nat
      BY <1>2
    <2> HIDE DEF found
    <2> QED
      BY <2>1, LeastIsMin
  <1>5. <<>> \in AtMostOne(Voxels) /\ \A v \in Voxels : <<v>> \in AtMostOne(Voxels)
    BY OneAtMost
  <1>6. \A v \in awaiting : FreePart(w, v) \subseteq Eligible(w)
    BY DomainOfVoxel
  <1> HIDE DEF checks, k, tooLarge
  <1>7. CASE found = {}
    <2>1. /\ dirty' = Popped(d, checks) /\ inFlight' = <<>> /\ scheduler' = s
          /\ failed' = f /\ stopped' = stopped
      BY <1>7 DEF NextJob, checks, k, tooLarge
    <2>2. /\ dirty' \in Dirts
          /\ dirty'.pending = d.pending \ {d.queue[i] : i \in 1..checks}
          /\ dirty'.overflowed = d.overflowed
      BY <1>2, <2>1, PoppedShrinks
    <2>3. ASSUME ~failed', ~dirty'.overflowed
          PROVE  Covered(w, awaiting, dirty'.pending \cup ToSet(inFlight'))
      <3>1. Covered(w, awaiting, d.pending)
        BY <2>1, <2>2, <2>3
      <3>2. \A i \in 1..checks : d.queue[i] \notin Eligible(w)
        BY <1>7
      <3>3. Eligible(w) \cap d.pending \subseteq dirty'.pending
        BY <2>2, <3>2
      <3> QED
        BY <1>6, <3>1, <3>3 DEF Covered
    <2> QED
      BY <1>5, <2>1, <2>2, <2>3 DEF NextJobLeaves
  <1>8. CASE found # {}
    <2>1. k \in found /\ \A i \in found : k <= i
      BY <1>4, <1>8
    <2>2. k \in 1..checks /\ k \in Nat /\ d.queue[k] \in Eligible(w)
      BY <1>2, <2>1
    <2>3. k \in 0..Len(d.queue) /\ d.queue[k] \in Voxels
      BY <1>1, <1>2, <1>3, <2>2
    <2> DEFINE popped == Popped(d, k)
    <2>4. /\ popped \in Dirts
          /\ popped.pending = d.pending \ {d.queue[i] : i \in 1..k}
          /\ popped.overflowed = d.overflowed
      BY <2>3, PoppedShrinks
    <2> HIDE DEF popped
    <2>5. CASE tooLarge \/ ~s.thread
      <3>1. /\ dirty' = popped /\ inFlight' = <<>>
            /\ scheduler' = (IF tooLarge THEN s ELSE SubmitRefused(s))
            /\ failed' = TRUE /\ stopped' = ~tooLarge
        BY <1>8, <2>5 DEF NextJob, checks, k, tooLarge, popped
      <3>2. SubmitRefused(s) \in Schedulers(JobRequests, Answers)
        BY DEF SubmitRefused, Schedulers
      <3>3. scheduler' \in Schedulers(JobRequests, Answers) /\ stopped' \in BOOLEAN
        BY <3>1, <3>2
      <3>4. ~stopped' => scheduler' = s
        BY <3>1
      <3> QED
        BY <1>5, <2>4, <3>1, <3>3, <3>4 DEF NextJobLeaves
    <2>6. CASE ~tooLarge /\ s.thread
      <3> DEFINE request == [seed |-> d.queue[k], world |-> w]
      <3>1. /\ dirty' = popped /\ inFlight' = <<d.queue[k]>>
            /\ scheduler' = Submitted(s, request)
            /\ failed' = f /\ stopped' = stopped
        BY <1>8, <2>6 DEF NextJob, checks, k, tooLarge, popped
      <3>2. request \in JobRequests
        BY <2>3 DEF JobRequests
      <3> HIDE DEF request
      <3>3. s.jobs = <<>> /\ s.running = <<>> /\ s.completed = <<>>
        BY DEF Empty
      <3>4. Append(<<>>, request) = <<request>> /\ <<request>> \in AtMostOne(JobRequests)
        BY <3>2, OneAtMost
      <3>5. /\ scheduler' \in Schedulers(JobRequests, Answers)
            /\ scheduler'.jobs = <<request>> /\ scheduler'.running = <<>>
            /\ scheduler'.completed = <<>> /\ ~scheduler'.cancelled
        BY <3>1, <3>3, <3>4 DEF Submitted, Schedulers
      <3>6. HoldsJob(scheduler', request)
        BY <3>5 DEF HoldsJob
      <3>7. /\ inFlight' \in AtMostOne(Voxels) /\ inFlight' # <<>>
            /\ Head(inFlight') = d.queue[k] /\ ToSet(inFlight') = {d.queue[k]}
        BY <1>5, <2>3, <3>1 DEF ToSet
      <3>8. ASSUME ~failed', ~dirty'.overflowed
            PROVE  Covered(w, awaiting, dirty'.pending \cup ToSet(inFlight'))
        <4>1. Covered(w, awaiting, d.pending)
          BY <2>4, <3>1, <3>8
        <4>2. ASSUME NEW p \in Eligible(w), p \in d.pending
              PROVE  p \in dirty'.pending \cup ToSet(inFlight')
          <5>1. SUFFICES ASSUME p \notin dirty'.pending PROVE p = d.queue[k]
            BY <3>7
          <5>2. PICK i \in 1..k : p = d.queue[i]
            BY <2>4, <3>1, <4>2, <5>1
          <5>3. i \in 1..checks
            BY <1>2, <2>2
          <5>4. k <= i
            BY <2>1, <4>2, <5>2, <5>3
          <5>5. i = k
            BY <2>2, <5>4
          <5> QED
            BY <5>2, <5>5
        <4> QED
          BY <1>6, <4>1, <4>2 DEF Covered
      <3>9. HoldsJob(scheduler', [seed |-> Head(inFlight'), world |-> w])
        BY <3>6, <3>7 DEF request
      <3>10. stopped' = FALSE /\ failed' \in BOOLEAN /\ dirty' \in Dirts
        BY <2>4, <3>1
      <3> QED
        BY <2>2, <3>5, <3>7, <3>8, <3>9, <3>10 DEF NextJobLeaves
    <2> QED
      BY <2>5, <2>6
  <1> QED
    BY <1>7, <1>8

LEMMA TickLeaves ==
  ASSUME NEW w, w \subseteq Voxels, world' = w, bodies' \in 0..MaxActiveBodies,
         unchecked' \subseteq Eligible(w), FreshClock, NextJobLeaves(w, unchecked')
  PROVE  RuntimeInv'
  <1>1. late' = FALSE /\ written' = {} /\ reshaped' = FALSE
    BY DEF FreshClock
  <1>2. RuntimeTypeOK'
    BY <1>1 DEF RuntimeTypeOK, NextJobLeaves, Dirts
  <1>3. DirtyDomainsHaveSeeds'
    BY DEF DirtyDomainsHaveSeeds, Incomplete, NextJobLeaves, Covered
  <1>4. JobInv'
    <2>1. SUFFICES ASSUME ~stopped', inFlight' # <<>>
                   PROVE  \E rw : Snapshot(rw)' /\ HoldsJob(scheduler', RequestOn(rw)')
      BY DEF JobInv, NextJobLeaves
    <2>2. Snapshot(w)'
      BY <1>1, <2>1 DEF Snapshot, NextJobLeaves
    <2>3. HoldsJob(scheduler', RequestOn(w)')
      BY <2>1 DEF NextJobLeaves, RequestOn
    <2> QED
      BY <2>2, <2>3
  <1> QED
    BY <1>2, <1>3, <1>4 DEF RuntimeInv

(* What a tick finds that takes an answer.                                 *)
LEMMA AnswerFound ==
  ASSUME RuntimeInv, Waiting, HasAnswer(scheduler)
  PROVE  /\ \E rw : Snapshot(rw) /\ Answer(scheduler) \in Calculations(RequestOn(rw))
         /\ Drained(scheduler) \in Schedulers(JobRequests, Answers)
         /\ Empty(Drained(scheduler))
         /\ ~Drained(scheduler).cancelled
         /\ stopped = FALSE
         /\ inFlight = <<Head(inFlight)>> /\ Head(inFlight) \in Voxels
         /\ ToSet(inFlight) = {Head(inFlight)}
  <1>1. ~stopped /\ inFlight # <<>> /\ scheduler.completed # <<>>
    BY DEF Waiting, HasAnswer
  <1>2. /\ scheduler \in Schedulers(JobRequests, Answers) /\ stopped \in BOOLEAN
        /\ inFlight \in AtMostOne(Voxels)
    BY DEF RuntimeInv, RuntimeTypeOK
  <1>3. PICK rw : Snapshot(rw) /\ HoldsJob(scheduler, RequestOn(rw))
    BY <1>1 DEF RuntimeInv, JobInv
  <1>4. ~scheduler.cancelled
    BY <1>1 DEF RuntimeInv, JobInv
  <1>5. PICK answer \in Calculations(RequestOn(rw)) : scheduler.completed = <<answer>>
    BY <1>1, <1>3 DEF HoldsJob, Empty
  <1>6. scheduler.jobs = <<>> /\ scheduler.running = <<>>
    BY <1>1, <1>3 DEF HoldsJob, Empty
  <1>7. Answer(scheduler) = answer
    BY <1>4, <1>5 DEF Answer
  <1>8. Tail(<<answer>>) = <<>> /\ <<>> \in AtMostOne(Answers)
    BY OneAtMost
  <1>9. /\ Drained(scheduler) \in Schedulers(JobRequests, Answers)
        /\ Drained(scheduler).jobs = <<>> /\ Drained(scheduler).running = <<>>
        /\ Drained(scheduler).completed = <<>>
        /\ Drained(scheduler).cancelled = scheduler.cancelled
    BY <1>2, <1>5, <1>6, <1>8 DEF Drained, Schedulers
  <1>10. inFlight = <<Head(inFlight)>> /\ Head(inFlight) \in Voxels
    BY <1>1, <1>2, OneAtMost
  <1>11. ToSet(inFlight) = {Head(inFlight)}
    <2> DEFINE h == Head(inFlight)
    <2>1. inFlight = <<h>>
      BY <1>10
    <2> HIDE DEF h
    <2>2. ToSet(<<h>>) = {h}
      BY DEF ToSet
    <2> QED
      BY <2>1, <2>2 DEF h
  <1> QED
    BY <1>1, <1>2, <1>3, <1>4, <1>5, <1>7, <1>9, <1>10, <1>11 DEF Empty

LEMMA StaticTypes ==
  ASSUME RuntimeInv
  PROVE  /\ world \subseteq Voxels /\ bodies \in 0..MaxActiveBodies
         /\ dirty \in Dirts /\ unchecked \subseteq Eligible(world)
         /\ failed \in BOOLEAN /\ stopped \in BOOLEAN
         /\ scheduler \in Schedulers(JobRequests, Answers)
         /\ ~failed /\ ~dirty.overflowed /\ ~stopped =>
              Covered(world, unchecked, dirty.pending \cup ToSet(inFlight))
  BY DEF RuntimeInv, RuntimeTypeOK, Dirts, DirtyDomainsHaveSeeds, Incomplete, Covered

LEMMA StartJobKeeps ==
  ASSUME RuntimeInv, StartJob
  PROVE  RuntimeInv'
  <1>1. /\ ~stopped /\ inFlight = <<>>
        /\ NextJob(world, dirty, failed, scheduler) /\ FreshClock
        /\ UNCHANGED <<world, bodies, unchecked>>
    BY DEF StartJob, Idle, static
  <1>2. Empty(scheduler) /\ ~scheduler.cancelled
    BY <1>1 DEF RuntimeInv, JobInv
  <1>3. ToSet(inFlight) = {}
    BY <1>1 DEF ToSet
  <1>4. dirty.pending \cup ToSet(inFlight) = dirty.pending
    BY <1>3
  <1>5. ~failed /\ ~dirty.overflowed => Covered(world, unchecked, dirty.pending)
    BY <1>1, <1>4, StaticTypes
  <1>6. stopped = FALSE
    BY <1>1, StaticTypes
  <1>7. NextJobLeaves(world, unchecked)
    BY <1>1, <1>2, <1>5, <1>6, StaticTypes, NextJobKeeps
  <1> QED
    BY <1>1, <1>7, StaticTypes, TickLeaves

LEMMA RetryStaleKeeps ==
  ASSUME RuntimeInv, Waiting, HasAnswer(scheduler), RetryStale(Answer(scheduler))
  PROVE  RuntimeInv'
  <1> DEFINE d == Requeued(dirty, Head(inFlight))
             s == Drained(scheduler)
  <1>1. /\ NextJob(world, d, failed, s) /\ FreshClock
        /\ UNCHANGED <<world, bodies, unchecked>>
    BY DEF RetryStale, static
  <1>2. /\ s \in Schedulers(JobRequests, Answers) /\ Empty(s) /\ ~s.cancelled
        /\ stopped = FALSE /\ Head(inFlight) \in Voxels
        /\ ToSet(inFlight) = {Head(inFlight)}
    BY AnswerFound
  <1>3. Grown(d, dirty, {Head(inFlight)})
    BY <1>2, StaticTypes, EnqueuedGrows DEF Requeued
  <1> HIDE DEF d, s
  <1>4. ASSUME ~failed, ~d.overflowed PROVE Covered(world, unchecked, d.pending)
    <2>1. ~dirty.overflowed /\ dirty.pending \cup ToSet(inFlight) \subseteq d.pending
      BY <1>2, <1>3, <1>4 DEF Grown
    <2>2. Covered(world, unchecked, dirty.pending \cup ToSet(inFlight))
      BY <1>2, <1>4, <2>1, StaticTypes
    <2> QED
      BY <2>1, <2>2 DEF Covered
  <1>5. d \in Dirts
    BY <1>3 DEF Grown
  <1>6. NextJobLeaves(world, unchecked)
    BY <1>1, <1>2, <1>4, <1>5, StaticTypes, NextJobKeeps
  <1> QED
    BY <1>1, <1>6, StaticTypes, TickLeaves

LEMMA RecordErrorKeeps ==
  ASSUME RuntimeInv, Waiting, HasAnswer(scheduler), RecordError(Answer(scheduler))
  PROVE  RuntimeInv'
  <1> DEFINE answer == Answer(scheduler)
             d == IF answer.outcome = "cancelled" THEN dirty
                  ELSE Coalesced(dirty, answer.domain)
             s == Drained(scheduler)
  <1>1. /\ NextJob(world, d, TRUE, s) /\ FreshClock
        /\ UNCHANGED <<world, bodies, unchecked>>
    BY DEF RecordError, static
  <1>2. /\ s \in Schedulers(JobRequests, Answers) /\ Empty(s) /\ ~s.cancelled
        /\ stopped = FALSE
    BY AnswerFound
  <1>3. d \in Dirts
    BY StaticTypes, CoalescedShrinks
  <1> HIDE DEF d, s
  <1>4. NextJobLeaves(world, unchecked)
    BY <1>1, <1>2, <1>3, StaticTypes, NextJobKeeps
  <1> QED
    BY <1>1, <1>4, StaticTypes, TickLeaves

(* What stays covered once the domain of the seed in flight is assessed.   *)
LEMMA AssessmentKeepsCoverage ==
  ASSUME RuntimeInv, stopped = FALSE, ToSet(inFlight) = {Head(inFlight)},
         Head(inFlight) \in Eligible(world),
         NEW domain, domain = LoadDomain(world, Head(inFlight)),
         ~failed, ~Coalesced(dirty, domain).overflowed
  PROVE  Covered(world, unchecked \ domain, Coalesced(dirty, domain).pending)
  <1>1. /\ Coalesced(dirty, domain).pending = dirty.pending \ domain
        /\ ~dirty.overflowed
    BY StaticTypes, CoalescedShrinks
  <1>2. Covered(world, unchecked, dirty.pending \cup {Head(inFlight)})
    BY <1>1, StaticTypes
  <1>3. world \subseteq Voxels /\ unchecked \subseteq Eligible(world)
    BY StaticTypes
  <1>4. Covered(world, unchecked \ LoadDomain(world, Head(inFlight)),
                dirty.pending \ LoadDomain(world, Head(inFlight)))
    BY <1>2, <1>3, AssessedKeepsCoverage
  <1> QED
    BY <1>1, <1>4

LEMMA AssessKeeps ==
  ASSUME RuntimeInv, Waiting, HasAnswer(scheduler), Assess(Answer(scheduler))
  PROVE  RuntimeInv'
  <1> DEFINE answer == Answer(scheduler)
             d == Coalesced(dirty, answer.domain)
             s == Drained(scheduler)
  <1>1. /\ ~Stale(answer) /\ answer.outcome = "supported"
        /\ unchecked' = unchecked \ answer.domain
        /\ NextJob(world, d, failed, s) /\ FreshClock
        /\ UNCHANGED <<world, bodies>>
    BY DEF Assess
  <1>2. /\ s \in Schedulers(JobRequests, Answers) /\ Empty(s) /\ ~s.cancelled
        /\ stopped = FALSE /\ ToSet(inFlight) = {Head(inFlight)}
    BY AnswerFound
  <1>3. PICK rw : Snapshot(rw) /\ answer \in Calculations(RequestOn(rw))
    BY AnswerFound
  <1> HIDE DEF answer
  <1>4. /\ Head(inFlight) \in Eligible(world)
        /\ answer.domain = LoadDomain(world, Head(inFlight))
    BY <1>1, <1>3, AssessmentIsCurrent DEF RuntimeInv
  <1>5. d \in Dirts
    BY StaticTypes, CoalescedShrinks
  <1>6. ~failed /\ ~d.overflowed => Covered(world, unchecked \ answer.domain, d.pending)
    BY <1>2, <1>4, AssessmentKeepsCoverage
  <1> HIDE DEF d, s
  <1>7. unchecked' \subseteq Eligible(world)
    BY <1>1, StaticTypes
  <1>8. NextJobLeaves(world, unchecked')
    BY <1>1, <1>2, <1>5, <1>6, <1>7, StaticTypes, NextJobKeeps
  <1> QED
    BY <1>1, <1>7, <1>8, StaticTypes, TickLeaves

LEMMA CollapseKeeps ==
  ASSUME RuntimeInv, Waiting, HasAnswer(scheduler), Collapse(Answer(scheduler))
  PROVE  RuntimeInv'
  <1> DEFINE answer == Answer(scheduler)
             fallen == UNION answer.debris
             after == world \ fallen
             c == Coalesced(dirty, answer.domain)
             d == Observed(c, after, fallen)
             s == Drained(scheduler)
             awaiting == unchecked \ answer.domain
  <1>1. /\ ~Stale(answer) /\ answer.outcome = "fails"
        /\ Fits(Cardinality(answer.debris))
        /\ fallen \subseteq world
        /\ world' = after
        /\ bodies' = bodies + Cardinality(answer.debris)
        /\ unchecked' = StillUnchecked(awaiting, after, fallen)
        /\ NextJob(after, d, failed, s) /\ FreshClock
    BY DEF Collapse
  <1>2. /\ s \in Schedulers(JobRequests, Answers) /\ Empty(s) /\ ~s.cancelled
        /\ stopped = FALSE /\ ToSet(inFlight) = {Head(inFlight)}
    BY AnswerFound
  <1>3. PICK rw : Snapshot(rw) /\ answer \in Calculations(RequestOn(rw))
    BY AnswerFound
  <1> HIDE DEF answer
  <1>4. /\ Head(inFlight) \in Eligible(world)
        /\ answer.domain = LoadDomain(world, Head(inFlight))
    BY <1>1, <1>3, AssessmentIsCurrent DEF RuntimeInv
  <1>5. c \in Dirts
    BY StaticTypes, CoalescedShrinks
  <1>6. ~failed /\ ~c.overflowed => Covered(world, awaiting, c.pending)
    BY <1>2, <1>4, AssessmentKeepsCoverage
  <1>7. /\ world \subseteq Voxels /\ after \subseteq Voxels /\ fallen \subseteq Voxels
        /\ awaiting \subseteq Eligible(world) /\ AgreeOff(world, after, fallen)
    BY <1>1, StaticTypes DEF AgreeOff
  <1>8. Cardinality(answer.debris) \in Nat
    <2>1. answer.debris \subseteq SUBSET world
      BY <1>1
    <2>2. IsFiniteSet(SUBSET world)
      BY <1>7, StructureAssumption, FS_Subset, FS_SUBSET
    <2> QED
      BY <2>1, <2>2, FS_Subset, FS_CardinalityType
  <1>9. bodies' \in 0..MaxActiveBodies
    BY <1>1, <1>8, StaticTypes, BodiesAreCounted
  <1> HIDE DEF c, s, awaiting, fallen, after
  <1>10. Grown(d, c, Eligible(after) \cap (fallen \cup AdjacentTo(fallen)))
    BY <1>5, <1>7, ObservedGrows
  <1>11. unchecked' \subseteq Eligible(after)
    BY <1>1, <1>7, StillUncheckedEligible
  <1>12. ASSUME ~failed, ~d.overflowed PROVE Covered(after, unchecked', d.pending)
    <2>1. ~c.overflowed
      BY <1>10, <1>12 DEF Grown
    <2>2. Covered(world, awaiting, c.pending \cup {})
      BY <1>6, <1>12, <2>1
    <2>3. Covered(after, unchecked', d.pending \cup {})
      BY <1>1, <1>5, <1>7, <1>12, <2>2, ChangeKeepsCoverage
    <2> QED
      BY <2>3
  <1>13. d \in Dirts
    BY <1>10 DEF Grown
  <1> HIDE DEF d
  <1>14. NextJobLeaves(after, unchecked')
    BY <1>1, <1>2, <1>7, <1>11, <1>12, <1>13, StaticTypes, NextJobKeeps
  <1> QED
    BY <1>1, <1>7, <1>9, <1>11, <1>14, TickLeaves

LEMMA LoseWorkerKeeps ==
  ASSUME RuntimeInv, LoseWorker
  PROVE  RuntimeInv'
  <1>1. /\ inFlight # <<>>
        /\ dirty' = Requeued(dirty, Head(inFlight))
        /\ inFlight' = <<>> /\ scheduler' = Abandoned(scheduler)
        /\ stopped' = TRUE /\ failed' = TRUE
        /\ late' = FALSE /\ written' = {} /\ reshaped' = FALSE
        /\ UNCHANGED <<world, bodies, unchecked>>
    BY DEF LoseWorker, Waiting, FreshClock, static
  <1>2. inFlight \in AtMostOne(Voxels)
    BY DEF RuntimeInv, RuntimeTypeOK
  <1>3. Head(inFlight) \in Voxels /\ <<>> \in AtMostOne(Voxels)
    BY <1>1, <1>2, OneAtMost
  <1>4. Grown(Requeued(dirty, Head(inFlight)), dirty, {Head(inFlight)})
    BY <1>3, StaticTypes, EnqueuedGrows DEF Requeued
  <1>5. dirty' \in Dirts
    BY <1>1, <1>4 DEF Grown
  <1>6. Abandoned(scheduler) \in Schedulers(JobRequests, Answers)
    BY StaticTypes DEF Abandoned, Schedulers
  <1>7. RuntimeTypeOK'
    BY <1>1, <1>3, <1>5, <1>6, StaticTypes DEF RuntimeTypeOK, Dirts
  <1>8. DirtyDomainsHaveSeeds' /\ JobInv'
    BY <1>1 DEF DirtyDomainsHaveSeeds, Incomplete, JobInv
  <1> QED
    BY <1>7, <1>8 DEF RuntimeInv

LEMMA PassDeadlineKeeps ==
  ASSUME RuntimeInv, PassDeadline
  PROVE  RuntimeInv'
  <1>1. /\ scheduler' = CancelPending(scheduler)
        /\ stopped' = TRUE /\ failed' = TRUE
        /\ written' = {} /\ reshaped' = FALSE
        /\ UNCHANGED <<world, bodies, unchecked, dirty, inFlight, late>>
    BY DEF PassDeadline, static
  <1>2. CancelPending(scheduler) \in Schedulers(JobRequests, Answers)
    BY StaticTypes DEF CancelPending, Schedulers
  <1>3. RuntimeTypeOK'
    BY <1>1, <1>2 DEF RuntimeInv, RuntimeTypeOK
  <1>4. DirtyDomainsHaveSeeds' /\ JobInv'
    BY <1>1 DEF DirtyDomainsHaveSeeds, Incomplete, JobInv
  <1> QED
    BY <1>3, <1>4 DEF RuntimeInv

LEMMA IdleKeeps ==
  ASSUME RuntimeInv, late' \in BOOLEAN,
         UNCHANGED <<static, dirty, inFlight, stopped, failed, snapshot, scheduler>>
  PROVE  RuntimeInv'
  <1>1. UNCHANGED <<world, bodies, unchecked, dirty, inFlight, stopped, failed, written,
                    reshaped, scheduler>>
    BY DEF static, snapshot
  <1>2. RuntimeTypeOK'
    BY <1>1 DEF RuntimeInv, RuntimeTypeOK
  <1>3. DirtyDomainsHaveSeeds'
    BY <1>1 DEF RuntimeInv, DirtyDomainsHaveSeeds, Incomplete
  <1>4. \A rw : (Snapshot(rw)' <=> Snapshot(rw)) /\ RequestOn(rw)' = RequestOn(rw)
    BY <1>1 DEF Snapshot, RequestOn
  <1>5. JobInv'
    BY <1>1, <1>4 DEF RuntimeInv, JobInv
  <1> QED
    BY <1>2, <1>3, <1>5 DEF RuntimeInv

LEMMA RuntimeBegins ==
  ASSUME RuntimeInit
  PROVE  RuntimeInv
  <1>1. NoDirt \in Dirts
    BY DEF NoDirt, Dirts
  <1>2. InitialSeeds \in Seq(Voxels) /\ InitialWorld \subseteq Voxels
    BY RuntimeAssumption
  <1>3. Grown(dirty, NoDirt, Elements(InitialSeeds))
    BY <1>1, <1>2, EnqueuedAllGrows DEF RuntimeInit
  <1>4. ToSet(InitialSeeds) = Elements(InitialSeeds)
    BY <1>2 DEF ToSet, Elements
  <1>5. unchecked \subseteq Eligible(world)
    BY <1>2, DomainOfVoxel DEF RuntimeInit
  <1>6. scheduler \in Schedulers(JobRequests, Answers) /\ Empty(scheduler) /\ ~scheduler.cancelled
    BY OneAtMost DEF RuntimeInit, NewScheduler, Schedulers, Empty
  <1>7. RuntimeTypeOK
    <2>1. world \subseteq Voxels /\ bodies \in 0..MaxActiveBodies
      BY <1>2, RuntimeAssumption DEF RuntimeInit
    <2>2. dirty \in Dirts
      BY <1>3 DEF Grown
    <2>3. inFlight \in AtMostOne(Voxels)
      BY OneAtMost DEF RuntimeInit
    <2>4. /\ late \in BOOLEAN /\ reshaped \in BOOLEAN /\ stopped \in BOOLEAN
          /\ failed \in BOOLEAN /\ written \subseteq ChunksOf(Voxels)
      BY DEF RuntimeInit
    <2> QED
      BY <1>5, <1>6, <2>1, <2>2, <2>3, <2>4 DEF RuntimeTypeOK, Dirts
  <1>8. DirtyDomainsHaveSeeds
    <2>1. SUFFICES ASSUME ~dirty.overflowed, NEW v \in unchecked
                   PROVE  FreePart(world, v) \cap (dirty.pending \cup ToSet(inFlight)) # {}
      BY DEF DirtyDomainsHaveSeeds, Incomplete
    <2>2. Elements(InitialSeeds) \subseteq dirty.pending
      BY <1>3, <2>1 DEF Grown
    <2>3. PICK s \in Eligible(world) : s \in dirty.pending /\ v \in FreePart(world, s)
      BY <1>4, <2>1, <2>2 DEF RuntimeInit
    <2>4. world \subseteq Voxels
      BY <1>7 DEF RuntimeTypeOK
    <2>5. FreePart(world, v) = FreePart(world, s) /\ s \in FreePart(world, s)
      BY <2>3, <2>4, DomainOfVoxel, DomainFromWithin
    <2> QED
      BY <2>3, <2>5
  <1>9. JobInv
    BY <1>6 DEF RuntimeInit, JobInv
  <1> QED
    BY <1>7, <1>8, <1>9 DEF RuntimeInv

LEMMA RuntimeGoesOn ==
  ASSUME RuntimeInv, [RuntimeNext]_RuntimeVars
  PROVE  RuntimeInv'
  <1>1. CASE WorldCommand
    BY <1>1, BlastKeeps, RollBackKeeps, BuildKeeps DEF WorldCommand
  <1>2. CASE Worker
    BY <1>2, WorkerKeeps
  <1>3. CASE Tick
    <2>1. CASE StartJob
      BY <2>1, StartJobKeeps
    <2>2. CASE /\ Waiting /\ HasAnswer(scheduler)
               /\ \/ RetryStale(Answer(scheduler)) \/ RecordError(Answer(scheduler))
                  \/ Assess(Answer(scheduler)) \/ Collapse(Answer(scheduler))
      BY <2>2, RetryStaleKeeps, RecordErrorKeeps, AssessKeeps, CollapseKeeps
    <2>3. CASE LoseWorker
      BY <2>3, LoseWorkerKeeps
    <2>4. CASE PassDeadline
      BY <2>4, PassDeadlineKeeps
    <2> QED
      BY <1>3, <2>1, <2>2, <2>3, <2>4 DEF Tick
  <1>4. CASE Elapse
    <2>1. late' \in BOOLEAN
      BY <1>4 DEF Elapse
    <2> QED
      BY <1>4, <2>1, IdleKeeps DEF Elapse
  <1>5. CASE UNCHANGED RuntimeVars
    <2>1. late' \in BOOLEAN
      BY <1>5 DEF RuntimeVars, runtime, RuntimeInv, RuntimeTypeOK
    <2> QED
      BY <1>5, <2>1, IdleKeeps DEF RuntimeVars, static, runtime
  <1> QED
    BY <1>1, <1>2, <1>3, <1>4, <1>5 DEF RuntimeNext

-----------------------------------------------------------------------------
(* The set that suppresses duplicates and the queue agree.                 *)

Once(d) ==
  /\ d \in Dirts
  /\ Elements(d.queue) = d.pending
  /\ Distinct(d.queue)
  /\ Len(d.queue) <= MaxPendingSeeds

LEMMA EnqueuedOnce ==
  ASSUME NEW d, Once(d), NEW seed \in Voxels
  PROVE  Once(Enqueued(d, seed))
  <1>1. d.queue \in Seq(Voxels) /\ Len(d.queue) \in Nat /\ MaxPendingSeeds \in Nat
    BY RuntimeAssumption DEF Once, Dirts
  <1>2. CASE seed \in d.pending
    BY <1>2 DEF Enqueued
  <1>3. CASE seed \notin d.pending /\ Len(d.queue) = MaxPendingSeeds
    <2> DEFINE e == [d EXCEPT !.overflowed = TRUE]
    <2>1. e \in Dirts /\ e.queue = d.queue /\ e.pending = d.pending
      BY DEF Once, Dirts
    <2> HIDE DEF e
    <2>2. Once(e)
      BY <2>1 DEF Once
    <2> QED
      BY <1>3, <2>2 DEF Enqueued, e
  <1>4. CASE seed \notin d.pending /\ Len(d.queue) # MaxPendingSeeds
    <2> DEFINE q == Append(d.queue, seed)
               e == [d EXCEPT !.queue = Append(@, seed), !.pending = @ \cup {seed}]
    <2>1. /\ q \in Seq(Voxels) /\ Len(q) = Len(d.queue) + 1
          /\ \A i \in 1..Len(d.queue) : q[i] = d.queue[i]
          /\ q[Len(d.queue) + 1] = seed
      BY <1>1, AppendProperties
    <2>2. e \in Dirts /\ e.queue = q /\ e.pending = d.pending \cup {seed}
      BY <2>1 DEF Once, Dirts
    <2>3. Distinct(q)
      <3>1. \A i \in 1..Len(d.queue) : d.queue[i] # seed
        BY <1>4 DEF Once, Elements
      <3> QED
        BY <1>1, <3>1, DistinctAppended DEF Once
    <2> HIDE DEF q, e
    <2>4. Elements(q) = Elements(d.queue) \cup {seed}
      <3>1. \A i \in 1..Len(q) : i \in 1..Len(d.queue) \/ i = Len(d.queue) + 1
        BY <1>1, <2>1
      <3>2. Len(d.queue) + 1 \in 1..Len(q) /\ \A i \in 1..Len(d.queue) : i \in 1..Len(q)
        BY <1>1, <2>1
      <3> QED
        BY <2>1, <3>1, <3>2 DEF Elements
    <2>5. Len(q) <= MaxPendingSeeds
      BY <1>1, <1>4, <2>1 DEF Once
    <2>6. Once(e)
      BY <2>2, <2>3, <2>4, <2>5 DEF Once
    <2> QED
      BY <1>4, <2>6 DEF Enqueued, e
  <1> QED
    BY <1>2, <1>3, <1>4

LEMMA EnqueuedAllOnce ==
  ASSUME NEW d, Once(d), NEW seeds \in Seq(Voxels)
  PROVE  Once(EnqueuedAll(d, seeds))
  <1> DEFINE N == Len(seeds)
  <1>1. N \in Nat /\ N \in 0..N
    OBVIOUS
  <1>2. PICK f : Queuing(f, N, d, seeds) /\ EnqueuedAll(d, seeds) = f[N]
    BY EnqueuedAllQueues
  <1>3. \A n \in 1..N : seeds[n] \in Voxels
    BY ElementOfSeq
  <1> HIDE DEF N
  <1> DEFINE Bad == {n \in 0..N : ~Once(f[n])}
  <1>4. Bad = {}
    <2>1. SUFFICES ASSUME Bad # {} PROVE FALSE
      OBVIOUS
    <2>2. Bad \subseteq Nat
      BY <1>1
    <2> HIDE DEF Bad
    <2>3. PICK k \in Bad : \A j \in Bad : k <= j
      BY <2>1, <2>2, LeastOfNaturals
    <2>4. k \in 0..N /\ ~Once(f[k])
      BY <2>3 DEF Bad
    <2>5. k # 0
      BY <1>2, <2>4 DEF Queuing
    <2>6. k \in 1..N /\ k - 1 \in 0..N /\ ~(k <= k - 1)
      BY <1>1, <2>4, <2>5
    <2>7. Once(f[k - 1])
      BY <2>3, <2>6 DEF Bad
    <2>8. f[k] = Enqueued(f[k - 1], seeds[k]) /\ seeds[k] \in Voxels
      BY <1>2, <1>3, <2>6 DEF Queuing
    <2> QED
      BY <2>4, <2>7, <2>8, EnqueuedOnce
  <1> QED
    BY <1>1, <1>2, <1>4

LEMMA ObservedOnce ==
  ASSUME NEW d, Once(d), NEW w, NEW changed, changed \subseteq Voxels
  PROVE  Once(Observed(d, w, changed))
  <1>1. Visited(changed) \in Seq(Voxels)
    BY VisitedHoldsAll
  <1>2. Kept(Visited(changed), Eligible(w)) \in Seq(Voxels)
    BY <1>1, KeptIsPart DEF IsPart
  <1> QED
    BY <1>2, EnqueuedAllOnce DEF Observed

LEMMA CoalescedOnce ==
  ASSUME NEW d, Once(d), NEW domain
  PROVE  Once(Coalesced(d, domain))
  <1> DEFINE q == Kept(d.queue, Voxels \ domain)
             e == Coalesced(d, domain)
  <1>1. d \in Dirts /\ d.queue \in Seq(Voxels) /\ Len(d.queue) \in Nat
        /\ MaxPendingSeeds \in Nat
    BY RuntimeAssumption DEF Once, Dirts
  <1>2. IsPart(q, Len(d.queue), Voxels, d.queue, Voxels \ domain)
    BY <1>1, KeptIsPart
  <1>3. Distinct(q)
    BY <1>1, KeptDistinct DEF Once
  <1>4. e \in Dirts /\ e.pending = d.pending \ domain /\ e.queue = q
    BY <1>1, CoalescedShrinks DEF Coalesced, Dirts
  <1> HIDE DEF q, e
  <1>5. q \in Seq(Voxels) /\ Len(q) \in Nat /\ Len(q) <= MaxPendingSeeds
    BY <1>1, <1>2 DEF IsPart, Once
  <1>6. \A j \in 1..Len(d.queue) : d.queue[j] \in Voxels
    BY <1>1, ElementOfSeq
  <1>7. Elements(q) = Elements(d.queue) \ domain
    <2>1. Elements(q) \subseteq Elements(d.queue) \ domain
      BY <1>2 DEF IsPart, Elements
    <2>2. ASSUME NEW j \in 1..Len(d.queue), d.queue[j] \notin domain
          PROVE  \E i \in 1..Len(q) : q[i] = d.queue[j]
      BY <1>2, <1>6, <2>2 DEF IsPart
    <2>3. Elements(d.queue) \ domain \subseteq Elements(q)
      BY <2>2 DEF Elements
    <2> QED
      BY <2>1, <2>3
  <1> QED
    BY <1>3, <1>4, <1>5, <1>7 DEF Once, e

LEMMA PoppedOnce ==
  ASSUME NEW d, Once(d), NEW n \in 0..Len(d.queue)
  PROVE  Once(Popped(d, n))
  <1> DEFINE q == SubSeq(d.queue, n + 1, Len(d.queue))
             e == Popped(d, n)
  <1>1. d \in Dirts /\ d.queue \in Seq(Voxels) /\ Len(d.queue) \in Nat /\ n \in Nat
        /\ MaxPendingSeeds \in Nat /\ n <= Len(d.queue)
    BY RuntimeAssumption DEF Once, Dirts
  <1>2. /\ q \in Seq(Voxels) /\ Len(q) = Len(d.queue) - n
        /\ \A i \in 1..Len(q) : q[i] = d.queue[n + i]
    <2>1. q \in Seq(Voxels) /\ Len(q) = Len(d.queue) - n
      BY <1>1, SubSeqProperties
    <2>2. \A i \in 1..Len(d.queue) - n : q[i] = d.queue[n + 1 + i - 1]
      BY <1>1, SubSeqProperties
    <2>3. \A i \in 1..Len(d.queue) - n : n + 1 + i - 1 = n + i
      BY <1>1
    <2> QED
      BY <2>1, <2>2, <2>3
  <1>3. e \in Dirts /\ e.pending = d.pending \ {d.queue[i] : i \in 1..n} /\ e.queue = q
    BY <1>1, PoppedShrinks DEF Popped, Dirts
  <1> HIDE DEF q, e
  <1>4. \A i \in 1..Len(q) : n + i \in 1..Len(d.queue) /\ n + i \notin 1..n
    BY <1>1, <1>2
  <1>5. Distinct(q)
    <2>1. SUFFICES ASSUME NEW i \in 1..Len(q), NEW j \in 1..Len(q), q[i] = q[j]
                   PROVE  i = j
      BY DEF Distinct
    <2>2. q[i] = d.queue[n + i] /\ q[j] = d.queue[n + j]
      BY <1>2
    <2>3. n + i \in 1..Len(d.queue) /\ n + j \in 1..Len(d.queue)
      BY <1>4
    <2>4. Distinct(d.queue)
      BY DEF Once
    <2>5. n + i = n + j
      BY ONLY <2>1, <2>2, <2>3, <2>4 DEF Distinct
    <2> QED
      BY <1>1, <2>5
  <1>6. \A i \in 1..Len(d.queue) : i \in 1..n \/ (i - n \in 1..Len(q) /\ n + (i - n) = i)
    BY <1>1, <1>2
  <1>7. 1..n \subseteq 1..Len(d.queue)
    BY <1>1
  <1>8. Elements(q) = Elements(d.queue) \ {d.queue[i] : i \in 1..n}
    <2>1. ASSUME NEW i \in 1..Len(q)
          PROVE  q[i] \in Elements(d.queue) /\ q[i] \notin {d.queue[m] : m \in 1..n}
      <3>1. q[i] = d.queue[n + i] /\ n + i \in 1..Len(d.queue) /\ n + i \notin 1..n
        BY <1>2, <1>4
      <3>2. \A m \in 1..n : d.queue[m] # d.queue[n + i]
        BY <1>7, <3>1 DEF Once, Distinct
      <3> QED
        BY <3>1, <3>2 DEF Elements
    <2>2. ASSUME NEW i \in 1..Len(d.queue), d.queue[i] \notin {d.queue[m] : m \in 1..n}
          PROVE  d.queue[i] \in Elements(q)
      <3>1. i \notin 1..n
        BY <2>2
      <3>2. i - n \in 1..Len(q) /\ n + (i - n) = i
        BY <1>6, <3>1
      <3>3. q[i - n] = d.queue[i]
        BY <1>2, <3>2
      <3> QED
        BY <3>2, <3>3 DEF Elements
    <2>3. Elements(q) \subseteq Elements(d.queue) \ {d.queue[i] : i \in 1..n}
      BY <2>1 DEF Elements
    <2>4. Elements(d.queue) \ {d.queue[i] : i \in 1..n} \subseteq Elements(q)
      BY <2>2 DEF Elements
    <2> QED
      BY <2>3, <2>4
  <1>9. Len(q) <= MaxPendingSeeds
    BY <1>1, <1>2 DEF Once
  <1> QED
    BY <1>3, <1>5, <1>8, <1>9 DEF Once, e

LEMMA NextJobOnce ==
  ASSUME NEW w, NEW d, Once(d), NEW f, NEW s, NextJob(w, d, f, s)
  PROVE  Once(dirty')
  <1> DEFINE checks == Min({MaxSeedChecks, Len(d.queue)})
             found == {i \in 1..checks : d.queue[i] \in Eligible(w)}
  <1>1. Len(d.queue) \in Nat /\ MaxSeedChecks \in Nat
    BY RuntimeAssumption DEF Once, Dirts
  <1>2. checks \in 0..Len(d.queue)
    <2>1. {MaxSeedChecks, Len(d.queue)} \subseteq Nat
      BY <1>1
    <2>2. checks \in {MaxSeedChecks, Len(d.queue)} /\ checks <= Len(d.queue)
      BY <2>1, LeastIsMin
    <2> HIDE DEF checks
    <2> QED
      BY <1>1, <2>2
  <1>3. dirty' = Popped(d, checks) \/ (found # {} /\ dirty' = Popped(d, Min(found)))
    BY DEF NextJob
  <1> HIDE DEF checks
  <1>4. found # {} => Min(found) \in 0..Len(d.queue)
    <2>1. found \subseteq 0..Len(d.queue) /\ found \subseteq Nat
      BY <1>1, <1>2
    <2> HIDE DEF found
    <2> QED
      BY <2>1, LeastIsMin
  <1> QED
    BY <1>2, <1>3, <1>4, PoppedOnce

LEMMA OnceGoesOn ==
  ASSUME RuntimeInv, Once(dirty), [RuntimeNext]_RuntimeVars
  PROVE  Once(dirty')
  <1>1. CASE WorldCommand
    <2>1. CASE \E hit \in Hits : \E broken \in SUBSET hit : Explode(hit, broken)
      <3> PICK hit \in Hits : \E broken \in SUBSET hit : Explode(hit, broken)
        BY <2>1
      <3>1. PICK broken \in SUBSET hit : Explode(hit, broken)
        OBVIOUS
      <3> DEFINE fallen == UNION Islands(world \ broken, broken)
                 after == world \ (broken \cup fallen)
      <3>2. dirty' = Observed(dirty, after, hit \cup fallen)
        BY <3>1 DEF Explode, ChangesTo
      <3>3. hit \subseteq Voxels /\ world \ broken \subseteq Voxels
        BY DEF Hits, RuntimeInv, RuntimeTypeOK
      <3>4. hit \cup fallen \subseteq Voxels
        BY <3>3, IslandsAreVoxels
      <3> HIDE DEF fallen, after
      <3> QED
        BY <3>2, <3>4, ObservedOnce
    <2>2. CASE \E hit \in Hits : \E broken \in SUBSET hit : RollBack(hit, broken)
      BY <2>2 DEF RollBack, runtime
    <2>3. CASE \E v \in Voxels : Build(v)
      <3>1. PICK v \in Voxels : Build(v)
        BY <2>3
      <3>2. dirty' = Observed(dirty, world \cup {v}, {v})
        BY <3>1 DEF Build, ChangesTo
      <3> QED
        BY <3>2, ObservedOnce
    <2> QED
      BY <1>1, <2>1, <2>2, <2>3 DEF WorldCommand
  <1>2. CASE Worker
    BY <1>2 DEF Worker, Receive, Finish, GiveUp, Panic, WorkerStep, runtime
  <1>3. CASE StartJob
    BY <1>3, NextJobOnce DEF StartJob
  <1>4. CASE Waiting /\ HasAnswer(scheduler) /\ RetryStale(Answer(scheduler))
    <2>1. Head(inFlight) \in Voxels
      BY <1>4, AnswerFound
    <2>2. Once(Requeued(dirty, Head(inFlight)))
      BY <2>1, EnqueuedOnce DEF Requeued
    <2> QED
      BY <1>4, <2>2, NextJobOnce DEF RetryStale
  <1>5. CASE RecordError(Answer(scheduler))
    <2> DEFINE answer == Answer(scheduler)
               d == IF answer.outcome = "cancelled" THEN dirty
                    ELSE Coalesced(dirty, answer.domain)
    <2>1. Once(d)
      BY CoalescedOnce
    <2>2. NextJob(world, d, TRUE, Drained(scheduler))
      BY <1>5 DEF RecordError
    <2> HIDE DEF d
    <2> QED
      BY <2>1, <2>2, NextJobOnce
  <1>6. CASE Assess(Answer(scheduler))
    BY <1>6, CoalescedOnce, NextJobOnce DEF Assess
  <1>7. CASE Collapse(Answer(scheduler))
    <2> DEFINE answer == Answer(scheduler)
               fallen == UNION answer.debris
               after == world \ fallen
               d == Observed(Coalesced(dirty, answer.domain), after, fallen)
    <2>1. fallen \subseteq world /\ NextJob(after, d, failed, Drained(scheduler))
      BY <1>7 DEF Collapse
    <2>2. fallen \subseteq Voxels
      BY <2>1 DEF RuntimeInv, RuntimeTypeOK
    <2> HIDE DEF fallen, after
    <2>3. Once(d)
      BY <2>2, CoalescedOnce, ObservedOnce
    <2> HIDE DEF d
    <2> QED
      BY <2>1, <2>3, NextJobOnce
  <1>8. CASE LoseWorker
    <2>1. inFlight # <<>> /\ inFlight \in AtMostOne(Voxels)
          /\ dirty' = Requeued(dirty, Head(inFlight))
      BY <1>8 DEF LoseWorker, Waiting, RuntimeInv, RuntimeTypeOK
    <2>2. Head(inFlight) \in Voxels
      BY <2>1, OneAtMost
    <2> QED
      BY <2>1, <2>2, EnqueuedOnce DEF Requeued
  <1>9. CASE PassDeadline \/ Elapse \/ UNCHANGED RuntimeVars
    BY <1>9 DEF PassDeadline, Elapse, RuntimeVars, runtime
  <1> QED
    BY <1>1, <1>2, <1>3, <1>4, <1>5, <1>6, <1>7, <1>8, <1>9 DEF RuntimeNext, Tick

LEMMA OnceIsEachSeedOnce ==
  ASSUME Once(dirty)
  PROVE  EachSeedOnce
  <1> DEFINE q == dirty.queue
  <1>1. q \in Seq(Voxels) /\ Len(q) \in Nat /\ DOMAIN q = 1..Len(q)
    BY DEF Once, Dirts
  <1>2. ToSet(q) = dirty.pending
    BY <1>1 DEF Once, Elements, ToSet
  <1>3. q \in [1..Len(q) -> Elements(q)]
    BY <1>1 DEF Elements
  <1>4. q \in Bijection(1..Len(q), Elements(q))
    <2>1. \A a, b \in 1..Len(q) : q[a] = q[b] => a = b
      BY DEF Once, Distinct
    <2>2. \A t \in Elements(q) : \E s \in 1..Len(q) : q[s] = t
      BY DEF Elements
    <2> HIDE DEF q
    <2> QED
      BY <1>3, <2>1, <2>2, Fun_IsBij
  <1>5. Cardinality(Elements(q)) = Len(q)
    BY <1>1, <1>4, FS_CountingElements, Fun_ExistsBij
  <1> QED
    BY <1>2, <1>5 DEF Once, EachSeedOnce

(* For every bound of the queue: the set of pending seeds, in which the    *)
(* coverage above is stated, is what stands in the queue, each seed once.  *)
THEOREM PendingSeedsAreQueued == RuntimeSpec => []EachSeedOnce
  <1>1. RuntimeInit => RuntimeInv /\ Once(dirty)
    <2>1. SUFFICES ASSUME RuntimeInit PROVE Once(dirty)
      BY RuntimeBegins
    <2>2. Once(NoDirt)
      <3>1. NoDirt \in Dirts /\ NoDirt.queue = <<>> /\ NoDirt.pending = {}
        BY DEF NoDirt, Dirts
      <3>2. Elements(<<>>) = {} /\ Distinct(<<>>) /\ Len(<<>>) = 0
        BY DEF Elements, Distinct
      <3>3. MaxPendingSeeds \in Nat
        BY RuntimeAssumption
      <3> QED
        BY <3>1, <3>2, <3>3 DEF Once
    <2>3. InitialSeeds \in Seq(Voxels)
      BY RuntimeAssumption
    <2> QED
      BY <2>1, <2>2, <2>3, EnqueuedAllOnce DEF RuntimeInit
  <1>2. RuntimeInv /\ Once(dirty) /\ [RuntimeNext]_RuntimeVars => RuntimeInv' /\ Once(dirty)'
    BY RuntimeGoesOn, OnceGoesOn
  <1>3. Once(dirty) => EachSeedOnce
    BY OnceIsEachSeedOnce
  <1> QED
    BY <1>1, <1>2, <1>3, PTL DEF RuntimeSpec

-----------------------------------------------------------------------------
(* For every world, neighborhood, chunking and set of bounds: each load    *)
(* domain that blasts, builds, collapses, stale answers or coalescing left *)
(* unassessed holds a seed in the queue or in flight, or the status says   *)
(* that the coverage is incomplete (structural_runtime.rs).                *)
THEOREM NoDomainIsForgotten == RuntimeSpec => []DirtyDomainsHaveSeeds
  <1>1. RuntimeInit => RuntimeInv
    BY RuntimeBegins
  <1>2. RuntimeInv /\ [RuntimeNext]_RuntimeVars => RuntimeInv'
    BY RuntimeGoesOn
  <1>3. RuntimeInv => DirtyDomainsHaveSeeds
    BY DEF RuntimeInv
  <1> QED
    BY <1>1, <1>2, <1>3, PTL DEF RuntimeSpec

(* The runtime, its queue and the worker it feeds keep to their types.     *)
THEOREM RuntimeTyped == RuntimeSpec => []RuntimeTypeOK
  <1>1. RuntimeInit => RuntimeInv
    BY RuntimeBegins
  <1>2. RuntimeInv /\ [RuntimeNext]_RuntimeVars => RuntimeInv'
    BY RuntimeGoesOn
  <1>3. RuntimeInv => RuntimeTypeOK
    BY DEF RuntimeInv
  <1> QED
    BY <1>1, <1>2, <1>3, PTL DEF RuntimeSpec

(* One step leaves nothing hanging where nothing hung.                     *)
LEMMA SupportGoesOn ==
  ASSUME RuntimeInv, NothingFloats, [RuntimeNext]_RuntimeVars
  PROVE  NothingFloats'
  <1>1. Held(world) /\ world \subseteq Voxels
    BY HeldPieces DEF NothingFloats, RuntimeInv, RuntimeTypeOK
  <1>2. SUFFICES ASSUME world' # world PROVE Held(world')
    <2>1. CASE world' = world
      BY <2>1 DEF NothingFloats
    <2>2. CASE world' # world
      <3>1. Held(world')
        BY <1>2, <2>2
      <3>2. UnsupportedPieces(world', world') = {}
        BY <3>1, HeldPieces
      <3> QED
        BY <3>2 DEF NothingFloats
    <2> QED
      BY <2>1, <2>2
  <1>3. CASE \E hit \in Hits : \E broken \in SUBSET hit : Explode(hit, broken)
    <2> PICK hit \in Hits : \E broken \in SUBSET hit : Explode(hit, broken)
      BY <1>3
    <2>1. PICK broken \in SUBSET hit : Explode(hit, broken)
      OBVIOUS
    <2>2. world' = world \ (broken \cup UNION Islands(world \ broken, broken))
      BY <2>1 DEF Explode, ChangesTo
    <2>3. broken \subseteq world
      BY DEF Hits
    <2> QED
      BY <1>1, <2>2, <2>3, BlastLeavesHeld
  <1>4. CASE \E v \in Voxels : Build(v)
    <2>1. PICK v \in Voxels : Build(v)
      BY <1>4
    <2>2. world' = world \cup {v} /\ Neighbors[v] \cap world # {}
      BY <2>1 DEF Build, ChangesTo
    <2> QED
      BY <1>1, <2>2, BuiltIsHeld
  <1>5. CASE Waiting /\ HasAnswer(scheduler) /\ Collapse(Answer(scheduler))
    <2> DEFINE answer == Answer(scheduler)
    <2>1. /\ ~Stale(answer) /\ answer.outcome = "fails"
          /\ world' = world \ UNION answer.debris
      BY <1>5 DEF Collapse
    <2>2. PICK rw : Snapshot(rw) /\ answer \in Calculations(RequestOn(rw))
      BY <1>5, AnswerFound
    <2> HIDE DEF answer
    <2>3. /\ Head(inFlight) \in Eligible(world)
          /\ answer.domain = LoadDomain(world, Head(inFlight))
          /\ \E v \in answer.domain \ Anchors : answer.debris = Debris(answer.domain, v)
      BY <2>1, <2>2, AssessmentIsCurrent DEF RuntimeInv
    <2>4. PICK v \in LoadDomain(world, Head(inFlight)) \ Anchors :
                 answer.debris = Debris(LoadDomain(world, Head(inFlight)), v)
      BY <2>3
    <2> QED
      BY <1>1, <2>1, <2>3, <2>4, CollapseLeavesHeld
  <1> QED
    BY <1>2, <1>3, <1>4, <1>5
       DEF RuntimeNext, WorldCommand, RollBack, Worker, Receive, Finish, GiveUp, Panic, WorkerStep, Tick,
           StartJob, RetryStale, RecordError, Assess, LoseWorker, PassDeadline, Elapse,
           RuntimeVars, static

(* For every authored map in which everything is held, nothing is ever     *)
(* left hanging: neither by a blast nor by a structural failure that was   *)
(* prepared on an old snapshot (commit_structural_failure).                *)
THEOREM NothingIsLeftHanging ==
  UnsupportedPieces(InitialWorld, InitialWorld) = {} => (RuntimeSpec => []NothingFloats)
  <1>1. SUFFICES ASSUME UnsupportedPieces(InitialWorld, InitialWorld) = {}
                 PROVE  RuntimeSpec => []NothingFloats
    OBVIOUS
  <1>2. RuntimeInit => RuntimeInv /\ NothingFloats
    BY <1>1, RuntimeBegins DEF RuntimeInit, NothingFloats
  <1>3. RuntimeInv /\ NothingFloats /\ [RuntimeNext]_RuntimeVars => RuntimeInv' /\ NothingFloats'
    BY RuntimeGoesOn, SupportGoesOn
  <1> QED
    BY <1>2, <1>3, PTL DEF RuntimeSpec
=============================================================================
