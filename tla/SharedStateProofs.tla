------------------------- MODULE SharedStateProofs -------------------------
(***************************************************************************)
(* What the world is kept in, and what the threads of the server share of  *)
(* it: a page of refined cells, the storage of a world, which snapshots    *)
(* read while it is written, and the scheduler through which a worker is   *)
(* handed one.  The three share no state here.                             *)
(*                                                                         *)
(* RefinedPage, for pages of any size: whatever edits were made, the page  *)
(* is the one reduced partition of its content, its surface is the         *)
(* boundary of the solid, and the reader takes the canonical encoding of a *)
(* page and no other stream.                                               *)
(*                                                                         *)
(* GeometryWorld, for any positions, any chunks, any cells and any limits: *)
(* readers keep what they took, counters and fingerprint are those of the  *)
(* cells, and an accepted state can be saved and restored.                 *)
(*                                                                         *)
(* SchedulerUse, for every number of jobs: TypeOK, CancellationIsExact and *)
(* OneOutstandingJob are inductive together with two more facts: while a   *)
(* job is outstanding, the shared flag says whether it, and no earlier     *)
(* job, was revoked; and a worker that died left no job behind.            *)
(***************************************************************************)
EXTENDS RefinedPage, GeometryWorld, SchedulerUse, QueueProofs, FiniteSetTheorems

-----------------------------------------------------------------------------
(* Counting up.                                                            *)

(* What holds of 0 and of each number after one of which it holds.         *)
LEMMA CountsUp ==
  ASSUME NEW L \in Nat, NEW G, 0 \in G, \A n \in 1..L : n - 1 \in G => n \in G
  PROVE  \A n \in 0..L : n \in G
  <1> DEFINE Bad == {n \in 0..L : n \notin G}
  <1>1. SUFFICES ASSUME Bad # {} PROVE FALSE
    OBVIOUS
  <1>2. Bad \subseteq Nat
    OBVIOUS
  <1> HIDE DEF Bad
  <1>3. PICK m \in Bad : \A j \in Bad : m <= j
    BY <1>1, <1>2, LeastOfNaturals
  <1>4. m \in 0..L /\ m \notin G
    BY <1>3 DEF Bad
  <1>5. m \in 1..L
    BY <1>4
  <1>6. m - 1 \in Bad => m <= m - 1
    BY <1>3
  <1>7. m - 1 \in G
    BY <1>5, <1>6 DEF Bad
  <1> QED
    BY <1>4, <1>5, <1>7

(* A recursion over the numbers up to L has a solution.                    *)
Solves(f, V, L, base, step) ==
  f \in [0..L -> V] /\ f[0] = base /\ \A n \in 1..L : f[n] = step[<<n, f[n - 1]>>]

LEMMA FoldExists ==
  ASSUME NEW V, NEW L \in Nat, NEW base \in V, NEW step \in [(1..L) \X V -> V]
  PROVE  \E f : Solves(f, V, L, base, step)
  <1> DEFINE Good(m) ==
               \E f \in [0..m -> V] : f[0] = base /\ \A n \in 1..m : f[n] = step[<<n, f[n - 1]>>]
             G == {m \in 0..L : Good(m)}
  <1>1. Good(0)
    <2> DEFINE f == [n \in 0..0 |-> base]
    <2>1. f \in [0..0 -> V] /\ f[0] = base /\ 1..0 = {}
      OBVIOUS
    <2> HIDE DEF f
    <2> QED
      BY <2>1
  <1>2. ASSUME NEW m \in 1..L, Good(m - 1) PROVE Good(m)
    <2>1. PICK f \in [0..m - 1 -> V] :
                 f[0] = base /\ \A n \in 1..m - 1 : f[n] = step[<<n, f[n - 1]>>]
      BY <1>2
    <2> DEFINE g == [n \in 0..m |-> IF n = m THEN step[<<m, f[m - 1]>>] ELSE f[n]]
    <2>2. f[m - 1] \in V
      BY <2>1
    <2>3. step[<<m, f[m - 1]>>] \in V
      BY <2>2
    <2>4. g \in [0..m -> V]
      BY <2>1, <2>3
    <2>5. g[0] = base /\ g[m] = step[<<m, f[m - 1]>>] /\ \A n \in 0..m - 1 : g[n] = f[n]
      BY <2>1
    <2> HIDE DEF g
    <2>6. ASSUME NEW n \in 1..m PROVE g[n] = step[<<n, g[n - 1]>>]
      <3>1. CASE n = m
        BY <2>5, <3>1
      <3>2. CASE n # m
        BY <2>1, <2>5, <3>2
      <3> QED
        BY <3>1, <3>2
    <2> QED
      BY <2>4, <2>5, <2>6
  <1> HIDE DEF Good
  <1>3. 0 \in G /\ \A m \in 1..L : m - 1 \in G => m \in G
    BY <1>1, <1>2
  <1> HIDE DEF G
  <1>4. \A m \in 0..L : m \in G
    BY <1>3, CountsUp
  <1> QED
    BY <1>4 DEF Good, G, Solves

(* One element more.                                                       *)
LEMMA AppendIs ==
  ASSUME NEW S, NEW s \in Seq(S), NEW x \in S
  PROVE  /\ Append(s, x) \in Seq(S) /\ Len(s) \in Nat /\ Len(Append(s, x)) = Len(s) + 1
         /\ DOMAIN s = 1..Len(s) /\ DOMAIN Append(s, x) = 1..Len(s) + 1
         /\ \A i \in 1..Len(s) : Append(s, x)[i] = s[i]
         /\ Append(s, x)[Len(s) + 1] = x
         /\ Append(s, x) # <<>>
  OBVIOUS

-----------------------------------------------------------------------------
(* Partitions.                                                             *)

Item(W) == [to : Nat, what : W]

LEMMA ItemsAre ==
  ASSUME NEW W, NEW items \in Seq(Item(W))
  PROVE  /\ Len(items) \in Nat /\ DOMAIN items = 1..Len(items)
         /\ \A n \in 1..Len(items) :
              items[n].to \in Nat /\ items[n].what \in W /\ StartAt(items, n) \in Nat
         /\ EndOf(items) = IF Len(items) = 0 THEN 0 ELSE items[Len(items)].to
         /\ EndOf(items) \in Nat
  <1>1. Len(items) \in Nat /\ DOMAIN items = 1..Len(items)
    OBVIOUS
  <1>2. ASSUME NEW n \in 1..Len(items) PROVE items[n].to \in Nat /\ items[n].what \in W
    <2>1. items[n] \in Item(W)
      BY <1>1
    <2> QED
      BY <2>1 DEF Item
  <1>3. ASSUME NEW n \in 1..Len(items) PROVE StartAt(items, n) \in Nat
    BY <1>1, <1>2 DEF StartAt
  <1>4. EndOf(items) = IF Len(items) = 0 THEN 0 ELSE items[Len(items)].to
    BY <1>1 DEF EndOf, Last
  <1>5. EndOf(items) \in Nat
    BY <1>1, <1>2, <1>4
  <1> QED
    BY <1>1, <1>2, <1>3, <1>4, <1>5

LEMMA OrderedEnds ==
  ASSUME NEW W, NEW items \in Seq(Item(W)),
         \A i \in DOMAIN items : StartAt(items, i) < items[i].to,
         NEW i \in DOMAIN items
  PROVE  \A j \in i + 1..Len(items) : items[i].to <= StartAt(items, j)
  <1> DEFINE L == Len(items)
             G == {n \in 0..L : n > i => items[i].to <= StartAt(items, n)}
  <1>1. L \in Nat /\ DOMAIN items = 1..L /\ \A n \in 1..L : items[n].to \in Nat
    BY ItemsAre
  <1>2. 0 \in G
    BY <1>1
  <1>3. ASSUME NEW n \in 1..L, n - 1 \in G PROVE n \in G
    <2>1. CASE n > i
      <3>1. StartAt(items, n) = items[n - 1].to
        BY <1>1, <2>1 DEF StartAt
      <3>2. CASE n - 1 = i
        BY <1>1, <3>1, <3>2
      <3>3. CASE n - 1 > i
        <4>1. StartAt(items, n - 1) < items[n - 1].to /\ items[i].to <= StartAt(items, n - 1)
          BY <1>1, <1>3, <3>3
        <4>2. StartAt(items, n - 1) \in Nat
          BY <1>1, <3>3 DEF StartAt
        <4> QED
          BY <1>1, <3>1, <4>1, <4>2
      <3> QED
        BY <2>1, <3>2, <3>3
    <2> QED
      BY <2>1
  <1> HIDE DEF L, G
  <1>4. \A n \in 0..L : n \in G
    BY <1>1, <1>2, <1>3, CountsUp
  <1> QED
    BY <1>1, <1>4 DEF G, L

(* Every coordinate up to the end is in one item.                          *)
Covers(items, i, x) == i \in DOMAIN items /\ StartAt(items, i) <= x /\ x < items[i].to

LEMMA ItemAt ==
  ASSUME NEW W, NEW items \in Seq(Item(W)), NEW e, IsReduced(items, e), NEW x \in Nat, x < e
  PROVE  \E i \in DOMAIN items : Covers(items, i, x)
  <1> DEFINE L == Len(items)
             G == {n \in 0..L : n # 0 /\ x < items[n].to => \E i \in DOMAIN items : Covers(items, i, x)}
  <1>1. L \in Nat /\ DOMAIN items = 1..L /\ \A n \in 1..L : items[n].to \in Nat
    BY ItemsAre
  <1>2. L # 0 /\ e = items[L].to
    BY <1>1, ItemsAre DEF IsReduced
  <1>3. 0 \in G
    BY <1>1
  <1>4. ASSUME NEW n \in 1..L, n - 1 \in G PROVE n \in G
    <2>1. SUFFICES ASSUME x < items[n].to PROVE \E i \in DOMAIN items : Covers(items, i, x)
      BY <1>1
    <2>2. CASE StartAt(items, n) <= x
      BY <1>1, <2>1, <2>2 DEF Covers
    <2>3. CASE n = 1
      BY <1>1, <2>1, <2>3 DEF Covers, StartAt
    <2>4. CASE n # 1 /\ ~(StartAt(items, n) <= x)
      <3>1. StartAt(items, n) = items[n - 1].to /\ n - 1 \in 1..L
        BY <1>1, <2>4 DEF StartAt
      <3>2. x < items[n - 1].to /\ n - 1 # 0
        BY <1>1, <2>4, <3>1
      <3> QED
        BY <1>4, <3>2
    <2> QED
      BY <2>2, <2>3, <2>4
  <1> HIDE DEF G
  <1>5. \A n \in 0..L : n \in G
    BY <1>1, <1>3, <1>4, CountsUp
  <1>6. L \in G
    BY <1>1, <1>5
  <1> QED
    BY <1>2, <1>6 DEF G

LEMMA OneItemAt ==
  ASSUME NEW W, NEW items \in Seq(Item(W)), NEW e, IsReduced(items, e), NEW x \in Nat,
         NEW i, NEW j, Covers(items, i, x), Covers(items, j, x)
  PROVE  i = j
  <1>1. /\ Len(items) \in Nat /\ DOMAIN items = 1..Len(items)
        /\ \A n \in 1..Len(items) : items[n].to \in Nat /\ StartAt(items, n) \in Nat
    BY ItemsAre
  <1>2. \A a, b \in 1..Len(items) : a < b => items[a].to <= StartAt(items, b)
    <2> SUFFICES ASSUME NEW a \in 1..Len(items), NEW b \in 1..Len(items), a < b
                 PROVE  items[a].to <= StartAt(items, b)
      OBVIOUS
    <2>1. \A k \in a + 1..Len(items) : items[a].to <= StartAt(items, k)
      BY <1>1, OrderedEnds DEF IsReduced
    <2> QED
      BY <1>1, <2>1
  <1> QED
    BY <1>1, <1>2 DEF Covers

LEMMA HoldingIs ==
  ASSUME NEW W, NEW items \in Seq(Item(W)), NEW e, IsReduced(items, e), NEW x \in Nat,
         NEW i, Covers(items, i, x)
  PROVE  Holding(items, x) = items[i].what
  <1> DEFINE k == CHOOSE n \in DOMAIN items : StartAt(items, n) <= x /\ x < items[n].to
  <1>1. Covers(items, k, x)
    BY DEF Covers
  <1> HIDE DEF k
  <1>2. k = i
    BY <1>1, OneItemAt
  <1> QED
    BY <1>2 DEF Holding, k

(* What an item more does: the partition reaches on, and holds the piece   *)
(* from where it ended before.                                             *)
Grown(items, e, r, to, what) ==
  /\ IsReduced(r, to)
  /\ \A x \in Nat : x < e => Holding(r, x) = Holding(items, x)
  /\ \A x \in Nat : e <= x /\ x < to => Holding(r, x) = what
  /\ \A k \in DOMAIN r : r[k].what = what \/ \E i \in DOMAIN items : r[k].what = items[i].what

LEMMA ProlongedFits ==
  ASSUME NEW W, NEW items \in Seq(Item(W)), NEW e, IsReduced(items, e), NEW to \in Nat, e < to,
         items # <<>>
  PROVE  LET r == [items EXCEPT ![Len(items)].to = to]
         IN  r \in Seq(Item(W)) /\ Grown(items, e, r, to, Last(items).what)
  <1> DEFINE L == Len(items)
             r == [items EXCEPT ![L].to = to]
             what == Last(items).what
  <1>1. /\ L \in Nat \ {0} /\ DOMAIN items = 1..L /\ e = items[L].to /\ what = items[L].what
        /\ \A n \in 1..L : items[n].to \in Nat /\ items[n].what \in W /\ StartAt(items, n) \in Nat
    <2>1. Len(items) # 0
      OBVIOUS
    <2> QED
      BY <2>1, ItemsAre DEF IsReduced, Last
  <1>2. /\ DOMAIN r = 1..L /\ r[L] = [items[L] EXCEPT !.to = to]
        /\ \A n \in 1..L - 1 : r[n] = items[n]
    BY <1>1
  <1>3. \A n \in 1..L : items[n] \in Item(W)
    BY <1>1
  <1>4. r[L].to = to /\ r[L].what = what /\ r[L] \in Item(W)
    <2> DEFINE old == items[L]
               new == r[L]
    <2>1. old \in Item(W) /\ old.what = what /\ new = [old EXCEPT !.to = to]
      BY <1>1, <1>2, <1>3
    <2> HIDE DEF old, new, what
    <2>2. new \in Item(W) /\ new.to = to /\ new.what = old.what
      BY <2>1 DEF Item
    <2> QED
      BY <2>1, <2>2 DEF new
  <1>5. r \in Seq(Item(W)) /\ Len(r) = L
    <2>1. \A n \in 1..L : r[n] \in Item(W)
      BY <1>1, <1>2, <1>3, <1>4
    <2>2. r = [n \in 1..L |-> r[n]]
      BY <1>2
    <2> HIDE DEF r
    <2>3. r \in [1..L -> Item(W)]
      BY <2>1, <2>2
    <2> QED
      BY <1>1, <1>2, <2>3
  <1> HIDE DEF r, L, what
  <1>6. ASSUME NEW n \in 1..L PROVE StartAt(r, n) = StartAt(items, n) /\ r[n].what = items[n].what
    <2>1. CASE n = L
      <3>1. n = 1 \/ n - 1 \in 1..L - 1
        BY <1>1
      <3> QED
        BY <1>1, <1>2, <1>4, <2>1, <3>1 DEF StartAt
    <2>2. CASE n # L
      <3>1. n \in 1..L - 1 /\ (n = 1 \/ n - 1 \in 1..L - 1)
        BY <1>1, <2>2
      <3> QED
        BY <1>2, <3>1 DEF StartAt
    <2> QED
      BY <2>1, <2>2
  <1>7. IsReduced(r, to)
    <2>1. EndOf(r) = to
      BY <1>1, <1>4, <1>5, ItemsAre
    <2>2. ASSUME NEW n \in 1..L PROVE StartAt(r, n) < r[n].to
      <3>1. StartAt(items, n) < items[n].to
        BY <1>1 DEF IsReduced
      <3>2. CASE n = L
        BY <1>1, <1>4, <1>6, <3>1, <3>2
      <3>3. CASE n # L
        <4>1. r[n] = items[n]
          BY <1>1, <1>2, <3>3
        <4> QED
          BY <1>6, <3>1, <4>1
      <3> QED
        BY <3>2, <3>3
    <2>3. ASSUME NEW n \in 2..L PROVE r[n - 1].what # r[n].what
      <3>0. n \in DOMAIN items \ {1}
        BY <1>1
      <3>1. items[n - 1].what # items[n].what
        BY <3>0 DEF IsReduced
      <3>2. n - 1 \in 1..L /\ n \in 1..L
        BY <1>1
      <3> QED
        BY <1>6, <3>1, <3>2
    <2> QED
      BY <1>2, <2>1, <2>2, <2>3 DEF IsReduced
  <1>8. ASSUME NEW x \in Nat, x < e PROVE Holding(r, x) = Holding(items, x)
    <2>1. PICK i \in DOMAIN items : Covers(items, i, x)
      BY <1>8, ItemAt
    <2>2. Covers(r, i, x)
      <3>1. i \in 1..L /\ StartAt(items, i) <= x /\ x < items[i].to
        BY <1>1, <2>1 DEF Covers
      <3>2. StartAt(r, i) = StartAt(items, i)
        BY <1>6, <3>1
      <3>3. i = L \/ r[i] = items[i]
        BY <1>1, <1>2, <3>1
      <3>4. x < r[i].to
        BY <1>1, <1>4, <1>8, <3>1, <3>3
      <3> QED
        BY <1>2, <3>1, <3>2, <3>4 DEF Covers
    <2>3. Holding(items, x) = items[i].what
      BY <2>1, HoldingIs
    <2>4. Holding(r, x) = r[i].what
      BY <1>5, <1>7, <2>2, HoldingIs
    <2> QED
      BY <1>1, <1>6, <2>3, <2>4
  <1>9. ASSUME NEW x \in Nat, e <= x, x < to PROVE Holding(r, x) = what
    <2>1. Covers(r, L, x)
      <3>1. StartAt(items, L) < items[L].to
        BY <1>1 DEF IsReduced
      <3> QED
        BY <1>1, <1>2, <1>4, <1>6, <1>9, <3>1 DEF Covers
    <2>2. Holding(r, x) = r[L].what
      BY <1>5, <1>7, <2>1, HoldingIs
    <2> QED
      BY <1>4, <2>2
  <1>10. ASSUME NEW k \in DOMAIN r PROVE \E i \in DOMAIN items : r[k].what = items[i].what
    BY <1>1, <1>2, <1>6
  <1> QED
    BY <1>5, <1>7, <1>8, <1>9, <1>10 DEF Grown, r, L, what

LEMMA AppendedFits ==
  ASSUME NEW W, NEW items \in Seq(Item(W)), NEW e, IsReduced(items, e), NEW to \in Nat, e < to,
         NEW what \in W, ~(items # <<>> /\ Last(items).what = what)
  PROVE  LET r == Append(items, [to |-> to, what |-> what])
         IN  r \in Seq(Item(W)) /\ Grown(items, e, r, to, what)
  <1> DEFINE L == Len(items)
             new == [to |-> to, what |-> what]
             r == Append(items, new)
  <1>1. /\ L \in Nat /\ DOMAIN items = 1..L
        /\ e = IF L = 0 THEN 0 ELSE items[L].to
        /\ \A n \in 1..L : items[n].to \in Nat /\ items[n].what \in W /\ StartAt(items, n) \in Nat
    BY ItemsAre DEF IsReduced
  <1>2. L # 0 => items[L].what # what
    <2>1. L # 0 => items # <<>>
      OBVIOUS
    <2> QED
      BY <2>1 DEF Last
  <1>3. new \in Item(W) /\ new.to = to /\ new.what = what
    BY DEF Item
  <1> HIDE DEF new
  <1>4. r \in Seq(Item(W)) /\ Len(r) = L + 1 /\ DOMAIN r = 1..L + 1
        /\ r[L + 1] = new /\ \A n \in 1..L : r[n] = items[n]
    BY <1>3, AppendIs
  <1> HIDE DEF r
  <1>5. ASSUME NEW n \in 1..L PROVE StartAt(r, n) = StartAt(items, n)
    <2>1. n # 1 => n - 1 \in 1..L
      BY <1>1
    <2>2. n # 1 => r[n - 1] = items[n - 1]
      BY <1>4, <2>1
    <2> QED
      BY <2>2 DEF StartAt
  <1>6. StartAt(r, L + 1) = e
    BY <1>1, <1>4 DEF StartAt
  <1>7. IsReduced(r, to)
    <2>1. EndOf(r) = to
      BY <1>1, <1>3, <1>4, ItemsAre
    <2>2. ASSUME NEW n \in 1..L + 1 PROVE StartAt(r, n) < r[n].to
      <3>1. n \in 1..L => StartAt(items, n) < items[n].to
        BY <1>1 DEF IsReduced
      <3> QED
        BY <1>1, <1>3, <1>4, <1>5, <1>6, <3>1
    <2>3. ASSUME NEW n \in 2..L + 1 PROVE r[n - 1].what # r[n].what
      <3>1. n - 1 \in 1..L /\ n - 1 \in Nat
        BY <1>1
      <3>2. CASE n = L + 1
        BY <1>1, <1>2, <1>3, <1>4, <3>1, <3>2
      <3>3. CASE n # L + 1
        <4>1. n \in DOMAIN items \ {1} /\ n \in 1..L
          BY <1>1, <3>3
        <4>2. items[n - 1].what # items[n].what
          BY <4>1 DEF IsReduced
        <4>3. r[n - 1] = items[n - 1] /\ r[n] = items[n]
          BY <1>4, <3>1, <4>1
        <4> QED
          BY <4>2, <4>3
      <3> QED
        BY <3>2, <3>3
    <2> QED
      BY <1>4, <2>1, <2>2, <2>3 DEF IsReduced
  <1>8. ASSUME NEW x \in Nat, x < e PROVE Holding(r, x) = Holding(items, x)
    <2>1. PICK i \in DOMAIN items : Covers(items, i, x)
      BY <1>8, ItemAt
    <2>2. Covers(r, i, x)
      BY <1>1, <1>4, <1>5, <2>1 DEF Covers
    <2>3. Holding(items, x) = items[i].what
      BY <2>1, HoldingIs
    <2>4. Holding(r, x) = r[i].what
      BY <1>4, <1>7, <2>2, HoldingIs
    <2> QED
      BY <1>1, <1>4, <2>3, <2>4
  <1>9. ASSUME NEW x \in Nat, e <= x, x < to PROVE Holding(r, x) = what
    <2>1. Covers(r, L + 1, x)
      BY <1>1, <1>3, <1>4, <1>6, <1>9 DEF Covers
    <2>2. Holding(r, x) = r[L + 1].what
      BY <1>4, <1>7, <2>1, HoldingIs
    <2> QED
      BY <1>3, <1>4, <2>2
  <1>10. ASSUME NEW k \in DOMAIN r
         PROVE  r[k].what = what \/ \E i \in DOMAIN items : r[k].what = items[i].what
    BY <1>1, <1>3, <1>4
  <1> QED
    BY <1>4, <1>7, <1>8, <1>9, <1>10 DEF Grown, r, L, new

LEMMA ExtendedFits ==
  ASSUME NEW W, NEW items \in Seq(Item(W)), NEW e, IsReduced(items, e), NEW to \in Nat,
         NEW what \in W
  PROVE  LET r == Extended(items, to, what)
         IN  r \in Seq(Item(W)) /\ Grown(items, e, r, IF to <= e THEN e ELSE to, what)
  <1>1. e \in Nat /\ EndOf(items) = e
    BY ItemsAre DEF IsReduced
  <1>2. CASE to <= e
    BY <1>1, <1>2 DEF Extended, Grown
  <1>3. CASE ~(to <= e)
    <2>1. Extended(items, to, what) = Joined(items, to, what) /\ e < to
      BY <1>1, <1>3 DEF Extended
    <2> DEFINE r == Extended(items, to, what)
    <2> SUFFICES r \in Seq(Item(W)) /\ Grown(items, e, r, to, what)
      BY <1>3
    <2>2. CASE items # <<>> /\ Last(items).what = what
      <3>1. r = [items EXCEPT ![Len(items)].to = to]
        BY <2>1, <2>2 DEF Joined
      <3> DEFINE q == [items EXCEPT ![Len(items)].to = to]
      <3>2. q \in Seq(Item(W)) /\ Grown(items, e, q, to, Last(items).what)
        BY <2>1, <2>2, ProlongedFits
      <3> HIDE DEF q
      <3> QED
        BY <2>2, <3>1, <3>2 DEF q
    <2>3. CASE ~(items # <<>> /\ Last(items).what = what)
      <3>1. r = Append(items, [to |-> to, what |-> what])
        BY <2>1, <2>3 DEF Joined
      <3> QED
        BY <2>1, <2>3, <3>1, AppendedFits
    <2> QED
      BY <2>2, <2>3
  <1> QED
    BY <1>2, <1>3

LEMMA GrowsTwice ==
  ASSUME NEW items, NEW e \in Nat, NEW r, NEW m \in Nat, NEW q, NEW to \in Nat, NEW u, NEW v,
         e <= m, m <= to, Grown(items, e, r, m, u), Grown(r, m, q, to, v)
  PROVE  /\ IsReduced(q, to)
         /\ \A x \in Nat : x < e => Holding(q, x) = Holding(items, x)
         /\ \A x \in Nat : e <= x /\ x < m => Holding(q, x) = u
         /\ \A x \in Nat : m <= x /\ x < to => Holding(q, x) = v
         /\ \A k \in DOMAIN q : \/ q[k].what \in {u, v}
                                \/ \E i \in DOMAIN items : q[k].what = items[i].what
  BY DEF Grown

Inside(box, a, x) == box.low[a] <= x /\ x < box.high[a]

LEMMA DividedFits ==
  ASSUME NEW W, NEW items \in Seq(Item(W)), NEW e, IsReduced(items, e),
         NEW item \in Item(W), e < item.to, NEW part \in W,
         NEW box, NEW a, box.low[a] \in Nat, box.high[a] \in Nat, box.low[a] < box.high[a]
  PROVE  LET r == Divided(items, item, box, a, part)
         IN  /\ r \in Seq(Item(W)) /\ IsReduced(r, item.to)
             /\ \A x \in Nat : x < e => Holding(r, x) = Holding(items, x)
             /\ \A x \in Nat : e <= x /\ x < item.to =>
                  Holding(r, x) = IF Inside(box, a, x) THEN part ELSE item.what
             /\ \A k \in DOMAIN r : \/ r[k].what \in {part, item.what}
                                    \/ \E i \in DOMAIN items : r[k].what = items[i].what
  <1> DEFINE to == item.to
             old == item.what
             low == Lesser(box.low[a], to)
             high == Lesser(box.high[a], to)
             e1 == IF low <= e THEN e ELSE low
             e2 == IF high <= e1 THEN e1 ELSE high
             r1 == Extended(items, low, old)
             r2 == Extended(r1, high, part)
             r3 == Extended(r2, to, old)
  <1>1. e \in Nat /\ to \in Nat /\ old \in W
    BY ItemsAre DEF IsReduced, Item
  <1>2. low \in Nat /\ high \in Nat /\ e1 \in Nat /\ e2 \in Nat
    BY <1>1 DEF Lesser
  <1>3. e <= e1 /\ e1 <= e2 /\ e2 <= to
    BY <1>1, <1>2 DEF Lesser
  <1>4. ASSUME NEW x \in Nat
        PROVE  /\ e <= x /\ x < e1 => ~Inside(box, a, x)
               /\ e1 <= x /\ x < e2 => Inside(box, a, x)
               /\ e2 <= x /\ x < to => ~Inside(box, a, x)
    <2> DEFINE bl == box.low[a]
               bh == box.high[a]
    <2>1. bl \in Nat /\ bh \in Nat /\ bl < bh /\ (Inside(box, a, x) <=> bl <= x /\ x < bh)
      BY DEF Inside
    <2>2. /\ low = IF bl < to THEN bl ELSE to
          /\ high = IF bh < to THEN bh ELSE to
          /\ e1 = IF low <= e THEN e ELSE low
          /\ e2 = IF high <= e1 THEN e1 ELSE high
      BY DEF Lesser
    <2> HIDE DEF bl, bh, low, high, e1, e2, to
    <2> QED
      BY <1>1, <1>2, <2>1, <2>2
  <1> HIDE DEF to, old, low, high, e1, e2
  <1>5. r1 \in Seq(Item(W)) /\ Grown(items, e, r1, e1, old)
    BY <1>1, <1>2, ExtendedFits DEF e1
  <1> HIDE DEF r1
  <1>6. r2 \in Seq(Item(W)) /\ Grown(r1, e1, r2, e2, part)
    <2>1. IsReduced(r1, e1)
      BY <1>5 DEF Grown
    <2> QED
      BY <1>2, <1>5, <2>1, ExtendedFits DEF e2
  <1> HIDE DEF r2
  <1>7. r3 \in Seq(Item(W)) /\ Grown(r2, e2, r3, IF to <= e2 THEN e2 ELSE to, old)
    <2>1. IsReduced(r2, e2)
      BY <1>6 DEF Grown
    <2> QED
      BY <1>1, <1>6, <2>1, ExtendedFits
  <1>8. Grown(r2, e2, r3, to, old)
    BY <1>1, <1>2, <1>3, <1>7
  <1>9. r3 = Divided(items, item, box, a, part)
    BY DEF Divided, r1, r2, low, high, to, old
  <1> HIDE DEF r3
  <1>10. IsReduced(r3, to)
    BY <1>8 DEF Grown
  <1>11. ASSUME NEW x \in Nat, x < e PROVE Holding(r3, x) = Holding(items, x)
    BY <1>1, <1>2, <1>3, <1>5, <1>6, <1>8, <1>11 DEF Grown
  <1>12. ASSUME NEW x \in Nat, e <= x, x < to
         PROVE  Holding(r3, x) = IF Inside(box, a, x) THEN part ELSE old
    <2>1. CASE x < e1
      <3>1. Holding(r3, x) = old
        BY <1>1, <1>2, <1>3, <1>5, <1>6, <1>8, <1>12, <2>1 DEF Grown
      <3> QED
        BY <1>4, <1>12, <2>1, <3>1
    <2>2. CASE e1 <= x /\ x < e2
      <3>1. Holding(r3, x) = part
        BY <1>1, <1>2, <1>3, <1>6, <1>8, <1>12, <2>2 DEF Grown
      <3> QED
        BY <1>4, <2>2, <3>1
    <2>3. CASE e2 <= x
      <3>1. Holding(r3, x) = old
        BY <1>8, <1>12, <2>3 DEF Grown
      <3> QED
        BY <1>4, <1>12, <2>3, <3>1
    <2> QED
      BY <1>1, <1>2, <2>1, <2>2, <2>3
  <1>13. ASSUME NEW k \in DOMAIN r3
         PROVE  r3[k].what \in {part, old} \/ \E i \in DOMAIN items : r3[k].what = items[i].what
    <2>1. r3[k].what = old \/ \E i \in DOMAIN r2 : r3[k].what = r2[i].what
      BY <1>8 DEF Grown
    <2>2. \A i \in DOMAIN r2 : r2[i].what = part \/ \E j \in DOMAIN r1 : r2[i].what = r1[j].what
      BY <1>6 DEF Grown
    <2>3. \A j \in DOMAIN r1 : r1[j].what = old \/ \E i \in DOMAIN items : r1[j].what = items[i].what
      BY <1>5 DEF Grown
    <2> QED
      BY <2>1, <2>2, <2>3
  <1> QED
    BY <1>7, <1>9, <1>10, <1>11, <1>12, <1>13 DEF to, old

LEMMA ExtendedTyped ==
  ASSUME NEW W, NEW items \in Seq(Item(W)), NEW to \in Nat, NEW what \in W
  PROVE  Extended(items, to, what) \in Seq(Item(W))
  <1>1. \A n \in 1..Len(items) : items[n] \in Item(W)
    OBVIOUS
  <1>2. CASE to <= EndOf(items)
    BY <1>2 DEF Extended
  <1>3. CASE ~(to <= EndOf(items)) /\ items # <<>> /\ Last(items).what = what
    <2> DEFINE r == [items EXCEPT ![Len(items)].to = to]
    <2>1. Len(items) \in 1..Len(items) /\ DOMAIN items = 1..Len(items)
      BY <1>3
    <2>2. [items[Len(items)] EXCEPT !.to = to] \in Item(W)
      BY <1>1, <2>1 DEF Item
    <2>3. r = [n \in 1..Len(items) |-> r[n]] /\ \A n \in 1..Len(items) : r[n] \in Item(W)
      BY <1>1, <2>1, <2>2
    <2> HIDE DEF r
    <2>4. r \in [1..Len(items) -> Item(W)] /\ Len(items) \in Nat
      BY <2>3
    <2>5. r \in Seq(Item(W))
      BY <2>4
    <2> QED
      BY <1>3, <2>5 DEF Extended, Joined, r
  <1>4. CASE ~(to <= EndOf(items)) /\ ~(items # <<>> /\ Last(items).what = what)
    <2>1. [to |-> to, what |-> what] \in Item(W)
      BY DEF Item
    <2>2. Append(items, [to |-> to, what |-> what]) \in Seq(Item(W))
      BY <2>1
    <2> QED
      BY <1>4, <2>2 DEF Extended, Joined
  <1> QED
    BY <1>2, <1>3, <1>4

LEMMA DividedTyped ==
  ASSUME NEW W, NEW items \in Seq(Item(W)), NEW item \in Item(W), NEW part \in W,
         NEW box, NEW a, box.low[a] \in Nat, box.high[a] \in Nat
  PROVE  Divided(items, item, box, a, part) \in Seq(Item(W))
  <1>1. item.to \in Nat /\ item.what \in W
    BY DEF Item
  <1>2. Lesser(box.low[a], item.to) \in Nat /\ Lesser(box.high[a], item.to) \in Nat
    BY <1>1 DEF Lesser
  <1> QED
    BY <1>1, <1>2, ExtendedTyped DEF Divided

(* The ends of the first n items of a partition.                           *)
Reached(items, n) == IF n = 0 THEN 0 ELSE items[n].to

LEMMA RecutFits ==
  ASSUME NEW W, NEW items \in Seq(Item(W)), NEW e, IsReduced(items, e),
         NEW parts \in [DOMAIN items -> W],
         NEW box, NEW a, box.low[a] \in Nat, box.high[a] \in Nat, box.low[a] < box.high[a]
  PROVE  LET r == Recut(items, box, a, parts)
         IN  /\ r \in Seq(Item(W)) /\ IsReduced(r, e)
             /\ \A i \in DOMAIN items, x \in Nat : Covers(items, i, x) =>
                  Holding(r, x) = IF Inside(box, a, x) THEN parts[i] ELSE items[i].what
             /\ \A k \in DOMAIN r : \E i \in DOMAIN items : r[k].what \in {parts[i], items[i].what}
  <1> DEFINE L == Len(items)
             V == Seq(Item(W))
             Next1(n, q) == Divided(q, items[n], box, a, parts[n])
             Equation(f) == f = [n \in 0..L |-> IF n = 0 THEN <<>> ELSE Next1(n, f[n - 1])]
             F == CHOOSE f : Equation(f)
  <1>1. /\ L \in Nat /\ DOMAIN items = 1..L /\ (L # 0 => e = items[L].to) /\ (L = 0 => e = 0)
        /\ \A n \in 1..L : /\ items[n].to \in Nat /\ items[n].what \in W
                           /\ StartAt(items, n) \in Nat /\ items[n] \in Item(W)
    BY ItemsAre DEF IsReduced
  <1>2. \A n \in 1..L, q \in V : Next1(n, q) \in V
    BY <1>1, DividedTyped
  <1>3. Equation(F)
    <2> DEFINE step == [p \in (1..L) \X V |-> Next1(p[1], p[2])]
    <2> HIDE DEF Next1
    <2>1. <<>> \in V /\ step \in [(1..L) \X V -> V]
      BY <1>2
    <2>2. \A n \in 1..L, q \in V : step[<<n, q>>] = Next1(n, q)
      OBVIOUS
    <2> DEFINE none == <<>>
    <2> HIDE DEF step, V, L, none
    <2>3. PICK f : Solves(f, V, L, none, step)
      <3>1. L \in Nat /\ none \in V /\ step \in [(1..L) \X V -> V]
        BY <1>1, <2>1 DEF none
      <3> QED
        BY <3>1, FoldExists
    <2>4. ASSUME NEW n \in 0..L PROVE f[n] = IF n = 0 THEN <<>> ELSE Next1(n, f[n - 1])
      <3>1. n # 0 => n \in 1..L /\ n - 1 \in 0..L
        BY <1>1
      <3> QED
        BY <2>2, <2>3, <3>1 DEF none, Solves
    <2>5. Equation(f)
      BY <2>3, <2>4 DEF Solves
    <2> QED
      BY <2>5
  <1>4. Recut(items, box, a, parts) = F[L]
    BY DEF Recut
  <1> HIDE DEF F
  <1>5. F[0] = <<>> /\ \A n \in 1..L : F[n] = Next1(n, F[n - 1])
    <2>1. 0 \in 0..L /\ \A n \in 1..L : n \in 0..L /\ n # 0
      BY <1>1
    <2> HIDE DEF Next1, L
    <2>2. \A n \in 0..L : F[n] = IF n = 0 THEN <<>> ELSE Next1(n, F[n - 1])
      BY <1>3
    <2> QED
      BY <2>1, <2>2
  <1> DEFINE Fits(n) ==
               /\ F[n] \in V /\ IsReduced(F[n], Reached(items, n))
               /\ \A i \in 1..n, x \in Nat : Covers(items, i, x) =>
                    Holding(F[n], x) = IF Inside(box, a, x) THEN parts[i] ELSE items[i].what
               /\ \A k \in DOMAIN F[n] : \E i \in 1..n : F[n][k].what \in {parts[i], items[i].what}
             G == {n \in 0..L : Fits(n)}
  <1>6. Fits(0)
    <2>1. F[0] \in V /\ IsReduced(F[0], 0) /\ DOMAIN F[0] = {} /\ 1..0 = {}
      BY <1>5 DEF IsReduced, EndOf
    <2> QED
      BY <2>1 DEF Reached
  <1>7. ASSUME NEW n \in 1..L, Fits(n - 1) PROVE Fits(n)
    <2> DEFINE q == F[n - 1]
               r == F[n]
               m == Reached(items, n - 1)
    <2>1. m = StartAt(items, n) /\ m < items[n].to /\ Reached(items, n) = items[n].to /\ m \in Nat
      BY <1>1 DEF Reached, StartAt, IsReduced
    <2>2. q \in V /\ IsReduced(q, m)
      BY <1>7
    <2>3. r = Divided(q, items[n], box, a, parts[n]) /\ parts[n] \in W
      BY <1>1, <1>5
    <2> HIDE DEF q, r, m
    <2>4. /\ r \in Seq(Item(W)) /\ IsReduced(r, items[n].to)
          /\ \A x \in Nat : x < m => Holding(r, x) = Holding(q, x)
          /\ \A x \in Nat : m <= x /\ x < items[n].to =>
               Holding(r, x) = IF Inside(box, a, x) THEN parts[n] ELSE items[n].what
          /\ \A k \in DOMAIN r : \/ r[k].what \in {parts[n], items[n].what}
                                 \/ \E i \in DOMAIN q : r[k].what = q[i].what
      BY <1>1, <2>1, <2>2, <2>3, DividedFits
    <2>5. ASSUME NEW i \in 1..n, NEW x \in Nat, Covers(items, i, x)
          PROVE  Holding(r, x) = IF Inside(box, a, x) THEN parts[i] ELSE items[i].what
      <3>1. CASE i = n
        BY <2>1, <2>4, <2>5, <3>1 DEF Covers
      <3>2. CASE i # n
        <4>1. i \in 1..n - 1 /\ i \in DOMAIN items
          BY <1>1, <3>2
        <4>2. items[i].to <= StartAt(items, n)
          <5>1. \A j \in i + 1..Len(items) : items[i].to <= StartAt(items, j)
            BY <4>1, OrderedEnds DEF IsReduced
          <5> QED
            BY <1>1, <4>1, <5>1
        <4>3. x < m
          BY <1>1, <2>1, <2>5, <4>1, <4>2 DEF Covers
        <4>4. Holding(q, x) = IF Inside(box, a, x) THEN parts[i] ELSE items[i].what
          BY <1>7, <2>5, <4>1 DEF q
        <4>5. Holding(r, x) = Holding(q, x)
          BY <2>4, <2>5, <4>3
        <4> QED
          BY <4>4, <4>5
      <3> QED
        BY <3>1, <3>2
    <2>6. ASSUME NEW k \in DOMAIN r PROVE \E i \in 1..n : r[k].what \in {parts[i], items[i].what}
      <3>1. CASE r[k].what \in {parts[n], items[n].what}
        <4>1. n \in 1..n
          BY <1>1
        <4> QED
          BY <3>1, <4>1
      <3>2. CASE \E i \in DOMAIN q : r[k].what = q[i].what
        <4>1. PICK i \in DOMAIN q : r[k].what = q[i].what
          BY <3>2
        <4>2. PICK j \in 1..n - 1 : q[i].what \in {parts[j], items[j].what}
          BY <1>7 DEF q
        <4> QED
          BY <1>1, <4>1, <4>2
      <3> QED
        BY <2>4, <3>1, <3>2
    <2> QED
      BY <2>1, <2>4, <2>5, <2>6 DEF r
  <1> HIDE DEF Fits
  <1>8. 0 \in G /\ \A n \in 1..L : n - 1 \in G => n \in G
    BY <1>1, <1>6, <1>7
  <1> HIDE DEF G
  <1>9. \A n \in 0..L : n \in G
    BY <1>1, <1>8, CountsUp
  <1>10. Fits(L)
    BY <1>1, <1>9 DEF G
  <1>11. Reached(items, L) = e
    BY <1>1 DEF Reached
  <1> QED
    BY <1>1, <1>4, <1>10, <1>11 DEF Fits

(* The reduced partitions up to an end, and the three levels of a page.    *)
Layers(W, e) == {items \in Seq(Item(W)) : IsReduced(items, e)}

Bands == Layers(Voxels, Edge[1])
Slabs == Layers(Bands, Edge[2])
Pages == Layers(Slabs, Edge[3])

LEMMA HeldItem ==
  ASSUME NEW W, NEW e, NEW items \in Layers(W, e), NEW x \in Nat, x < e
  PROVE  /\ Holding(items, x) \in W
         /\ \E i \in DOMAIN items : Covers(items, i, x) /\ Holding(items, x) = items[i].what
  <1>1. items \in Seq(Item(W)) /\ IsReduced(items, e)
    BY DEF Layers
  <1>2. PICK i \in DOMAIN items : Covers(items, i, x)
    BY <1>1, ItemAt
  <1>3. Holding(items, x) = items[i].what
    BY <1>1, <1>2, HoldingIs
  <1>4. items[i].what \in W
    BY <1>1, <1>2, ItemsAre
  <1> QED
    BY <1>2, <1>3, <1>4

(* A recut partition is reduced, and holds the parts inside the box only.  *)
LEMMA RecutHolds ==
  ASSUME NEW W, NEW e, NEW items \in Layers(W, e), NEW parts \in [DOMAIN items -> W],
         NEW box, NEW a, box.low[a] \in Nat, box.high[a] \in Nat, box.low[a] < box.high[a]
  PROVE  LET r == Recut(items, box, a, parts)
         IN  /\ r \in Layers(W, e)
             /\ \A x \in Nat : x < e =>
                  \E i \in DOMAIN items :
                    /\ items[i].what = Holding(items, x)
                    /\ Holding(r, x) = IF Inside(box, a, x) THEN parts[i] ELSE items[i].what
  <1> DEFINE r == Recut(items, box, a, parts)
  <1>1. items \in Seq(Item(W)) /\ IsReduced(items, e)
    BY DEF Layers
  <1>2. /\ r \in Seq(Item(W)) /\ IsReduced(r, e)
        /\ \A i \in DOMAIN items, x \in Nat : Covers(items, i, x) =>
             Holding(r, x) = IF Inside(box, a, x) THEN parts[i] ELSE items[i].what
    BY <1>1, RecutFits
  <1> HIDE DEF r
  <1>3. ASSUME NEW x \in Nat, x < e
        PROVE  \E i \in DOMAIN items :
                 /\ items[i].what = Holding(items, x)
                 /\ Holding(r, x) = IF Inside(box, a, x) THEN parts[i] ELSE items[i].what
    <2>1. PICK i \in DOMAIN items : Covers(items, i, x) /\ Holding(items, x) = items[i].what
      BY <1>3, HeldItem
    <2> QED
      BY <1>2, <2>1
  <1> QED
    BY <1>2, <1>3 DEF Layers, r

IsBox(box) ==
  \A a \in Axes : box.low[a] \in Nat /\ box.high[a] \in Nat /\ box.low[a] < box.high[a]

LEMMA BandCut ==
  ASSUME NEW box, IsBox(box), NEW voxel, NEW runs \in Bands
  PROVE  /\ RecutBand(runs, box, voxel) \in Bands
         /\ \A x \in Nat : x < Edge[1] =>
              Holding(RecutBand(runs, box, voxel), x) =
                IF Inside(box, 1, x) THEN Canonical(voxel) ELSE Holding(runs, x)
  <1> DEFINE parts == [i \in DOMAIN runs |-> Canonical(voxel)]
  <1>1. parts \in [DOMAIN runs -> Voxels]
    BY DEF Canonical, Voxels
  <1>2. box.low[1] \in Nat /\ box.high[1] \in Nat /\ box.low[1] < box.high[1]
    BY DEF IsBox, Axes
  <1>3. \A i \in DOMAIN runs : parts[i] = Canonical(voxel)
    OBVIOUS
  <1>4. RecutBand(runs, box, voxel) = Recut(runs, box, 1, parts)
    BY DEF RecutBand
  <1> HIDE DEF parts
  <1>5. runs \in Layers(Voxels, Edge[1])
    BY DEF Bands
  <1> QED
    BY <1>1, <1>2, <1>3, <1>4, <1>5, RecutHolds DEF Bands

LEMMA SlabCut ==
  ASSUME NEW box, IsBox(box), NEW voxel, NEW bands \in Slabs
  PROVE  /\ RecutSlab(bands, box, voxel) \in Slabs
         /\ \A y \in Nat : y < Edge[2] =>
              Holding(RecutSlab(bands, box, voxel), y) =
                IF Inside(box, 2, y) THEN RecutBand(Holding(bands, y), box, voxel)
                ELSE Holding(bands, y)
  <1> DEFINE parts == [i \in DOMAIN bands |-> RecutBand(bands[i].what, box, voxel)]
  <1>1. bands \in Layers(Bands, Edge[2])
    BY DEF Slabs
  <1>2. bands \in Seq(Item(Bands))
    BY <1>1 DEF Layers
  <1>3. \A i \in DOMAIN bands : bands[i].what \in Bands
    BY <1>2, ItemsAre
  <1>4. parts \in [DOMAIN bands -> Bands]
    BY <1>3, BandCut
  <1>5. box.low[2] \in Nat /\ box.high[2] \in Nat /\ box.low[2] < box.high[2]
    BY DEF IsBox, Axes
  <1>6. \A i \in DOMAIN bands : parts[i] = RecutBand(bands[i].what, box, voxel)
    OBVIOUS
  <1>7. RecutSlab(bands, box, voxel) = Recut(bands, box, 2, parts)
    BY DEF RecutSlab
  <1> HIDE DEF parts
  <1> QED
    BY <1>1, <1>4, <1>5, <1>6, <1>7, RecutHolds DEF Slabs

LEMMA PageCut ==
  ASSUME NEW box, IsBox(box), NEW voxel, NEW old \in Pages
  PROVE  /\ Replace(old, box, voxel) \in Pages
         /\ \A z \in Nat : z < Edge[3] =>
              Holding(Replace(old, box, voxel), z) =
                IF Inside(box, 3, z) THEN RecutSlab(Holding(old, z), box, voxel)
                ELSE Holding(old, z)
  <1> DEFINE parts == [i \in DOMAIN old |-> RecutSlab(old[i].what, box, voxel)]
  <1>1. old \in Layers(Slabs, Edge[3])
    BY DEF Pages
  <1>2. old \in Seq(Item(Slabs))
    BY <1>1 DEF Layers
  <1>3. \A i \in DOMAIN old : old[i].what \in Slabs
    BY <1>2, ItemsAre
  <1>4. parts \in [DOMAIN old -> Slabs]
    BY <1>3, SlabCut
  <1>5. box.low[3] \in Nat /\ box.high[3] \in Nat /\ box.low[3] < box.high[3]
    BY DEF IsBox, Axes
  <1>6. \A i \in DOMAIN old : parts[i] = RecutSlab(old[i].what, box, voxel)
    OBVIOUS
  <1>7. Replace(old, box, voxel) = Recut(old, box, 3, parts)
    BY DEF Replace
  <1> HIDE DEF parts
  <1> QED
    BY <1>1, <1>4, <1>5, <1>6, <1>7, RecutHolds DEF Pages

LEMMA PointsAre ==
  ASSUME NEW p \in Points
  PROVE  \A a \in Axes : p[a] \in Nat /\ p[a] < Edge[a]
  <1>1. p[1] \in 0..Edge[1] - 1 /\ p[2] \in 0..Edge[2] - 1 /\ p[3] \in 0..Edge[3] - 1
    BY DEF Points
  <1>2. Edge[1] \in Nat /\ Edge[2] \in Nat /\ Edge[3] \in Nat
    BY PageAssumption DEF Axes
  <1> QED
    BY <1>1, <1>2 DEF Axes

LEMMA LeafTyped ==
  ASSUME NEW of \in Pages, NEW p \in Points
  PROVE  /\ Holding(of, p[3]) \in Slabs
         /\ Holding(Holding(of, p[3]), p[2]) \in Bands
         /\ LeafAt(of, p) \in Voxels
  <1>1. /\ p[1] \in Nat /\ p[1] < Edge[1] /\ p[2] \in Nat /\ p[2] < Edge[2]
        /\ p[3] \in Nat /\ p[3] < Edge[3]
    BY PointsAre DEF Axes
  <1>2. Holding(of, p[3]) \in Slabs
    BY <1>1, HeldItem DEF Pages
  <1>3. Holding(Holding(of, p[3]), p[2]) \in Bands
    BY <1>1, <1>2, HeldItem DEF Slabs
  <1>4. LeafAt(of, p) \in Voxels
    BY <1>1, <1>3, HeldItem DEF Bands, LeafAt
  <1> QED
    BY <1>2, <1>3, <1>4

(* An edit changes the units of its box, and only these.                   *)
LEMMA ReplaceFits ==
  ASSUME NEW box, IsBox(box), NEW voxel, NEW old \in Pages
  PROVE  /\ Replace(old, box, voxel) \in Pages
         /\ \A p \in Points : LeafAt(Replace(old, box, voxel), p) =
              IF Within(p, box) THEN Canonical(voxel) ELSE LeafAt(old, p)
  <1> DEFINE new == Replace(old, box, voxel)
  <1>1. new \in Pages
    BY PageCut
  <1>2. ASSUME NEW p \in Points
        PROVE  LeafAt(new, p) = IF Within(p, box) THEN Canonical(voxel) ELSE LeafAt(old, p)
    <2> DEFINE slab == Holding(old, p[3])
               band == Holding(slab, p[2])
    <2>1. /\ p[1] \in Nat /\ p[1] < Edge[1] /\ p[2] \in Nat /\ p[2] < Edge[2]
          /\ p[3] \in Nat /\ p[3] < Edge[3]
      BY PointsAre DEF Axes
    <2>2. slab \in Slabs /\ band \in Bands
      BY LeafTyped
    <2>3. Within(p, box) <=> Inside(box, 1, p[1]) /\ Inside(box, 2, p[2]) /\ Inside(box, 3, p[3])
      BY DEF Within, Inside, Axes
    <2>4. Holding(new, p[3]) = IF Inside(box, 3, p[3]) THEN RecutSlab(slab, box, voxel) ELSE slab
      BY <2>1, PageCut
    <2>5. LeafAt(old, p) = Holding(band, p[1])
      BY DEF LeafAt
    <2>6. LeafAt(new, p) = Holding(Holding(Holding(new, p[3]), p[2]), p[1])
      BY DEF LeafAt
    <2> HIDE DEF new, slab
    <2>7. Holding(RecutSlab(slab, box, voxel), p[2]) =
            IF Inside(box, 2, p[2]) THEN RecutBand(band, box, voxel) ELSE band
      BY <2>1, <2>2, SlabCut
    <2> HIDE DEF band
    <2>8. Holding(RecutBand(band, box, voxel), p[1]) =
            IF Inside(box, 1, p[1]) THEN Canonical(voxel) ELSE Holding(band, p[1])
      BY <2>1, <2>2, BandCut
    <2> QED
      BY <2>3, <2>4, <2>5, <2>6, <2>7, <2>8 DEF band
  <1> QED
    BY <1>1, <1>2

-----------------------------------------------------------------------------
(* Lists put together.                                                     *)

Put(s, t) == s \o t

(* The lists so far, put together.                                         *)
Partials(f, seqs) ==
  /\ f[0] = <<>>
  /\ \A n \in 1..Len(seqs) : f[n] = Put(f[n - 1], seqs[n])
  /\ Flat(seqs) = f[Len(seqs)]

LEMMA FlatIs ==
  ASSUME NEW S, NEW seqs \in Seq(Seq(S))
  PROVE  \E f \in [0..Len(seqs) -> Seq(S)] : Partials(f, seqs)
  <1> DEFINE L == Len(seqs)
             V == Seq(S)
             none == <<>>
             Sum(f, n) == IF n = 0 THEN none ELSE Put(f[n - 1], seqs[n])
             Equation(f) == f = [n \in 0..L |-> Sum(f, n)]
             F == CHOOSE f : Equation(f)
             step == [p \in (1..L) \X V |-> Put(p[2], seqs[p[1]])]
  <1>1. L \in Nat /\ none \in V /\ \A n \in 1..L : seqs[n] \in V
    OBVIOUS
  <1>2. \A n \in 1..L, q \in V : Put(q, seqs[n]) \in V
    BY <1>1 DEF Put
  <1>3. step \in [(1..L) \X V -> V]
    BY <1>2
  <1>4. \A n \in 1..L, q \in V : step[<<n, q>>] = Put(q, seqs[n])
    OBVIOUS
  <1>5. Flat(seqs) = F[L]
    BY DEF Flat, Put
  <1> HIDE DEF step, none, L, V
  <1>6. PICK f : Solves(f, V, L, none, step)
    BY <1>1, <1>3, FoldExists
  <1>7. ASSUME NEW n \in 0..L PROVE f[n] = Sum(f, n)
    <2>1. n # 0 => n \in 1..L /\ n - 1 \in 0..L
      BY <1>1
    <2>2. f \in [0..L -> V] /\ f[0] = none /\ \A m \in 1..L : f[m] = step[<<m, f[m - 1]>>]
      BY <1>6 DEF Solves
    <2>3. CASE n # 0
      <3>1. f[n] = step[<<n, f[n - 1]>>] /\ f[n - 1] \in V
        BY <2>1, <2>2, <2>3
      <3> QED
        BY <1>4, <2>1, <2>3, <3>1
    <2> QED
      BY <2>2, <2>3
  <1> HIDE DEF Sum
  <1>8. Equation(F)
    <2>1. Equation(f)
      BY <1>6, <1>7 DEF Solves
    <2> QED
      BY <2>1
  <1> HIDE DEF F
  <1>9. DOMAIN F = 0..L /\ \A n \in 0..L : F[n] = Sum(F, n)
    BY <1>8
  <1>10. F[0] = none /\ \A n \in 1..L : F[n] = Put(F[n - 1], seqs[n])
    <2>1. 0 \in 0..L /\ \A n \in 1..L : n \in 0..L /\ n # 0
      BY <1>1
    <2> QED
      BY <1>9, <2>1 DEF Sum
  <1>11. F \in [0..L -> V]
    <2> DEFINE G == {n \in 0..L : F[n] \in V}
    <2>1. 0 \in G
      BY <1>1, <1>10
    <2>2. \A n \in 1..L : n - 1 \in G => n \in G
      BY <1>1, <1>2, <1>10
    <2> HIDE DEF G
    <2>3. \A n \in 0..L : n \in G
      BY <1>1, <2>1, <2>2, CountsUp
    <2>4. F = [n \in 0..L |-> F[n]]
      BY <1>8, <1>9
    <2> QED
      BY <2>3, <2>4 DEF G
  <1> QED
    BY <1>5, <1>10, <1>11 DEF Partials, L, V, none

LEMMA FlatAppend ==
  ASSUME NEW S, NEW seqs \in Seq(Seq(S))
  PROVE  /\ Flat(seqs) \in Seq(S)
         /\ Len(seqs) = 0 => Flat(seqs) = <<>>
         /\ \A x \in Seq(S) : Flat(Append(seqs, x)) = Flat(seqs) \o x
  <1> DEFINE L == Len(seqs)
             V == Seq(S)
  <1>1. PICK f \in [0..L -> V] : Partials(f, seqs)
    BY FlatIs
  <1>2. L \in Nat
    OBVIOUS
  <1>3. ASSUME NEW x \in V PROVE Flat(Append(seqs, x)) = Flat(seqs) \o x
    <2> DEFINE more == Append(seqs, x)
    <2>1. /\ more \in Seq(V) /\ Len(more) = L + 1
          /\ more[L + 1] = x /\ \A n \in 1..L : more[n] = seqs[n]
      OBVIOUS
    <2> HIDE DEF more, V
    <2>2. PICK g \in [0..Len(more) -> V] : Partials(g, more)
      BY <2>1, FlatIs DEF V
    <2>3. /\ f[0] = <<>> /\ g[0] = <<>> /\ Flat(more) = g[L + 1] /\ Flat(seqs) = f[L]
          /\ \A n \in 1..L : f[n] = Put(f[n - 1], seqs[n])
          /\ \A n \in 1..L + 1 : g[n] = Put(g[n - 1], more[n])
      BY <1>1, <2>1, <2>2 DEF Partials
    <2> HIDE DEF L
    <2> DEFINE G == {n \in 0..L : g[n] = f[n]}
    <2>4. 0 \in G
      BY <1>2, <2>3
    <2>5. \A n \in 1..L : n - 1 \in G => n \in G
      BY <1>2, <2>1, <2>3
    <2> HIDE DEF G
    <2>6. \A n \in 0..L : n \in G
      BY <1>2, <2>4, <2>5, CountsUp
    <2>7. g[L] = f[L]
      BY <1>2, <2>6 DEF G
    <2>8. g[L + 1] = Put(g[L], x)
      BY <1>2, <2>1, <2>3
    <2> QED
      BY <2>3, <2>7, <2>8 DEF more, Put
  <1>4. Flat(seqs) \in V /\ (L = 0 => Flat(seqs) = <<>>)
    <2> HIDE DEF L, V
    <2> QED
      BY <1>1, <1>2 DEF Partials, L
  <1> QED
    BY <1>3, <1>4

-----------------------------------------------------------------------------
(* Leaves that tile a part of the page, each point in one of them, which   *)
(* holds its material.                                                     *)
LeafKind ==
  {l \in [low : Corners, high : Corners, voxel : Voxels] : \A a \in Axes : l.low[a] < l.high[a]}

Tiles(list, P, mat) ==
  /\ list \in Seq(LeafKind)
  /\ \A i \in DOMAIN list, p \in Points : Within(p, list[i]) => p \in P /\ list[i].voxel = mat[p]
  /\ \A p \in P : \E i \in DOMAIN list : Within(p, list[i])
  /\ \A p \in Points, i \in DOMAIN list, j \in DOMAIN list :
       Within(p, list[i]) /\ Within(p, list[j]) => i = j

LEMMA TilesBoth ==
  ASSUME NEW s, NEW t, NEW P, NEW Q, NEW mat, Tiles(s, P, mat), Tiles(t, Q, mat),
         P \cap Q = {}, P \subseteq Points, Q \subseteq Points
  PROVE  Tiles(s \o t, P \cup Q, mat)
  <1> DEFINE r == s \o t
             m == Len(s)
             n == Len(t)
  <1>1. /\ s \in Seq(LeafKind) /\ t \in Seq(LeafKind) /\ m \in Nat /\ n \in Nat
        /\ DOMAIN s = 1..m /\ DOMAIN t = 1..n
    BY DEF Tiles
  <1>2. /\ r \in Seq(LeafKind) /\ DOMAIN r = 1..m + n
        /\ \A i \in 1..m : r[i] = s[i]
        /\ \A i \in m + 1..m + n : r[i] = t[i - m]
        /\ \A i \in 1..n : r[i + m] = t[i]
    BY <1>1
  <1> HIDE DEF r, m, n
  <1>3. ASSUME NEW i \in DOMAIN r, NEW p \in Points, Within(p, r[i])
        PROVE  /\ i <= m => p \in P /\ i \in DOMAIN s /\ Within(p, s[i])
               /\ ~(i <= m) => p \in Q /\ i - m \in DOMAIN t /\ Within(p, t[i - m])
               /\ r[i].voxel = mat[p]
    <2>1. CASE i <= m
      <3>1. i \in 1..m
        BY <1>1, <1>2, <1>3, <2>1
      <3>2. i \in DOMAIN s /\ r[i] = s[i]
        BY <1>1, <1>2, <3>1
      <3> QED
        BY <1>3, <2>1, <3>2 DEF Tiles
    <2>2. CASE ~(i <= m)
      <3>1. i \in m + 1..m + n /\ i - m \in 1..n
        BY <1>1, <1>2, <1>3, <2>2
      <3>2. i - m \in DOMAIN t /\ r[i] = t[i - m]
        BY <1>1, <1>2, <3>1
      <3> QED
        BY <1>3, <2>2, <3>2 DEF Tiles
    <2> QED
      BY <2>1, <2>2
  <1>4. ASSUME NEW p \in P \cup Q PROVE \E i \in DOMAIN r : Within(p, r[i])
    <2>1. CASE p \in P
      <3>1. PICK i \in DOMAIN s : Within(p, s[i])
        BY <2>1 DEF Tiles
      <3>2. i \in DOMAIN r /\ r[i] = s[i]
        BY <1>1, <1>2
      <3> QED
        BY <3>1, <3>2
    <2>2. CASE p \in Q
      <3>1. PICK i \in DOMAIN t : Within(p, t[i])
        BY <2>2 DEF Tiles
      <3>2. i + m \in DOMAIN r /\ r[i + m] = t[i]
        BY <1>1, <1>2
      <3> QED
        BY <3>1, <3>2
    <2> QED
      BY <2>1, <2>2
  <1>5. ASSUME NEW p \in Points, NEW i \in DOMAIN r, NEW j \in DOMAIN r,
               Within(p, r[i]), Within(p, r[j])
        PROVE  i = j
    <2>1. CASE i <= m
      <3>1. p \in P /\ i \in DOMAIN s /\ Within(p, s[i])
        BY <1>3, <1>5, <2>1
      <3>2. j <= m
        BY <1>3, <1>5, <3>1
      <3>3. j \in DOMAIN s /\ Within(p, s[j])
        BY <1>3, <1>5, <3>2
      <3> QED
        BY <3>1, <3>3 DEF Tiles
    <2>2. CASE ~(i <= m)
      <3>1. p \in Q /\ i - m \in DOMAIN t /\ Within(p, t[i - m])
        BY <1>3, <1>5, <2>2
      <3>2. ~(j <= m)
        BY <1>3, <1>5, <3>1
      <3>3. j - m \in DOMAIN t /\ Within(p, t[j - m])
        BY <1>3, <1>5, <3>2
      <3>4. i - m = j - m
        BY <3>1, <3>3 DEF Tiles
      <3> QED
        BY <1>1, <1>2, <3>4
    <2> QED
      BY <2>1, <2>2
  <1>6. ASSUME NEW i \in DOMAIN r, NEW p \in Points, Within(p, r[i])
        PROVE  p \in P \cup Q /\ r[i].voxel = mat[p]
    BY <1>3, <1>6
  <1> QED
    BY <1>2, <1>4, <1>5, <1>6 DEF Tiles, r

LEMMA TilesTogether ==
  ASSUME NEW seqs \in Seq(Seq(LeafKind)), NEW mat, NEW parts \in [DOMAIN seqs -> SUBSET Points],
         \A i \in DOMAIN seqs : Tiles(seqs[i], parts[i], mat),
         \A i, j \in DOMAIN seqs : i # j => parts[i] \cap parts[j] = {}
  PROVE  Tiles(Flat(seqs), UNION {parts[i] : i \in DOMAIN seqs}, mat)
  <1> DEFINE L == Len(seqs)
             Upto(n) == UNION {parts[i] : i \in 1..n}
  <1>1. L \in Nat /\ DOMAIN seqs = 1..L
    OBVIOUS
  <1>2. PICK f \in [0..L -> Seq(LeafKind)] : Partials(f, seqs)
    BY FlatIs
  <1> DEFINE G == {n \in 0..L : Tiles(f[n], Upto(n), mat)}
  <1>3. 0 \in G
    <2>1. f[0] = <<>> /\ Upto(0) = {} /\ DOMAIN f[0] = {} /\ f[0] \in Seq(LeafKind)
      BY <1>1, <1>2 DEF Partials
    <2> HIDE DEF Upto
    <2> QED
      BY <1>1, <2>1 DEF Tiles
  <1>4. ASSUME NEW n \in 1..L, n - 1 \in G PROVE n \in G
    <2>1. f[n] = f[n - 1] \o seqs[n]
      BY <1>2 DEF Partials, Put
    <2>2. Upto(n) = Upto(n - 1) \cup parts[n]
      <3>1. 1..n = (1..n - 1) \cup {n}
        BY <1>1
      <3> QED
        BY <3>1
    <2>3. Upto(n - 1) \cap parts[n] = {}
      <3>1. \A i \in 1..n - 1 : i # n /\ i \in DOMAIN seqs /\ n \in DOMAIN seqs
        BY <1>1
      <3>2. \A i \in 1..n - 1 : parts[i] \cap parts[n] = {}
        BY <3>1
      <3> QED
        BY <3>2
    <2>4. Upto(n - 1) \subseteq Points /\ parts[n] \subseteq Points
      <3>1. \A i \in DOMAIN seqs : parts[i] \subseteq Points
        OBVIOUS
      <3>2. n \in DOMAIN seqs /\ \A i \in 1..n - 1 : i \in DOMAIN seqs
        BY <1>1
      <3> QED
        BY <3>1, <3>2
    <2> HIDE DEF Upto
    <2>5. Tiles(f[n - 1], Upto(n - 1), mat) /\ Tiles(seqs[n], parts[n], mat)
      BY <1>1, <1>4
    <2>6. Tiles(f[n - 1] \o seqs[n], Upto(n - 1) \cup parts[n], mat)
      BY <2>3, <2>4, <2>5, TilesBoth
    <2>7. Tiles(f[n], Upto(n), mat)
      BY <2>1, <2>2, <2>6
    <2> QED
      BY <1>1, <2>7
  <1> HIDE DEF G
  <1>5. \A n \in 0..L : n \in G
    BY <1>1, <1>3, <1>4, CountsUp
  <1>6. Tiles(f[L], Upto(L), mat)
    BY <1>1, <1>5 DEF G
  <1> QED
    BY <1>1, <1>2, <1>6 DEF Partials

LEMMA ItemsWithin ==
  ASSUME NEW W, NEW e, NEW items \in Layers(W, e)
  PROVE  /\ e \in Nat /\ Len(items) \in Nat /\ DOMAIN items = 1..Len(items)
         /\ \A i \in DOMAIN items :
              /\ StartAt(items, i) \in Nat /\ items[i].to \in Nat /\ items[i].what \in W
              /\ StartAt(items, i) < items[i].to /\ items[i].to <= e
  <1>1. items \in Seq(Item(W)) /\ IsReduced(items, e)
    BY DEF Layers
  <1>2. /\ Len(items) \in Nat /\ DOMAIN items = 1..Len(items)
        /\ \A n \in 1..Len(items) :
             items[n].to \in Nat /\ items[n].what \in W /\ StartAt(items, n) \in Nat
        /\ EndOf(items) = IF Len(items) = 0 THEN 0 ELSE items[Len(items)].to
        /\ EndOf(items) \in Nat
    BY <1>1, ItemsAre
  <1>3. EndOf(items) = e /\ \A i \in DOMAIN items : StartAt(items, i) < items[i].to
    BY <1>1 DEF IsReduced
  <1>4. ASSUME NEW i \in DOMAIN items PROVE items[i].to <= e
    <2>1. \A j \in i + 1..Len(items) : items[i].to <= StartAt(items, j)
      BY <1>1, <1>3, OrderedEnds
    <2> DEFINE L == Len(items)
    <2>2. L \in Nat /\ i \in 1..L /\ e = items[L].to
      BY <1>2, <1>3
    <2>3. items[i].to \in Nat /\ items[L].to \in Nat /\ StartAt(items, L) < items[L].to
          /\ StartAt(items, L) \in Nat
      BY <1>2, <1>3, <2>2
    <2>4. \A j \in i + 1..L : items[i].to <= StartAt(items, j)
      BY <2>1
    <2> HIDE DEF L
    <2>5. CASE i = L
      BY <2>2, <2>3, <2>5
    <2>6. CASE i # L
      <3>1. items[i].to <= StartAt(items, L)
        BY <2>2, <2>4, <2>6
      <3> QED
        BY <2>2, <2>3, <3>1
    <2> QED
      BY <2>5, <2>6
  <1> QED
    BY <1>2, <1>3, <1>4

Between(y, x) == y.low <= x /\ x < y.high

IsSpan(y, e) == y.low \in Nat /\ y.high \in Nat /\ y.low < y.high /\ y.high <= e

LEMMA BandTiles ==
  ASSUME NEW runs \in Bands, NEW y, IsSpan(y, Edge[2]), NEW z, IsSpan(z, Edge[3]), NEW mat,
         NEW P, P = {p \in Points : Between(y, p[2]) /\ Between(z, p[3])},
         \A p \in P : mat[p] = Holding(runs, p[1])
  PROVE  Tiles(LeavesOfBand(runs, y, z), P, mat)
  <1> DEFINE list == LeavesOfBand(runs, y, z)
             L == Len(runs)
             Low(i) == StartAt(runs, i)
  <1>1. /\ L \in Nat /\ DOMAIN runs = 1..L
        /\ \A i \in DOMAIN runs : /\ Low(i) \in Nat /\ runs[i].to \in Nat /\ runs[i].what \in Voxels
                                  /\ Low(i) < runs[i].to /\ runs[i].to <= Edge[1]
    BY ItemsWithin DEF Bands
  <1>2. runs \in Seq(Item(Voxels)) /\ IsReduced(runs, Edge[1])
    BY DEF Bands, Layers
  <1>3. Edge[1] \in Nat /\ Edge[2] \in Nat /\ Edge[3] \in Nat
    BY PageAssumption DEF Axes
  <1>4. DOMAIN list = 1..L
        /\ \A i \in DOMAIN runs :
             list[i] = [low |-> <<Low(i), y.low, z.low>>,
                        high |-> <<runs[i].to, y.high, z.high>>, voxel |-> runs[i].what]
    BY <1>1 DEF LeavesOfBand
  <1>12. ASSUME NEW i \in DOMAIN runs
         PROVE  /\ list[i].low[1] = Low(i) /\ list[i].low[2] = y.low /\ list[i].low[3] = z.low
                /\ list[i].high[1] = runs[i].to /\ list[i].high[2] = y.high
                /\ list[i].high[3] = z.high /\ list[i].voxel = runs[i].what
    <2> DEFINE low == <<Low(i), y.low, z.low>>
               high == <<runs[i].to, y.high, z.high>>
               what == runs[i].what
    <2>1. list[i] = [low |-> low, high |-> high, voxel |-> what]
      BY <1>4
    <2>2. /\ low[1] = Low(i) /\ low[2] = y.low /\ low[3] = z.low
          /\ high[1] = runs[i].to /\ high[2] = y.high /\ high[3] = z.high
      OBVIOUS
    <2> HIDE DEF low, high, list, what
    <2>3. list[i].low = low /\ list[i].high = high /\ list[i].voxel = what
      BY <2>1
    <2> QED
      BY <2>2, <2>3 DEF what
  <1> HIDE DEF list, L, Low
  <1>5. ASSUME NEW i \in DOMAIN runs PROVE list[i] \in LeafKind
    <2> DEFINE l == list[i]
    <2>0. /\ Low(i) \in Nat /\ runs[i].to \in Nat /\ Low(i) < runs[i].to /\ runs[i].to <= Edge[1]
          /\ runs[i].what \in Voxels
      BY <1>1
    <2>1. /\ Low(i) \in 0..Edge[1] /\ y.low \in 0..Edge[2] /\ z.low \in 0..Edge[3]
          /\ runs[i].to \in 0..Edge[1] /\ y.high \in 0..Edge[2] /\ z.high \in 0..Edge[3]
      <3> HIDE DEF Low
      <3> QED
        BY <1>3, <2>0 DEF IsSpan
    <2>2. <<Low(i), y.low, z.low>> \in Corners /\ <<runs[i].to, y.high, z.high>> \in Corners
      <3> HIDE DEF Low
      <3> QED
        BY <2>1 DEF Corners
    <2>3. l \in [low : Corners, high : Corners, voxel : Voxels]
      <3>1. l = [low |-> <<Low(i), y.low, z.low>>, high |-> <<runs[i].to, y.high, z.high>>,
                 voxel |-> runs[i].what]
        BY <1>1, <1>4
      <3> HIDE DEF Low, l
      <3> QED
        BY <2>0, <2>2, <3>1
    <2>4. /\ l.low[1] = Low(i) /\ l.low[2] = y.low /\ l.low[3] = z.low
          /\ l.high[1] = runs[i].to /\ l.high[2] = y.high /\ l.high[3] = z.high
      BY <1>12
    <2> HIDE DEF l
    <2>5. \A a \in Axes : l.low[a] < l.high[a]
      BY <2>0, <2>4 DEF Axes, IsSpan
    <2> QED
      BY <2>3, <2>5 DEF LeafKind, l
  <1>6. list \in Seq(LeafKind)
    <2>1. list = [i \in 1..L |-> list[i]]
      BY <1>1, <1>4 DEF LeavesOfBand, list, L
    <2>2. list \in [1..L -> LeafKind]
      BY <1>1, <1>5, <2>1
    <2> QED
      BY <1>1, <2>2
  <1>7. ASSUME NEW i \in DOMAIN runs, NEW p \in Points
        PROVE  Within(p, list[i]) <=> p \in P /\ Covers(runs, i, p[1])
    <2>1. /\ list[i].low[1] = Low(i) /\ list[i].low[2] = y.low /\ list[i].low[3] = z.low
          /\ list[i].high[1] = runs[i].to /\ list[i].high[2] = y.high
          /\ list[i].high[3] = z.high
      BY <1>12
    <2> QED
      BY <2>1 DEF Within, Axes, Between, Covers, Low
  <1>8. \A i \in DOMAIN runs : list[i].voxel = runs[i].what
    BY <1>12
  <1>9. ASSUME NEW i \in DOMAIN list, NEW p \in Points, Within(p, list[i])
        PROVE  p \in P /\ list[i].voxel = mat[p]
    <2>1. p \in P /\ Covers(runs, i, p[1])
      BY <1>1, <1>4, <1>7, <1>9
    <2>2. p[1] \in Nat
      BY PointsAre DEF Axes
    <2>3. Holding(runs, p[1]) = runs[i].what
      BY <1>2, <2>1, <2>2, HoldingIs
    <2> QED
      BY <1>1, <1>4, <1>8, <2>1, <2>3
  <1>10. ASSUME NEW p \in P PROVE \E i \in DOMAIN list : Within(p, list[i])
    <2>1. p \in Points /\ p[1] \in Nat /\ p[1] < Edge[1]
      BY PointsAre DEF Axes
    <2>2. PICK i \in DOMAIN runs : Covers(runs, i, p[1])
      BY <1>2, <2>1, ItemAt
    <2> QED
      BY <1>1, <1>4, <1>7, <2>1, <2>2
  <1>11. ASSUME NEW p \in Points, NEW i \in DOMAIN list, NEW j \in DOMAIN list,
                Within(p, list[i]), Within(p, list[j])
         PROVE  i = j
    <2>1. Covers(runs, i, p[1]) /\ Covers(runs, j, p[1])
      BY <1>1, <1>4, <1>7, <1>11
    <2>2. p[1] \in Nat
      BY PointsAre DEF Axes
    <2> QED
      BY <1>2, <2>1, <2>2, OneItemAt
  <1> QED
    BY <1>6, <1>9, <1>10, <1>11 DEF Tiles, list

LEMMA SlabTiles ==
  ASSUME NEW bands \in Slabs, NEW z, IsSpan(z, Edge[3]), NEW mat,
         NEW P, P = {p \in Points : Between(z, p[3])},
         \A p \in P : mat[p] = Holding(Holding(bands, p[2]), p[1])
  PROVE  Tiles(LeavesOfSlab(bands, z), P, mat)
  <1> DEFINE L == Len(bands)
             Span(b) == [low |-> StartAt(bands, b), high |-> bands[b].to]
             seqs == [b \in DOMAIN bands |-> LeavesOfBand(bands[b].what, Span(b), z)]
             Part(b) == {p \in Points : Between(Span(b), p[2]) /\ Between(z, p[3])}
             parts == [b \in DOMAIN bands |-> Part(b)]
  <1>1. /\ L \in Nat /\ DOMAIN bands = 1..L
        /\ \A i \in DOMAIN bands :
             /\ StartAt(bands, i) \in Nat /\ bands[i].to \in Nat /\ bands[i].what \in Bands
             /\ StartAt(bands, i) < bands[i].to /\ bands[i].to <= Edge[2]
    BY ItemsWithin DEF Slabs
  <1>2. bands \in Seq(Item(Bands)) /\ IsReduced(bands, Edge[2])
    BY DEF Slabs, Layers
  <1>3. \A p \in Points : p[2] \in Nat /\ p[2] < Edge[2]
    BY PointsAre DEF Axes
  <1>4. \A p \in Points, b \in DOMAIN bands :
          p \in Part(b) <=> p \in P /\ Covers(bands, b, p[2])
    BY DEF Between, Covers
  <1>5. ASSUME NEW b \in DOMAIN bands PROVE Tiles(seqs[b], parts[b], mat)
    <2>1. IsSpan(Span(b), Edge[2]) /\ bands[b].what \in Bands
      BY <1>1 DEF IsSpan
    <2>2. \A p \in Part(b) : mat[p] = Holding(bands[b].what, p[1])
      <3> SUFFICES ASSUME NEW p \in Part(b) PROVE mat[p] = Holding(bands[b].what, p[1])
        OBVIOUS
      <3>1. p \in P /\ Covers(bands, b, p[2]) /\ p[2] \in Nat
        BY <1>3, <1>4
      <3>2. Holding(bands, p[2]) = bands[b].what
        BY <1>2, <3>1, HoldingIs
      <3> QED
        BY <3>1, <3>2
    <2> DEFINE span == Span(b)
               part == Part(b)
    <2>3. part = {p \in Points : Between(span, p[2]) /\ Between(z, p[3])}
      OBVIOUS
    <2>4. seqs[b] = LeavesOfBand(bands[b].what, span, z) /\ parts[b] = part
      OBVIOUS
    <2> HIDE DEF span, part, seqs, parts
    <2> QED
      BY <2>1, <2>2, <2>3, <2>4, BandTiles DEF span, part
  <1>6. seqs \in Seq(Seq(LeafKind)) /\ DOMAIN seqs = 1..L
    <2>1. \A b \in 1..L : seqs[b] \in Seq(LeafKind)
      BY <1>1, <1>5 DEF Tiles
    <2>2. seqs = [b \in 1..L |-> seqs[b]]
      BY <1>1
    <2> HIDE DEF seqs
    <2>3. seqs \in [1..L -> Seq(LeafKind)]
      BY <2>1, <2>2
    <2> QED
      BY <1>1, <2>3
  <1>7. parts \in [DOMAIN seqs -> SUBSET Points]
    <2>1. \A b \in DOMAIN bands : Part(b) \subseteq Points
      OBVIOUS
    <2> HIDE DEF Part
    <2> QED
      BY <1>1, <1>6, <2>1
  <1>8. \A b \in DOMAIN bands : parts[b] = Part(b)
    OBVIOUS
  <1> DEFINE flat == Flat(seqs)
  <1>12. LeavesOfSlab(bands, z) = flat
    BY DEF LeavesOfSlab
  <1> HIDE DEF Part, parts, seqs
  <1>9. \A i, j \in DOMAIN seqs : i # j => parts[i] \cap parts[j] = {}
    <2> SUFFICES ASSUME NEW i \in DOMAIN seqs, NEW j \in DOMAIN seqs,
                        NEW p \in parts[i], p \in parts[j]
                 PROVE  i = j
      OBVIOUS
    <2>0. i \in DOMAIN bands /\ j \in DOMAIN bands
      BY <1>1, <1>6
    <2>1. p \in Points /\ p \in Part(i) /\ p \in Part(j)
      BY <1>8, <2>0 DEF Part
    <2>2. Covers(bands, i, p[2]) /\ Covers(bands, j, p[2]) /\ p[2] \in Nat
      BY <1>3, <1>4, <2>0, <2>1
    <2> QED
      BY <1>2, <2>2, OneItemAt
  <1>10. UNION {parts[b] : b \in DOMAIN seqs} = P
    <2>1. ASSUME NEW b \in DOMAIN seqs, NEW p \in parts[b] PROVE p \in P
      <3>1. b \in DOMAIN bands
        BY <1>1, <1>6
      <3>2. p \in Part(b) /\ p \in Points
        BY <1>7, <1>8, <3>1
      <3> QED
        BY <1>4, <3>1, <3>2
    <2>2. ASSUME NEW p \in P PROVE \E b \in DOMAIN seqs : p \in parts[b]
      <3>1. p \in Points /\ p[2] \in Nat /\ p[2] < Edge[2]
        BY <1>3
      <3>2. PICK b \in DOMAIN bands : Covers(bands, b, p[2])
        BY <1>2, <3>1, ItemAt
      <3>3. b \in DOMAIN seqs
        BY <1>1, <1>6
      <3>4. p \in Part(b) /\ parts[b] = Part(b)
        BY <1>4, <1>8, <3>1, <3>2
      <3> QED
        BY <3>3, <3>4
    <2> QED
      BY <2>1, <2>2
  <1>11. \A i \in DOMAIN seqs : Tiles(seqs[i], parts[i], mat)
    BY <1>1, <1>5, <1>6
  <1>13. Tiles(Flat(seqs), UNION {parts[b] : b \in DOMAIN seqs}, mat)
    BY <1>6, <1>7, <1>9, <1>11, TilesTogether
  <1> QED
    BY <1>10, <1>12, <1>13

(* The leaves of a page tile it, and hold what the page holds.             *)
LEMMA PageTiles ==
  ASSUME NEW of \in Pages, NEW mat, \A p \in Points : mat[p] = LeafAt(of, p)
  PROVE  Tiles(LeafList(of), Points, mat)
  <1> DEFINE L == Len(of)
             Span(s) == [low |-> StartAt(of, s), high |-> of[s].to]
             seqs == [s \in DOMAIN of |-> LeavesOfSlab(of[s].what, Span(s))]
             Part(s) == {p \in Points : Between(Span(s), p[3])}
             parts == [s \in DOMAIN of |-> Part(s)]
  <1>1. /\ L \in Nat /\ DOMAIN of = 1..L
        /\ \A i \in DOMAIN of :
             /\ StartAt(of, i) \in Nat /\ of[i].to \in Nat /\ of[i].what \in Slabs
             /\ StartAt(of, i) < of[i].to /\ of[i].to <= Edge[3]
    BY ItemsWithin DEF Pages
  <1>2. of \in Seq(Item(Slabs)) /\ IsReduced(of, Edge[3])
    BY DEF Pages, Layers
  <1>3. \A p \in Points : p[3] \in Nat /\ p[3] < Edge[3]
    BY PointsAre DEF Axes
  <1>4. \A p \in Points, s \in DOMAIN of : p \in Part(s) <=> Covers(of, s, p[3])
    BY DEF Between, Covers
  <1>5. ASSUME NEW s \in DOMAIN of PROVE Tiles(seqs[s], parts[s], mat)
    <2>1. IsSpan(Span(s), Edge[3]) /\ of[s].what \in Slabs
      BY <1>1 DEF IsSpan
    <2>2. \A p \in Part(s) : mat[p] = Holding(Holding(of[s].what, p[2]), p[1])
      <3> SUFFICES ASSUME NEW p \in Part(s)
                   PROVE  mat[p] = Holding(Holding(of[s].what, p[2]), p[1])
        OBVIOUS
      <3>1. p \in Points /\ Covers(of, s, p[3]) /\ p[3] \in Nat
        BY <1>3, <1>4
      <3>2. Holding(of, p[3]) = of[s].what
        BY <1>2, <3>1, HoldingIs
      <3> QED
        BY <3>1, <3>2 DEF LeafAt
    <2> DEFINE span == Span(s)
               part == Part(s)
    <2>3. part = {p \in Points : Between(span, p[3])}
      OBVIOUS
    <2>4. seqs[s] = LeavesOfSlab(of[s].what, span) /\ parts[s] = part
      OBVIOUS
    <2> HIDE DEF span, part, seqs, parts
    <2> QED
      BY <2>1, <2>2, <2>3, <2>4, SlabTiles DEF span, part
  <1>6. seqs \in Seq(Seq(LeafKind)) /\ DOMAIN seqs = 1..L
    <2>1. \A s \in 1..L : seqs[s] \in Seq(LeafKind)
      BY <1>1, <1>5 DEF Tiles
    <2>2. seqs = [s \in 1..L |-> seqs[s]]
      BY <1>1
    <2> HIDE DEF seqs
    <2>3. seqs \in [1..L -> Seq(LeafKind)]
      BY <2>1, <2>2
    <2> QED
      BY <1>1, <2>3
  <1>7. parts \in [DOMAIN seqs -> SUBSET Points]
    <2>1. \A s \in DOMAIN of : Part(s) \subseteq Points
      OBVIOUS
    <2> HIDE DEF Part
    <2> QED
      BY <1>1, <1>6, <2>1
  <1>8. \A s \in DOMAIN of : parts[s] = Part(s)
    OBVIOUS
  <1> HIDE DEF Part, parts
  <1>9. \A i, j \in DOMAIN seqs : i # j => parts[i] \cap parts[j] = {}
    <2> SUFFICES ASSUME NEW i \in DOMAIN seqs, NEW j \in DOMAIN seqs,
                        NEW p \in parts[i], p \in parts[j]
                 PROVE  i = j
      OBVIOUS
    <2>0. i \in DOMAIN of /\ j \in DOMAIN of
      BY <1>1, <1>6
    <2>1. p \in Points /\ p \in Part(i) /\ p \in Part(j)
      BY <1>8, <2>0 DEF Part
    <2>2. Covers(of, i, p[3]) /\ Covers(of, j, p[3]) /\ p[3] \in Nat
      BY <1>3, <1>4, <2>0, <2>1
    <2> QED
      BY <1>2, <2>2, OneItemAt
  <1>10. UNION {parts[s] : s \in DOMAIN seqs} = Points
    <2>1. ASSUME NEW s \in DOMAIN seqs, NEW p \in parts[s] PROVE p \in Points
      BY <1>1, <1>6, <1>8, <2>1 DEF Part
    <2>2. ASSUME NEW p \in Points PROVE \E s \in DOMAIN seqs : p \in parts[s]
      <3>1. p[3] \in Nat /\ p[3] < Edge[3]
        BY <1>3
      <3>2. PICK s \in DOMAIN of : Covers(of, s, p[3])
        BY <1>2, <3>1, ItemAt
      <3> QED
        BY <1>1, <1>4, <1>6, <1>8, <3>2
    <2> QED
      BY <2>1, <2>2
  <1>11. \A i \in DOMAIN seqs : Tiles(seqs[i], parts[i], mat)
    BY <1>1, <1>5, <1>6
  <1>12. LeafList(of) = Flat(seqs)
    BY DEF LeafList
  <1> HIDE DEF seqs
  <1>13. Tiles(Flat(seqs), UNION {parts[s] : s \in DOMAIN seqs}, mat)
    BY <1>6, <1>7, <1>9, <1>11, TilesTogether
  <1> QED
    BY <1>10, <1>12, <1>13

-----------------------------------------------------------------------------
(* Units.                                                                  *)

LEMMA BoxSize ==
  ASSUME NEW l \in LeafKind
  PROVE  /\ IsFiniteSet({p \in Points : Within(p, l)})
         /\ Cardinality({p \in Points : Within(p, l)}) = Units(l)
         /\ Units(l) \in Nat
  <1> DEFINE low(a) == l.low[a]
             high(a) == l.high[a]
             Side(a) == low(a)..high(a) - 1
             A == (Side(1) \X Side(2)) \X Side(3)
             B == {p \in Points : Within(p, l)}
             f == [u \in A |-> <<u[1][1], u[1][2], u[2]>>]
  <1>1. \A a \in Axes : /\ low(a) \in Nat /\ high(a) \in Nat /\ low(a) < high(a)
                        /\ high(a) <= Edge[a] /\ Edge[a] \in Nat
    <2>1. l.low \in Corners /\ l.high \in Corners /\ \A a \in Axes : l.low[a] < l.high[a]
      BY DEF LeafKind
    <2>2. \A a \in Axes : Edge[a] \in Nat
      BY PageAssumption
    <2>3. l.low[1] \in 0..Edge[1] /\ l.low[2] \in 0..Edge[2] /\ l.low[3] \in 0..Edge[3]
      BY <2>1 DEF Corners
    <2>4. l.high[1] \in 0..Edge[1] /\ l.high[2] \in 0..Edge[2] /\ l.high[3] \in 0..Edge[3]
      BY <2>1 DEF Corners
    <2> QED
      BY <2>1, <2>2, <2>3, <2>4 DEF Axes
  <1>2. \A p \in Points : Within(p, l) <=> \A a \in Axes : p[a] \in Side(a)
    <2> SUFFICES ASSUME NEW p \in Points, NEW a \in Axes
                 PROVE  low(a) <= p[a] /\ p[a] < high(a) <=> p[a] \in Side(a)
      BY DEF Within
    <2>1. p[a] \in Nat
      BY PointsAre
    <2>2. low(a) \in Nat /\ high(a) \in Nat
      BY <1>1
    <2> HIDE DEF low, high
    <2> QED
      BY <2>1, <2>2
  <1> HIDE DEF low, high
  <1>3. \A a \in Axes : IsFiniteSet(Side(a)) /\ Cardinality(Side(a)) = high(a) - low(a)
    <2> SUFFICES ASSUME NEW a \in Axes
                 PROVE  IsFiniteSet(Side(a)) /\ Cardinality(Side(a)) = high(a) - low(a)
      OBVIOUS
    <2> DEFINE m == low(a)
               n == high(a) - 1
    <2>1. m \in Int /\ n \in Int /\ ~(m > n) /\ n - m + 1 = high(a) - low(a)
      BY <1>1
    <2> HIDE DEF m, n
    <2>2. IsFiniteSet(m..n) /\ Cardinality(m..n) = n - m + 1
      BY <2>1, FS_Interval
    <2> QED
      BY <2>1, <2>2 DEF m, n
  <1>4. \A a \in Axes : Side(a) \subseteq 0..Edge[a] - 1
    BY <1>1
  <1> HIDE DEF Side
  <1>5. 1 \in Axes /\ 2 \in Axes /\ 3 \in Axes /\ \A a \in Axes : a \in {1, 2, 3}
    BY DEF Axes
  <1>6. IsFiniteSet(Side(1) \X Side(2))
        /\ Cardinality(Side(1) \X Side(2)) = (high(1) - low(1)) * (high(2) - low(2))
    BY <1>3, <1>5, FS_Product
  <1>7. IsFiniteSet(A) /\ Cardinality(A) = Units(l)
    <2> DEFINE S == Side(1) \X Side(2)
    <2>1. IsFiniteSet(S \X Side(3)) /\ Cardinality(S \X Side(3)) = Cardinality(S) * Cardinality(Side(3))
      BY <1>3, <1>5, <1>6, FS_Product
    <2> QED
      BY <1>3, <1>5, <1>6, <2>1 DEF Units, low, high
  <1>8. ASSUME NEW u \in A
        PROVE  /\ f[u] = <<u[1][1], u[1][2], u[2]>> /\ f[u] \in B
               /\ u = <<<<u[1][1], u[1][2]>>, u[2]>>
    <2>1. /\ u[1][1] \in Side(1) /\ u[1][2] \in Side(2) /\ u[2] \in Side(3)
          /\ u = <<<<u[1][1], u[1][2]>>, u[2]>>
      OBVIOUS
    <2> DEFINE x == u[1][1]
               y == u[1][2]
               z == u[2]
               p == <<x, y, z>>
    <2>2. f[u] = p
      OBVIOUS
    <2>3. x \in Side(1) /\ y \in Side(2) /\ z \in Side(3)
      BY <2>1
    <2> HIDE DEF x, y, z
    <2>4. p \in Points /\ p[1] = x /\ p[2] = y /\ p[3] = z
      BY <1>4, <1>5, <2>3 DEF Points
    <2>5. \A a \in Axes : p[a] \in Side(a)
      BY <1>5, <2>3, <2>4
    <2>6. p \in B
      BY <1>2, <2>4, <2>5
    <2> QED
      BY <2>1, <2>2, <2>6 DEF x, y, z
  <1>9. ASSUME NEW p \in B PROVE \E u \in A : f[u] = p
    <2>1. p \in Points /\ p = <<p[1], p[2], p[3]>>
      BY DEF Points
    <2>2. p[1] \in Side(1) /\ p[2] \in Side(2) /\ p[3] \in Side(3)
      BY <1>2, <1>5, <2>1
    <2> DEFINE u == <<<<p[1], p[2]>>, p[3]>>
    <2>3. u \in A
      BY <2>2
    <2>4. u[1][1] = p[1] /\ u[1][2] = p[2] /\ u[2] = p[3]
      OBVIOUS
    <2> HIDE DEF u, f, A, B
    <2>5. f[u] = <<p[1], p[2], p[3]>>
      BY <1>8, <2>3, <2>4
    <2> QED
      BY <2>1, <2>3, <2>5
  <1>10. ASSUME NEW u \in A, NEW v \in A, f[u] = f[v] PROVE u = v
    <2> HIDE DEF A, B, f
    <2>1. u[1][1] = v[1][1] /\ u[1][2] = v[1][2] /\ u[2] = v[2]
      BY <1>8, <1>10
    <2> QED
      BY <1>8, <2>1
  <1>11. f \in Bijection(A, B)
    <2>1. f \in [A -> B]
      BY <1>8
    <2> HIDE DEF A, B, f
    <2> QED
      BY <1>9, <1>10, <2>1 DEF Bijection, Injection, IsInjective, Surjection
  <1> HIDE DEF A, B, f
  <1>12. IsFiniteSet(B) /\ Cardinality(B) = Cardinality(A)
    BY <1>7, <1>11, FS_Bijection DEF ExistsBijection
  <1>13. Units(l) \in Nat
    BY <1>7, <1>12, FS_CardinalityType
  <1> QED
    BY <1>7, <1>12, <1>13 DEF B

Share(leaf, voxel) == IF leaf.voxel = voxel THEN Units(leaf) ELSE 0

LEMMA UnitsSum ==
  ASSUME NEW list \in Seq(LeafKind), NEW voxel
  PROVE  \E f \in [0..Len(list) -> Nat] :
           /\ f[0] = 0
           /\ \A n \in 1..Len(list) : f[n] = f[n - 1] + Share(list[n], voxel)
           /\ UnitsAmong(list, voxel) = f[Len(list)]
  <1> DEFINE L == Len(list)
             Sum(f, n) == IF n = 0 THEN 0 ELSE f[n - 1] + Share(list[n], voxel)
             Equation(f) == f = [n \in 0..L |-> Sum(f, n)]
             F == CHOOSE f : Equation(f)
             step == [p \in (1..L) \X Nat |-> p[2] + Share(list[p[1]], voxel)]
  <1>1. L \in Nat /\ \A n \in 1..L : list[n] \in LeafKind
    OBVIOUS
  <1>2. \A n \in 1..L : Share(list[n], voxel) \in Nat
    BY <1>1, BoxSize DEF Share
  <1>3. step \in [(1..L) \X Nat -> Nat]
    BY <1>2
  <1>4. \A n \in 1..L, q \in Nat : step[<<n, q>>] = q + Share(list[n], voxel)
    OBVIOUS
  <1>5. UnitsAmong(list, voxel) = F[L]
    BY DEF UnitsAmong, Share
  <1> HIDE DEF step, L
  <1>6. PICK f : Solves(f, Nat, L, 0, step)
    BY <1>1, <1>3, FoldExists
  <1>7. ASSUME NEW n \in 0..L PROVE f[n] = Sum(f, n)
    <2>1. n # 0 => n \in 1..L /\ n - 1 \in 0..L
      BY <1>1
    <2>2. f \in [0..L -> Nat] /\ f[0] = 0 /\ \A m \in 1..L : f[m] = step[<<m, f[m - 1]>>]
      BY <1>6 DEF Solves
    <2>3. CASE n # 0
      <3>1. f[n] = step[<<n, f[n - 1]>>] /\ f[n - 1] \in Nat
        BY <2>1, <2>2, <2>3
      <3> QED
        BY <1>4, <2>1, <2>3, <3>1
    <2> QED
      BY <2>2, <2>3
  <1> HIDE DEF Sum
  <1>8. Equation(F)
    <2>1. Equation(f)
      BY <1>6, <1>7 DEF Solves
    <2> QED
      BY <2>1
  <1> HIDE DEF F
  <1>9. DOMAIN F = 0..L /\ \A n \in 0..L : F[n] = Sum(F, n)
    BY <1>8
  <1>10. F[0] = 0 /\ \A n \in 1..L : F[n] = F[n - 1] + Share(list[n], voxel)
    <2>1. 0 \in 0..L /\ \A n \in 1..L : n \in 0..L /\ n # 0
      BY <1>1
    <2> QED
      BY <1>9, <2>1 DEF Sum
  <1>11. F \in [0..L -> Nat]
    <2> DEFINE G == {n \in 0..L : F[n] \in Nat}
    <2>1. 0 \in G
      BY <1>1, <1>10
    <2>2. \A n \in 1..L : n - 1 \in G => n \in G
      BY <1>1, <1>2, <1>10
    <2> HIDE DEF G
    <2>3. \A n \in 0..L : n \in G
      BY <1>1, <2>1, <2>2, CountsUp
    <2>4. F = [n \in 0..L |-> F[n]]
      BY <1>8, <1>9
    <2> QED
      BY <2>3, <2>4 DEF G
  <1> QED
    BY <1>5, <1>10, <1>11 DEF L

(* The units of a material among leaves that tile the page are its points. *)
LEMMA UnitsAreCounted ==
  ASSUME NEW list, NEW mat, Tiles(list, Points, mat), NEW voxel
  PROVE  /\ IsFiniteSet({p \in Points : mat[p] = voxel})
         /\ UnitsAmong(list, voxel) = Cardinality({p \in Points : mat[p] = voxel})
  <1> DEFINE L == Len(list)
             Mine(n) == {p \in Points : Within(p, list[n]) /\ list[n].voxel = voxel}
             Upto(n) == {p \in Points : \E i \in 1..n : p \in Mine(i)}
  <1>1. list \in Seq(LeafKind) /\ L \in Nat /\ DOMAIN list = 1..L
        /\ \A n \in 1..L : list[n] \in LeafKind
    BY DEF Tiles
  <1>2. PICK f \in [0..L -> Nat] :
               /\ f[0] = 0
               /\ \A n \in 1..L : f[n] = f[n - 1] + Share(list[n], voxel)
               /\ UnitsAmong(list, voxel) = f[L]
    BY <1>1, UnitsSum
  <1>3. ASSUME NEW n \in 1..L
        PROVE  IsFiniteSet(Mine(n)) /\ Cardinality(Mine(n)) = Share(list[n], voxel)
    <2>1. CASE list[n].voxel = voxel
      <3>1. Mine(n) = {p \in Points : Within(p, list[n])}
        BY <2>1
      <3> QED
        BY <1>1, <2>1, <3>1, BoxSize DEF Share
    <2>2. CASE list[n].voxel # voxel
      <3>1. Mine(n) = {}
        BY <2>2
      <3> QED
        BY <2>2, <3>1, FS_EmptySet DEF Share
    <2> QED
      BY <2>1, <2>2
  <1>4. \A i, j \in 1..L : i # j => Mine(i) \cap Mine(j) = {}
    BY <1>1 DEF Tiles
  <1> DEFINE G == {n \in 0..L : IsFiniteSet(Upto(n)) /\ Cardinality(Upto(n)) = f[n]}
  <1>5. 0 \in G
    <2>1. Upto(0) = {}
      OBVIOUS
    <2> HIDE DEF Upto
    <2>2. IsFiniteSet({}) /\ Cardinality({}) = 0
      BY FS_EmptySet
    <2>3. IsFiniteSet(Upto(0)) /\ Cardinality(Upto(0)) = f[0]
      BY <1>2, <2>1, <2>2
    <2> QED
      BY <1>1, <2>3
  <1>6. ASSUME NEW n \in 1..L, n - 1 \in G PROVE n \in G
    <2>1. 1..n = (1..n - 1) \cup {n} /\ n \in 0..L /\ n - 1 \in 0..L
          /\ \A i \in 1..n - 1 : i \in 1..L /\ i # n
      BY <1>1
    <2>2. Upto(n) = Upto(n - 1) \cup Mine(n)
      BY <2>1
    <2>3. Upto(n - 1) \cap Mine(n) = {}
      <3> HIDE DEF Mine
      <3> QED
        BY <1>4, <2>1
    <2> HIDE DEF Upto, Mine
    <2>4. IsFiniteSet(Upto(n - 1)) /\ Cardinality(Upto(n - 1)) = f[n - 1]
      BY <1>6
    <2>5. /\ IsFiniteSet(Upto(n - 1) \cup Mine(n))
          /\ Cardinality(Upto(n - 1) \cup Mine(n)) =
               f[n - 1] + Share(list[n], voxel) - Cardinality({})
      BY <1>3, <2>3, <2>4, FS_Union
    <2>6. f[n] = f[n - 1] + Share(list[n], voxel) /\ f[n] \in Nat
      BY <1>2, <2>1
    <2>7. Cardinality(Upto(n)) = f[n]
      <3>1. Cardinality({}) = 0
        BY FS_EmptySet
      <3>2. f[n] - 0 = f[n]
        BY <2>6
      <3> QED
        BY <2>2, <2>5, <2>6, <3>1, <3>2
    <2> QED
      BY <2>1, <2>2, <2>5, <2>7
  <1> HIDE DEF G
  <1>7. \A n \in 0..L : n \in G
    BY <1>1, <1>5, <1>6, CountsUp
  <1>8. Upto(L) = {p \in Points : mat[p] = voxel}
    <2>1. ASSUME NEW p \in Points PROVE mat[p] = voxel <=> \E i \in 1..L : p \in Mine(i)
      BY <1>1 DEF Tiles
    <2> HIDE DEF Mine
    <2> QED
      BY <2>1
  <1> HIDE DEF Upto
  <1>9. IsFiniteSet(Upto(L)) /\ Cardinality(Upto(L)) = f[L]
    BY <1>1, <1>7 DEF G
  <1> QED
    BY <1>2, <1>8, <1>9

-----------------------------------------------------------------------------
(* The page is its content.                                                *)

LEMMA BoxesAre ==
  ASSUME NEW box \in Boxes
  PROVE  /\ IsBox(box) /\ box.low \in Points /\ box.high \in Corners
         /\ \A a \in Axes : box.high[a] <= Edge[a]
  <1>1. PICK p \in Points, c \in Corners :
               box = [low |-> p, high |-> c] /\ \A a \in Axes : p[a] < c[a]
    BY DEF Boxes
  <1>2. c[1] \in 0..Edge[1] /\ c[2] \in 0..Edge[2] /\ c[3] \in 0..Edge[3]
    BY DEF Corners
  <1>3. Edge[1] \in Nat /\ Edge[2] \in Nat /\ Edge[3] \in Nat
    BY PageAssumption DEF Axes
  <1>4. \A a \in Axes : p[a] \in Nat
    BY PointsAre
  <1>5. \A a \in Axes : c[a] \in Nat /\ c[a] <= Edge[a]
    BY <1>2, <1>3 DEF Axes
  <1>6. box.low = p /\ box.high = c
    BY <1>1
  <1> QED
    BY <1>1, <1>4, <1>5, <1>6 DEF IsBox

LEMMA LeavesBound ==
  ASSUME NEW l \in LeafKind
  PROVE  /\ l.low \in Corners /\ l.high \in Corners /\ l.voxel \in Voxels
         /\ \A a \in Axes : /\ l.low[a] \in Nat /\ l.high[a] \in Nat
                            /\ l.low[a] < l.high[a] /\ l.high[a] <= Edge[a] /\ Edge[a] \in Nat
  <1>1. l.low \in Corners /\ l.high \in Corners /\ l.voxel \in Voxels
        /\ \A a \in Axes : l.low[a] < l.high[a]
    BY DEF LeafKind
  <1>2. \A a \in Axes : Edge[a] \in Nat
    BY PageAssumption
  <1>3. l.low[1] \in 0..Edge[1] /\ l.low[2] \in 0..Edge[2] /\ l.low[3] \in 0..Edge[3]
    BY <1>1 DEF Corners
  <1>4. l.high[1] \in 0..Edge[1] /\ l.high[2] \in 0..Edge[2] /\ l.high[3] \in 0..Edge[3]
    BY <1>1 DEF Corners
  <1> QED
    BY <1>1, <1>2, <1>3, <1>4 DEF Axes

(* Two boxes meet where some point is in both.                             *)
LEMMA MeetIsShared ==
  ASSUME NEW l \in LeafKind, NEW box \in Boxes
  PROVE  Meets(l, box) <=> \E p \in Points : Within(p, l) /\ Within(p, box)
  <1>1. \A a \in Axes : /\ l.low[a] \in Nat /\ l.high[a] \in Nat
                        /\ l.low[a] < l.high[a] /\ l.high[a] <= Edge[a] /\ Edge[a] \in Nat
    BY LeavesBound
  <1>2. \A a \in Axes : box.low[a] \in Nat /\ box.high[a] \in Nat /\ box.low[a] < box.high[a]
    BY BoxesAre DEF IsBox
  <1>3. ASSUME Meets(l, box) PROVE \E p \in Points : Within(p, l) /\ Within(p, box)
    <2> DEFINE At(a) == IF l.low[a] < box.low[a] THEN box.low[a] ELSE l.low[a]
               p == <<At(1), At(2), At(3)>>
    <2>1. \A a \in Axes : /\ At(a) \in 0..Edge[a] - 1
                          /\ l.low[a] <= At(a) /\ At(a) < l.high[a]
                          /\ box.low[a] <= At(a) /\ At(a) < box.high[a]
      BY <1>1, <1>2, <1>3 DEF Meets
    <2>2. 1 \in Axes /\ 2 \in Axes /\ 3 \in Axes /\ \A a \in Axes : a \in {1, 2, 3}
      BY DEF Axes
    <2>3. p[1] = At(1) /\ p[2] = At(2) /\ p[3] = At(3)
      OBVIOUS
    <2> HIDE DEF At
    <2>4. p \in Points
      BY <2>1, <2>2 DEF Points
    <2> HIDE DEF p
    <2>5. \A a \in Axes : p[a] = At(a)
      BY <2>2, <2>3
    <2> QED
      BY <2>1, <2>4, <2>5 DEF Within
  <1>4. ASSUME NEW p \in Points, Within(p, l), Within(p, box) PROVE Meets(l, box)
    <2> SUFFICES ASSUME NEW a \in Axes PROVE box.low[a] < l.high[a] /\ l.low[a] < box.high[a]
      BY DEF Meets
    <2>1. p[a] \in Nat
      BY PointsAre
    <2> QED
      BY <1>1, <1>2, <1>4, <2>1 DEF Within
  <1> QED
    BY <1>3, <1>4

LEMMA OneLayer ==
  ASSUME NEW W, NEW w \in W, NEW e \in Nat \ {0}
  PROVE  LET r == <<[to |-> e, what |-> w]>>
         IN  r \in Layers(W, e) /\ \A x \in Nat : x < e => Holding(r, x) = w
  <1> DEFINE item == [to |-> e, what |-> w]
             r == <<item>>
  <1>1. item \in Item(W) /\ item.to = e /\ item.what = w
    BY DEF Item
  <1> HIDE DEF item
  <1>2. r \in Seq(Item(W)) /\ Len(r) = 1 /\ DOMAIN r = {1} /\ r[1] = item
    BY <1>1
  <1> HIDE DEF r
  <1>3. StartAt(r, 1) = 0
    BY DEF StartAt
  <1>4. EndOf(r) = e
    BY <1>1, <1>2, ItemsAre
  <1>5. IsReduced(r, e)
    <2>1. StartAt(r, 1) < r[1].to
      BY <1>1, <1>2, <1>3
    <2>2. \A i \in DOMAIN r : StartAt(r, i) < r[i].to
      BY <1>2, <2>1
    <2>3. DOMAIN r \ {1} = {}
      BY <1>2
    <2> QED
      BY <1>4, <2>2, <2>3 DEF IsReduced
  <1>6. ASSUME NEW x \in Nat, x < e PROVE Holding(r, x) = w
    <2>1. Covers(r, 1, x)
      BY <1>1, <1>2, <1>3, <1>6 DEF Covers
    <2> QED
      BY <1>1, <1>2, <1>5, <2>1, HoldingIs
  <1> QED
    BY <1>2, <1>5, <1>6 DEF Layers, r, item

LEMMA UniformFits ==
  ASSUME NEW v \in Voxels
  PROVE  Uniform(v) \in Pages /\ \A p \in Points : LeafAt(Uniform(v), p) = v
  <1>1. Edge[1] \in Nat \ {0} /\ Edge[2] \in Nat \ {0} /\ Edge[3] \in Nat \ {0}
    BY PageAssumption DEF Axes
  <1> DEFINE runs == <<[to |-> Edge[1], what |-> v]>>
             bands == <<[to |-> Edge[2], what |-> runs]>>
             slabs == <<[to |-> Edge[3], what |-> bands]>>
  <1>2. Canonical(v) = v
    BY DEF Canonical, Voxels
  <1>3. Uniform(v) = slabs
    BY <1>2 DEF Uniform
  <1>4. runs \in Bands /\ \A x \in Nat : x < Edge[1] => Holding(runs, x) = v
    BY <1>1, OneLayer DEF Bands
  <1> HIDE DEF runs
  <1>5. bands \in Slabs /\ \A x \in Nat : x < Edge[2] => Holding(bands, x) = runs
    BY <1>1, <1>4, OneLayer DEF Slabs
  <1> HIDE DEF bands
  <1>6. slabs \in Pages /\ \A x \in Nat : x < Edge[3] => Holding(slabs, x) = bands
    BY <1>1, <1>5, OneLayer DEF Pages
  <1> HIDE DEF slabs
  <1>7. ASSUME NEW p \in Points PROVE LeafAt(slabs, p) = v
    <2>1. /\ p[1] \in Nat /\ p[1] < Edge[1] /\ p[2] \in Nat /\ p[2] < Edge[2]
          /\ p[3] \in Nat /\ p[3] < Edge[3]
      BY PointsAre DEF Axes
    <2> QED
      BY <1>4, <1>5, <1>6, <2>1 DEF LeafAt
  <1> QED
    BY <1>3, <1>6, <1>7

PageInv ==
  /\ page \in Pages
  /\ content \in [Points -> Voxels]
  /\ \A p \in Points : LeafAt(page, p) = content[p]

LEMMA PageInvariant == PageSpec => []PageInv
  <1>1. PageInit => PageInv
    <2> SUFFICES ASSUME PageInit PROVE PageInv
      OBVIOUS
    <2>1. PICK v \in Voxels : page = Uniform(v) /\ content = [p \in Points |-> v]
      BY DEF PageInit
    <2>2. content \in [Points -> Voxels] /\ \A p \in Points : content[p] = v
      BY <2>1
    <2> QED
      BY <2>1, <2>2, UniformFits DEF PageInv
  <1>2. PageInv /\ [PageNext]_PageVars => PageInv'
    <2> SUFFICES ASSUME PageInv, [PageNext]_PageVars PROVE PageInv'
      OBVIOUS
    <2>1. CASE ReplaceBox
      <3>1. PICK box \in Boxes, v \in Voxels \cup {WornAir} :
                   /\ page' = Replace(page, box, v)
                   /\ content' = [p \in Points |-> IF Within(p, box) THEN Canonical(v) ELSE content[p]]
        BY <2>1 DEF ReplaceBox
      <3>2. /\ page' \in Pages
            /\ \A p \in Points :
                 LeafAt(page', p) = IF Within(p, box) THEN Canonical(v) ELSE LeafAt(page, p)
        BY <3>1, BoxesAre, ReplaceFits DEF PageInv
      <3>3. Canonical(v) \in Voxels
        BY DEF Canonical, Voxels
      <3>4. \A p \in Points : content'[p] = IF Within(p, box) THEN Canonical(v) ELSE content[p]
        BY <3>1
      <3>5. content' \in [Points -> Voxels]
        BY <3>1, <3>3 DEF PageInv
      <3> QED
        BY <3>2, <3>4, <3>5 DEF PageInv
    <2>2. CASE ReadRecord
      BY <2>2 DEF ReadRecord, PageInv
    <2>3. CASE UNCHANGED PageVars
      BY <2>3 DEF PageVars, PageInv
    <2> QED
      BY <2>1, <2>2, <2>3 DEF PageNext
  <1> QED
    BY <1>1, <1>2, PTL DEF PageSpec

LEMMA PagesAreCanonical ==
  ASSUME NEW of \in Pages
  PROVE  IsCanonical(of)
  <1>1. of \in Seq(Item(Slabs)) /\ IsReduced(of, Edge[3])
    BY DEF Pages, Layers
  <1>2. \A s \in DOMAIN of : of[s].what \in Slabs
    BY <1>1, ItemsAre
  <1>3. ASSUME NEW s \in DOMAIN of
        PROVE  /\ IsReduced(of[s].what, Edge[2])
               /\ \A b \in DOMAIN of[s].what : IsReduced(of[s].what[b].what, Edge[1])
    <2> DEFINE bands == of[s].what
    <2>1. bands \in Slabs
      BY <1>2
    <2> HIDE DEF bands
    <2>2. bands \in Seq(Item(Bands)) /\ IsReduced(bands, Edge[2])
      BY <2>1 DEF Slabs, Layers
    <2>3. \A b \in DOMAIN bands : bands[b].what \in Bands
      BY <2>2, ItemsAre
    <2>4. \A b \in DOMAIN bands : IsReduced(bands[b].what, Edge[1])
      BY <2>3 DEF Bands, Layers
    <2> QED
      BY <2>2, <2>4 DEF bands
  <1> QED
    BY <1>1, <1>3 DEF IsCanonical

(* The leaves of a page, as a set: those that tile it.                     *)
LEMMA LeavesTile ==
  ASSUME NEW of \in Pages
  PROVE  /\ \A l \in Leaves(of) : l \in LeafKind
         /\ \A l \in Leaves(of), p \in Points : Within(p, l) => l.voxel = LeafAt(of, p)
         /\ \A p \in Points : \E l \in Leaves(of) : Within(p, l)
         /\ \A p \in Points, l \in Leaves(of), m \in Leaves(of) :
              Within(p, l) /\ Within(p, m) => l = m
  <1> DEFINE list == LeafList(of)
             mat == [p \in Points |-> LeafAt(of, p)]
  <1>1. \A p \in Points : mat[p] = LeafAt(of, p)
    OBVIOUS
  <1> HIDE DEF mat
  <1>2. Tiles(list, Points, mat)
    BY <1>1, PageTiles
  <1> HIDE DEF list
  <1>3. Leaves(of) = {list[i] : i \in DOMAIN list}
    BY DEF Leaves, list, Range
  <1> QED
    BY <1>1, <1>2, <1>3 DEF Tiles

(* Whatever edits came before, the page holds each unit's last material,   *)
(* is reduced, accounts for every unit, and answers every query of a box   *)
(* by its units, for boxes of any size.                                    *)
THEOREM PageKeepsContent == PageSpec => []PageIsContent
  <1>1. PageInv => PageIsContent
    <2> SUFFICES ASSUME PageInv PROVE PageIsContent
      OBVIOUS
    <2>1. page \in Pages /\ \A p \in Points : LeafAt(page, p) = content[p]
      BY DEF PageInv
    <2>2. IsCanonical(page)
      BY <2>1, PagesAreCanonical
    <2>3. ASSUME NEW v \in Voxels
          PROVE  MaterialUnits(page, v) = Cardinality({p \in Points : content[p] = v})
      <3>1. Tiles(LeafList(page), Points, content)
        BY <2>1, PageTiles
      <3> QED
        BY <3>1, UnitsAreCounted DEF MaterialUnits
    <2>4. ASSUME NEW box \in Boxes
          PROVE  OverlapsSolid(Leaves(page), box) <=>
                   \E p \in {q \in Points : content[q] \in Solids} : Within(p, box)
      <3>1. ASSUME NEW l \in Leaves(page), l.voxel \in Solids, Meets(l, box)
            PROVE  \E p \in {q \in Points : content[q] \in Solids} : Within(p, box)
        <4>1. PICK p \in Points : Within(p, l) /\ Within(p, box)
          BY <2>1, <3>1, LeavesTile, MeetIsShared
        <4>2. content[p] = l.voxel
          BY <2>1, <4>1, LeavesTile
        <4> QED
          BY <3>1, <4>1, <4>2
      <3>2. ASSUME NEW p \in Points, content[p] \in Solids, Within(p, box)
            PROVE  \E l \in Leaves(page) : l.voxel \in Solids /\ Meets(l, box)
        <4>1. PICK l \in Leaves(page) : Within(p, l)
          BY <2>1, LeavesTile
        <4>2. l.voxel = content[p] /\ l \in LeafKind
          BY <2>1, <4>1, LeavesTile
        <4>3. Meets(l, box)
          BY <3>2, <4>1, <4>2, MeetIsShared
        <4> QED
          BY <3>2, <4>2, <4>3
      <3> QED
        BY <3>1, <3>2 DEF OverlapsSolid
    <2> QED
      BY <2>1, <2>2, <2>3, <2>4 DEF PageIsContent
  <1> QED
    BY <1>1, PageInvariant, PTL

-----------------------------------------------------------------------------
(* The boundary.                                                           *)

LEMMA TripleIs ==
  ASSUME NEW A, NEW B, NEW C, NEW p, DOMAIN p = 1..3, p = [i \in 1..3 |-> p[i]]
  PROVE  p \in A \X B \X C <=> p[1] \in A /\ p[2] \in B /\ p[3] \in C
  BY SMT

LEMMA PointIs ==
  ASSUME NEW p, DOMAIN p = Axes, p = [a \in Axes |-> p[a]]
  PROVE  p \in Points <=> \A a \in Axes : p[a] \in 0..Edge[a] - 1
  <1>1. p \in Points <=>
          p[1] \in 0..Edge[1] - 1 /\ p[2] \in 0..Edge[2] - 1 /\ p[3] \in 0..Edge[3] - 1
    BY TripleIs DEF Points, Axes
  <1> QED
    BY <1>1 DEF Axes

LEMMA PointIsMap ==
  ASSUME NEW p \in Points
  PROVE  /\ DOMAIN p = Axes /\ p = [a \in Axes |-> p[a]]
         /\ \A a \in Axes : p[a] \in 0..Edge[a] - 1 /\ p[a] \in Nat /\ Edge[a] \in Nat \ {0}
  <1>1. DOMAIN p = Axes /\ p = [a \in Axes |-> p[a]]
    BY DEF Points, Axes
  <1>2. \A a \in Axes : p[a] \in 0..Edge[a] - 1
    BY <1>1, PointIs
  <1>3. \A a \in Axes : Edge[a] \in Nat \ {0}
    BY PageAssumption
  <1> QED
    BY <1>1, <1>2, <1>3

LEMMA PointsEqual ==
  ASSUME NEW p \in Points, NEW q \in Points, \A a \in Axes : p[a] = q[a]
  PROVE  p = q
  BY PointIsMap

LEMMA ReminderIs ==
  ASSUME NEW e \in Nat \ {0}
  PROVE  /\ \A x \in 0..e - 1 : x % e = x
         /\ e % e = 0 /\ (-1) % e = e - 1
  <1>1. ASSUME NEW x \in Int, 0 <= x, x < e PROVE x % e = x
    BY <1>1, SMT
  <1>2. e % e = 0
    BY SMT
  <1>3. (-1) % e = e - 1
    BY SMT
  <1> QED
    BY <1>1, <1>2, <1>3

(* The unit beside a face, on the page or, wrapped, across its border.     *)
Across(x, e, positive) ==
  IF positive THEN (IF x + 1 = e THEN 0 ELSE x + 1) ELSE (IF x = 0 THEN e - 1 ELSE x - 1)

LEMMA BesideIs ==
  ASSUME NEW p \in Points, NEW f \in Faces
  PROVE  LET n == Beside(p, f)
             w == Wrapped(n)
             x == p[f.axis]
             e == Edge[f.axis]
         IN  /\ w \in Points
             /\ w[f.axis] = Across(x, e, f.positive)
             /\ \A a \in Axes \ {f.axis} : w[a] = p[a]
             /\ n \in Points => w = n
             /\ n \in Points <=> IF f.positive THEN x + 1 # e ELSE x # 0
  <1> DEFINE n == Beside(p, f)
             w == Wrapped(n)
             c == f.axis
             x == p[c]
             e == Edge[c]
             d == IF f.positive THEN 1 ELSE -1
  <1>1. c \in Axes /\ f.positive \in BOOLEAN
    BY DEF Faces
  <1>2. DOMAIN p = Axes /\ p = [a \in Axes |-> p[a]]
        /\ \A a \in Axes : p[a] \in 0..Edge[a] - 1 /\ p[a] \in Nat /\ Edge[a] \in Nat \ {0}
    BY PointIsMap
  <1>3. n = [p EXCEPT ![c] = x + d]
    BY DEF Beside
  <1>4. DOMAIN n = Axes /\ n[c] = x + d /\ \A a \in Axes \ {c} : n[a] = p[a]
    BY <1>1, <1>2, <1>3
  <1>5. n = [a \in Axes |-> n[a]]
    BY <1>2, <1>3
  <1>6. w = [a \in Axes |-> n[a] % Edge[a]]
    BY DEF Wrapped
  <1> HIDE DEF n
  <1>7. DOMAIN w = Axes /\ w = [a \in Axes |-> w[a]] /\ \A a \in Axes : w[a] = n[a] % Edge[a]
    BY <1>6
  <1> HIDE DEF w, c, x, e
  <1>8. x \in 0..e - 1 /\ e \in Nat \ {0}
    BY <1>1, <1>2 DEF x, e
  <1>9. w[c] = (x + d) % e
    BY <1>1, <1>4, <1>7 DEF e
  <1>10. (x + d) % e = Across(x, e, f.positive)
    <2>1. CASE f.positive
      <3>1. x + 1 = e \/ x + 1 \in 0..e - 1
        BY <1>8
      <3> QED
        BY <1>8, <2>1, <3>1, ReminderIs DEF Across
    <2>2. CASE ~f.positive
      <3>1. (x = 0 /\ x + (-1) = -1) \/ (x # 0 /\ x + (-1) \in 0..e - 1 /\ x + (-1) = x - 1)
        BY <1>8
      <3> QED
        BY <1>8, <2>2, <3>1, ReminderIs DEF Across
    <2> QED
      BY <2>1, <2>2
  <1>11. \A a \in Axes \ {c} : w[a] = p[a]
    <2> SUFFICES ASSUME NEW a \in Axes \ {c} PROVE w[a] = p[a]
      OBVIOUS
    <2>1. w[a] = p[a] % Edge[a] /\ p[a] \in 0..Edge[a] - 1 /\ Edge[a] \in Nat \ {0}
      BY <1>2, <1>4, <1>7
    <2> QED
      BY <2>1, ReminderIs
  <1>12. Across(x, e, f.positive) \in 0..e - 1
    BY <1>8 DEF Across
  <1>13. w \in Points
    <2>1. \A a \in Axes : w[a] \in 0..Edge[a] - 1
      BY <1>1, <1>2, <1>9, <1>10, <1>11, <1>12 DEF e
    <2> QED
      BY <1>7, <2>1, PointIs
  <1>14. n \in Points <=> x + d \in 0..e - 1
    <2>1. n \in Points <=> \A a \in Axes : n[a] \in 0..Edge[a] - 1
      BY <1>4, <1>5, PointIs
    <2> QED
      BY <1>1, <1>2, <1>4, <2>1 DEF e
  <1>15. x + d \in 0..e - 1 <=> IF f.positive THEN x + 1 # e ELSE x # 0
    BY <1>8
  <1>16. n \in Points => w = n
    <2> SUFFICES ASSUME n \in Points PROVE w = n
      OBVIOUS
    <2>1. \A a \in Axes : n[a] \in 0..Edge[a] - 1 /\ Edge[a] \in Nat \ {0}
      BY <1>2, PointIsMap
    <2>2. \A a \in Axes : w[a] = n[a]
      BY <1>7, <2>1, ReminderIs
    <2> QED
      BY <1>13, <2>2, PointsEqual
  <1> QED
    BY <1>9, <1>10, <1>11, <1>13, <1>14, <1>15, <1>16 DEF w, n, c, x, e

LEMMA BeyondIs ==
  ASSUME NEW l \in LeafKind, NEW f \in Faces
  PROVE  LET b == Beyond(l, f)
         IN  /\ \A a \in Axes \ {f.axis} : b.low[a] = l.low[a] /\ b.high[a] = l.high[a]
             /\ b.low[f.axis] = LayerBeyond(l, f) /\ b.high[f.axis] = LayerBeyond(l, f) + 1
  <1> DEFINE c == f.axis
             low == [l.low EXCEPT ![c] = LayerBeyond(l, f)]
             high == [l.high EXCEPT ![c] = LayerBeyond(l, f) + 1]
  <1>1. c \in Axes
    BY DEF Faces
  <1>2. l.low \in Corners /\ l.high \in Corners
    BY LeavesBound
  <1>3. DOMAIN l.low = Axes /\ DOMAIN l.high = Axes
    BY <1>2 DEF Corners, Axes
  <1>4. Beyond(l, f) = [low |-> low, high |-> high]
    BY DEF Beyond
  <1>5. /\ \A a \in Axes \ {c} : low[a] = l.low[a] /\ high[a] = l.high[a]
        /\ low[c] = LayerBeyond(l, f) /\ high[c] = LayerBeyond(l, f) + 1
    BY <1>1, <1>3
  <1> HIDE DEF low, high
  <1>6. Beyond(l, f).low = low /\ Beyond(l, f).high = high
    BY <1>4
  <1> QED
    BY <1>5, <1>6

(* A leaf whose face lies on a face of a unit that it holds: its layer     *)
(* beyond is that of the unit beside.                                      *)
AtFace(l, p, f) == Plane(l, f) = p[f.axis] + (IF f.positive THEN 1 ELSE 0)

LEMMA LayerIs ==
  ASSUME NEW l \in LeafKind, NEW f \in Faces, NEW p \in Points, AtFace(l, p, f)
  PROVE  /\ LayerBeyond(l, f) = Wrapped(Beside(p, f))[f.axis]
         /\ External(l, f) <=> Beside(p, f) \notin Points
         /\ l.low[f.axis] <= p[f.axis] /\ p[f.axis] < l.high[f.axis]
  <1> DEFINE c == f.axis
             x == p[c]
             e == Edge[c]
             lo == l.low[c]
             hi == l.high[c]
  <1>1. c \in Axes /\ f.positive \in BOOLEAN
    BY DEF Faces
  <1>2. lo \in Nat /\ hi \in Nat /\ lo < hi /\ hi <= e /\ x \in Nat /\ x < e /\ e \in Nat
    BY <1>1, LeavesBound, PointsAre
  <1>3. Plane(l, f) = IF f.positive THEN hi ELSE lo
    BY DEF Plane
  <1>4. External(l, f) <=> Plane(l, f) = IF f.positive THEN e ELSE 0
    BY DEF External
  <1>5. LayerBeyond(l, f) = IF External(l, f) THEN (IF f.positive THEN 0 ELSE e - 1)
                            ELSE IF f.positive THEN Plane(l, f) ELSE Plane(l, f) - 1
    BY DEF LayerBeyond
  <1>6. /\ Wrapped(Beside(p, f))[c] = Across(x, e, f.positive)
        /\ Beside(p, f) \in Points <=> IF f.positive THEN x + 1 # e ELSE x # 0
    BY BesideIs
  <1>7. Plane(l, f) = x + (IF f.positive THEN 1 ELSE 0)
    BY DEF AtFace
  <1> HIDE DEF c, x, e, lo, hi
  <1>8. CASE f.positive
    BY <1>2, <1>3, <1>4, <1>5, <1>6, <1>7, <1>8 DEF Across, c, x, lo, hi
  <1>9. CASE ~f.positive
    BY <1>2, <1>3, <1>4, <1>5, <1>6, <1>7, <1>9 DEF Across, c, x, lo, hi
  <1> QED
    BY <1>1, <1>8, <1>9

(* The rectangle of a face of a leaf before another leaf.                  *)
QuadOf(l, f, m) ==
  [plane |-> Plane(l, f), low |-> Meet(m, Beyond(l, f)).low, high |-> Meet(m, Beyond(l, f)).high,
   face |-> f, voxel |-> l.voxel, owner |-> l]

Pair(of, border, l, f, m) ==
  /\ l \in Leaves(of) /\ l.voxel \in Solids
  /\ m \in Leaves(IF External(l, f) THEN border ELSE of) /\ m.voxel \notin Solids
  /\ Meets(m, Beyond(l, f))

SurfaceAt(of, border) == Surface(of, [f \in Faces |-> border])

LEMMA QuadsAre ==
  ASSUME NEW of, NEW border, NEW q
  PROVE  q \in SurfaceAt(of, border) <=>
           \E l, m : \E f \in Faces : Pair(of, border, l, f, m) /\ q = QuadOf(l, f, m)
  <1> DEFINE neighbour == [f \in Faces |-> border]
             Of(l, f) == IF External(l, f) THEN border ELSE of
             Cut(l, f, m) == [low |-> Meet(m, Beyond(l, f)).low,
                              high |-> Meet(m, Beyond(l, f)).high, voxel |-> m.voxel]
  <1>1. \A f \in Faces : neighbour[f] = border
    OBVIOUS
  <1>2. q \in Surface(of, neighbour) <=>
          \E l \in Leaves(of), f \in Faces : l.voxel \in Solids /\ q \in QuadsOf(of, neighbour, l, f)
    BY DEF Surface
  <1> HIDE DEF neighbour
  <1>3. ASSUME NEW l, NEW f \in Faces
        PROVE  q \in QuadsOf(of, neighbour, l, f) <=>
                 \E m \in Leaves(Of(l, f)) :
                   Meets(m, Beyond(l, f)) /\ m.voxel \notin Solids /\ q = QuadOf(l, f, m)
    <2> DEFINE Q(o) == [plane |-> Plane(l, f), low |-> o.low, high |-> o.high, face |-> f,
                        voxel |-> l.voxel, owner |-> l]
               Runs == RunsIn(Leaves(Of(l, f)), Beyond(l, f))
    <2>1. QuadsOf(of, neighbour, l, f) = {Q(o) : o \in {r \in Runs : r.voxel \notin Solids}}
      BY <1>1 DEF QuadsOf
    <2>2. \A o : o \in Runs <=>
             \E m \in Leaves(Of(l, f)) : Meets(m, Beyond(l, f)) /\ o = Cut(l, f, m)
      BY DEF RunsIn
    <2>3. \A m : Cut(l, f, m).voxel = m.voxel /\ Q(Cut(l, f, m)) = QuadOf(l, f, m)
      BY DEF QuadOf
    <2> HIDE DEF Q, Runs, Cut, Of
    <2> QED
      BY <2>1, <2>2, <2>3
  <1> QED
    BY <1>2, <1>3 DEF Pair, neighbour, SurfaceAt

LEMMA MeetIs ==
  ASSUME NEW m \in LeafKind, NEW box, NEW a \in Axes, box.low[a] \in Int, box.high[a] \in Int,
         NEW x \in Int
  PROVE  Meet(m, box).low[a] <= x /\ x < Meet(m, box).high[a] <=>
           m.low[a] <= x /\ x < m.high[a] /\ box.low[a] <= x /\ x < box.high[a]
  <1> DEFINE low == IF m.low[a] > box.low[a] THEN m.low[a] ELSE box.low[a]
             high == IF m.high[a] < box.high[a] THEN m.high[a] ELSE box.high[a]
  <1>1. Meet(m, box).low[a] = low /\ Meet(m, box).high[a] = high
    BY DEF Meet
  <1>2. m.low[a] \in Int /\ m.high[a] \in Int
    BY LeavesBound
  <1> QED
    BY <1>1, <1>2

(* A rectangle covers the face of a unit where its leaf holds the unit and *)
(* ends there, and the leaf that it lies before holds the unit beside.     *)
LEMMA QuadCovers ==
  ASSUME NEW l \in LeafKind, NEW m \in LeafKind, NEW f \in Faces, NEW p \in Points
  PROVE  /\ QuadOf(l, f, m).face = f /\ QuadOf(l, f, m).voxel = l.voxel
         /\ Meets(m, Beyond(l, f)) /\ CoversFace(QuadOf(l, f, m), p, f) <=>
              AtFace(l, p, f) /\ Within(p, l) /\ Within(Wrapped(Beside(p, f)), m)
  <1> DEFINE c == f.axis
             q == QuadOf(l, f, m)
             b == Beyond(l, f)
             w == Wrapped(Beside(p, f))
             Others == Axes \ {c}
  <1>1. c \in Axes
    BY DEF Faces
  <1>2. q.face = f /\ q.plane = Plane(l, f) /\ q.voxel = l.voxel
        /\ q.low = Meet(m, b).low /\ q.high = Meet(m, b).high
    BY DEF QuadOf
  <1>3. \A a \in Axes : /\ l.low[a] \in Nat /\ l.high[a] \in Nat /\ l.low[a] < l.high[a]
                        /\ m.low[a] \in Nat /\ m.high[a] \in Nat /\ m.low[a] < m.high[a]
                        /\ p[a] \in Nat
    BY LeavesBound, PointsAre
  <1>4. \A a \in Others : b.low[a] = l.low[a] /\ b.high[a] = l.high[a]
    BY BeyondIs
  <1>5. b.low[c] = LayerBeyond(l, f) /\ b.high[c] = LayerBeyond(l, f) + 1
    BY BeyondIs
  <1>6. \A a \in Others : w[a] = p[a]
    BY BesideIs
  <1>7. w \in Points /\ w[c] \in Nat
    BY <1>1, BesideIs, PointsAre
  <1> HIDE DEF q, b, w
  <1>8. \A a \in Others : q.low[a] <= p[a] /\ p[a] < q.high[a] <=>
          m.low[a] <= p[a] /\ p[a] < m.high[a] /\ l.low[a] <= p[a] /\ p[a] < l.high[a]
    BY <1>2, <1>3, <1>4, MeetIs
  <1>9. CoversFace(q, p, f) <=>
          /\ AtFace(l, p, f)
          /\ \A a \in Others : m.low[a] <= p[a] /\ p[a] < m.high[a] /\ l.low[a] <= p[a] /\ p[a] < l.high[a]
    BY <1>2, <1>8 DEF CoversFace, AtFace
  <1>10. SUFFICES ASSUME AtFace(l, p, f)
                  PROVE  Meets(m, b) /\ CoversFace(q, p, f) <=> Within(p, l) /\ Within(w, m)
    BY <1>2, <1>9 DEF q, b, w
  <1>11. LayerBeyond(l, f) = w[c] /\ l.low[c] <= p[c] /\ p[c] < l.high[c]
    BY <1>10, LayerIs DEF w
  <1>12. Within(p, l) <=> \A a \in Others : l.low[a] <= p[a] /\ p[a] < l.high[a]
    BY <1>1, <1>11 DEF Within
  <1>13. Within(w, m) <=> /\ m.low[c] <= w[c] /\ w[c] < m.high[c]
                          /\ \A a \in Others : m.low[a] <= p[a] /\ p[a] < m.high[a]
    BY <1>1, <1>6 DEF Within
  <1>14. (b.low[c] < m.high[c] /\ m.low[c] < b.high[c]) <=> (m.low[c] <= w[c] /\ w[c] < m.high[c])
    BY <1>1, <1>3, <1>5, <1>7, <1>11
  <1>15. Meets(m, b) => m.low[c] <= w[c] /\ w[c] < m.high[c]
    BY <1>1, <1>14 DEF Meets
  <1>16. ASSUME Within(p, l), Within(w, m) PROVE Meets(m, b)
    <2>1. \A a \in Others : b.low[a] < m.high[a] /\ m.low[a] < b.high[a]
      BY <1>3, <1>4, <1>12, <1>13, <1>16
    <2>2. b.low[c] < m.high[c] /\ m.low[c] < b.high[c]
      BY <1>13, <1>14, <1>16
    <2> QED
      BY <2>1, <2>2 DEF Meets
  <1> QED
    BY <1>9, <1>10, <1>12, <1>13, <1>15, <1>16

(* Between a solid unit and an air unit, on the page or across its border, *)
(* there is exactly one rectangle of that unit's material, and nowhere     *)
(* else, for pages of any size.                                            *)
LEMMA BoundaryOf ==
  ASSUME NEW of \in Pages, NEW border \in Pages, NEW p \in Points, NEW f \in Faces
  PROVE  LET beside == Beside(p, f)
             open == LeafAt(of, p) \in Solids
                     /\ LeafAt(IF beside \in Points THEN of ELSE border, Wrapped(beside)) \notin Solids
             over == {q \in SurfaceAt(of, border) : CoversFace(q, p, f)}
         IN  /\ Cardinality(over) = (IF open THEN 1 ELSE 0)
             /\ \A q \in over : q.voxel = LeafAt(of, p)
  <1> DEFINE beside == Beside(p, f)
             w == Wrapped(beside)
             other == IF beside \in Points THEN of ELSE border
             open == LeafAt(of, p) \in Solids /\ LeafAt(other, w) \notin Solids
             quads == SurfaceAt(of, border)
             over == {q \in quads : CoversFace(q, p, f)}
  <1>1. w \in Points /\ (beside \in Points => w = beside)
    BY BesideIs
  <1>2. other \in Pages
    OBVIOUS
  <1>10. \A q : q \in quads <=>
           \E l, m : \E g \in Faces : Pair(of, border, l, g, m) /\ q = QuadOf(l, g, m)
    BY QuadsAre
  <1> HIDE DEF quads
  <1>3. PICK l \in Leaves(of) : Within(p, l)
    BY LeavesTile
  <1>4. PICK m \in Leaves(other) : Within(w, m)
    BY <1>1, <1>2, LeavesTile
  <1>5. l \in LeafKind /\ m \in LeafKind /\ l.voxel = LeafAt(of, p) /\ m.voxel = LeafAt(other, w)
    BY <1>1, <1>2, <1>3, <1>4, LeavesTile
  <1>6. ASSUME NEW q \in over PROVE open /\ q = QuadOf(l, f, m)
    <2>1. q \in quads /\ CoversFace(q, p, f)
      OBVIOUS
    <2>2. PICK l2, m2 : \E g \in Faces : Pair(of, border, l2, g, m2) /\ q = QuadOf(l2, g, m2)
      BY <1>10, <2>1
    <2>3. PICK g \in Faces : Pair(of, border, l2, g, m2) /\ q = QuadOf(l2, g, m2)
      BY <2>2
    <2>4. l2 \in LeafKind /\ m2 \in LeafKind
      <3>1. (IF External(l2, g) THEN border ELSE of) \in Pages
        OBVIOUS
      <3> QED
        BY <2>3, <3>1, LeavesTile DEF Pair
    <2>5. g = f
      <3>1. q.face = g
        BY <2>3, <2>4, QuadCovers
      <3>2. q.face = f
        BY <2>1 DEF CoversFace
      <3> QED
        BY <3>1, <3>2
    <2>6. AtFace(l2, p, f) /\ Within(p, l2) /\ Within(w, m2)
      BY <2>1, <2>3, <2>4, <2>5, QuadCovers DEF Pair
    <2>7. (IF External(l2, f) THEN border ELSE of) = other
      BY <2>4, <2>6, LayerIs
    <2>8. l2 \in Leaves(of) /\ m2 \in Leaves(other) /\ l2.voxel \in Solids /\ m2.voxel \notin Solids
      BY <2>3, <2>5, <2>7 DEF Pair
    <2>9. l2 = l
      BY <1>3, <2>6, <2>8, LeavesTile
    <2>10. m2 = m
      BY <1>1, <1>2, <1>4, <2>6, <2>8, LeavesTile
    <2> QED
      BY <1>5, <2>3, <2>5, <2>8, <2>9, <2>10
  <1>7. ASSUME open PROVE QuadOf(l, f, m) \in over
    <2>1. l.voxel \in Solids /\ m.voxel \notin Solids
      BY <1>5, <1>7
    <2>2. AtFace(l, p, f)
      <3> DEFINE c == f.axis
                 x == p[c]
                 e == Edge[c]
      <3>1. c \in Axes /\ f.positive \in BOOLEAN
        BY DEF Faces
      <3>2. \A a \in Axes : l.low[a] \in Nat /\ l.high[a] \in Nat /\ l.high[a] <= Edge[a]
                            /\ Edge[a] \in Nat /\ l.low[a] <= p[a] /\ p[a] < l.high[a] /\ p[a] \in Nat
        BY <1>3, <1>5, LeavesBound, PointsAre DEF Within
      <3>3. ASSUME beside \in Points, l.low[c] <= w[c], w[c] < l.high[c] PROVE FALSE
        <4>1. \A a \in Axes \ {c} : w[a] = p[a]
          BY BesideIs
        <4>2. Within(w, l)
          BY <3>2, <3>3, <4>1 DEF Within
        <4>3. l.voxel = LeafAt(of, w)
          BY <1>1, <1>3, <4>2, LeavesTile
        <4> QED
          BY <1>5, <2>1, <3>3, <4>3
      <3>4. /\ w[c] = Across(x, e, f.positive)
            /\ beside \in Points <=> IF f.positive THEN x + 1 # e ELSE x # 0
        BY BesideIs
      <3>5. Plane(l, f) = IF f.positive THEN l.high[c] ELSE l.low[c]
        BY DEF Plane
      <3> DEFINE lo == l.low[c]
                 hi == l.high[c]
      <3>6. lo \in Nat /\ hi \in Nat /\ hi <= e /\ e \in Nat /\ lo <= x /\ x < hi /\ x \in Nat
        BY <3>1, <3>2
      <3>7. ASSUME beside \in Points, lo <= w[c], w[c] < hi PROVE FALSE
        BY <3>3, <3>7
      <3> HIDE DEF c, x, e, lo, hi, w, beside
      <3>8. CASE f.positive
        <4>1. Plane(l, f) = hi
          BY <3>5, <3>8 DEF hi
        <4>2. hi = x + 1
          BY <3>4, <3>6, <3>7, <3>8 DEF Across
        <4> QED
          BY <3>8, <4>1, <4>2 DEF AtFace, x, c
      <3>9. CASE ~f.positive
        <4>1. Plane(l, f) = lo
          BY <3>5, <3>9 DEF lo
        <4>2. lo = x + 0
          BY <3>4, <3>6, <3>7, <3>9 DEF Across
        <4> QED
          BY <3>9, <4>1, <4>2 DEF AtFace, x, c
      <3> QED
        BY <3>1, <3>8, <3>9
    <2>3. (IF External(l, f) THEN border ELSE of) = other
      BY <1>5, <2>2, LayerIs
    <2>4. Meets(m, Beyond(l, f)) /\ CoversFace(QuadOf(l, f, m), p, f)
      BY <1>3, <1>4, <1>5, <2>2, QuadCovers
    <2>5. Pair(of, border, l, f, m)
      BY <1>3, <1>4, <2>1, <2>3, <2>4 DEF Pair
    <2>6. QuadOf(l, f, m) \in quads
      BY <1>10, <2>5
    <2> QED
      BY <2>4, <2>6
  <1>8. \A q \in over : q.voxel = LeafAt(of, p)
    BY <1>5, <1>6, QuadCovers
  <1> HIDE DEF over, open
  <1>9. Cardinality(over) = IF open THEN 1 ELSE 0
    <2>1. CASE open
      <3>1. over = {QuadOf(l, f, m)}
        BY <1>6, <1>7, <2>1
      <3> QED
        BY <2>1, <3>1, FS_Singleton
    <2>2. CASE ~open
      <3>1. over = {}
        BY <1>6, <2>2
      <3> QED
        BY <2>2, <3>1, FS_EmptySet
    <2> QED
      BY <2>1, <2>2
  <1> QED
    BY <1>8, <1>9 DEF over, open, quads

(* Whatever edits came before, and whatever borders on the page: a unit of *)
(* solid has a face exactly where the unit beyond it is air, and no place  *)
(* has two faces, also where the page ends (volume/surface.rs: surface).   *)
THEOREM SurfaceIsExact == PageSpec => []SurfaceIsBoundary
  <1>1. PageInv => SurfaceIsBoundary
    <2> SUFFICES ASSUME PageInv,
                        NEW border \in {Uniform(v) : v \in Voxels} \cup {page},
                        NEW p \in Points, NEW f \in Faces
                 PROVE  LET quads == Surface(page, [g \in Faces |-> border])
                            beside == Beside(p, f)
                            open == content[p] \in Solids
                                    /\ LeafAt(IF beside \in Points THEN page ELSE border, Wrapped(beside)) \notin Solids
                            over == {q \in quads : CoversFace(q, p, f)}
                        IN /\ Cardinality(over) = (IF open THEN 1 ELSE 0)
                           /\ \A q \in over : q.voxel = content[p]
      BY DEF SurfaceIsBoundary
    <2>1. page \in Pages /\ LeafAt(page, p) = content[p]
      BY DEF PageInv
    <2>2. border \in Pages
      BY <2>1, UniformFits
    <2> DEFINE beside == Beside(p, f)
               open == LeafAt(page, p) \in Solids
                       /\ LeafAt(IF beside \in Points THEN page ELSE border, Wrapped(beside)) \notin Solids
               over == {q \in SurfaceAt(page, border) : CoversFace(q, p, f)}
    <2>3. /\ Cardinality(over) = (IF open THEN 1 ELSE 0)
          /\ \A q \in over : q.voxel = LeafAt(page, p)
      BY <2>1, <2>2, BoundaryOf
    <2>4. SurfaceAt(page, border) = Surface(page, [g \in Faces |-> border])
      BY DEF SurfaceAt
    <2> QED
      BY <2>1, <2>3, <2>4
  <1> QED
    BY <1>1, PageInvariant, PTL

-----------------------------------------------------------------------------
(* A content has one reduced partition.                                    *)

LEMMA SameStart ==
  ASSUME NEW W, NEW e, NEW a \in Layers(W, e), NEW b \in Layers(W, e),
         \A x \in Nat : x < e => Holding(a, x) = Holding(b, x),
         NEW n \in DOMAIN a, n \in DOMAIN b, StartAt(a, n) = StartAt(b, n)
  PROVE  a[n].what = b[n].what /\ a[n].to <= b[n].to
  <1>1. /\ e \in Nat /\ Len(a) \in Nat /\ DOMAIN a = 1..Len(a)
        /\ \A i \in DOMAIN a :
             /\ StartAt(a, i) \in Nat /\ a[i].to \in Nat
             /\ StartAt(a, i) < a[i].to /\ a[i].to <= e
    BY ItemsWithin
  <1>2. /\ Len(b) \in Nat /\ DOMAIN b = 1..Len(b)
        /\ \A i \in DOMAIN b :
             /\ StartAt(b, i) \in Nat /\ b[i].to \in Nat
             /\ StartAt(b, i) < b[i].to /\ b[i].to <= e
    BY ItemsWithin
  <1>3. a \in Seq(Item(W)) /\ IsReduced(a, e) /\ b \in Seq(Item(W)) /\ IsReduced(b, e)
    BY DEF Layers
  <1> DEFINE s == StartAt(a, n)
             ta == a[n].to
             tb == b[n].to
  <1>4. s \in Nat /\ ta \in Nat /\ tb \in Nat /\ s < ta /\ s < tb /\ ta <= e /\ tb <= e
    BY <1>1, <1>2
  <1>5. Covers(a, n, s) /\ Covers(b, n, s)
    BY <1>4 DEF Covers
  <1>6. Holding(a, s) = a[n].what /\ Holding(b, s) = b[n].what
    BY <1>3, <1>4, <1>5, HoldingIs
  <1>7. a[n].what = b[n].what
    BY <1>1, <1>4, <1>6
  <1>8. ASSUME tb < ta PROVE FALSE
    <2>1. Covers(a, n, tb)
      BY <1>4, <1>8 DEF Covers
    <2>2. Holding(a, tb) = a[n].what
      BY <1>3, <1>4, <2>1, HoldingIs
    <2>3. n # Len(b)
      <3>1. EndOf(b) = IF Len(b) = 0 THEN 0 ELSE b[Len(b)].to
        BY <1>3, ItemsAre
      <3>2. EndOf(b) = e
        BY <1>3 DEF IsReduced
      <3>3. ASSUME n = Len(b) PROVE e = tb
        BY <1>2, <3>1, <3>2, <3>3
      <3> HIDE DEF ta, tb, s
      <3> QED
        BY <1>1, <1>4, <1>8, <3>3
    <2> DEFINE k == n + 1
    <2>4. k \in DOMAIN b /\ k \in DOMAIN b \ {1} /\ k # 1 /\ k - 1 = n
      BY <1>2, <2>3
    <2> HIDE DEF k
    <2>5. StartAt(b, k) = tb
      BY <2>4 DEF StartAt
    <2>6. Covers(b, k, tb)
      BY <1>2, <1>4, <2>4, <2>5 DEF Covers
    <2>7. Holding(b, tb) = b[k].what
      BY <1>3, <1>4, <2>6, HoldingIs
    <2>8. b[k - 1].what # b[k].what
      BY <1>3, <2>4 DEF IsReduced
    <2>9. Holding(a, tb) = Holding(b, tb)
      <3> HIDE DEF ta, tb, s
      <3>1. tb < e /\ tb \in Nat
        BY <1>1, <1>4, <1>8
      <3> QED
        BY <3>1
    <2> QED
      BY <1>7, <2>2, <2>4, <2>7, <2>8, <2>9
  <1> QED
    BY <1>4, <1>7, <1>8

LEMMA LayersBegin ==
  ASSUME NEW W, NEW e, NEW a \in Layers(W, e), NEW b \in Layers(W, e),
         \A x \in Nat : x < e => Holding(a, x) = Holding(b, x)
  PROVE  Len(a) <= Len(b) /\ \A i \in 1..Len(a) : a[i] = b[i]
  <1> DEFINE L == Len(a)
             M == Len(b)
             G == {n \in 0..L : n <= M /\ \A i \in 1..n : a[i] = b[i]}
  <1>1. /\ e \in Nat /\ L \in Nat /\ DOMAIN a = 1..L
        /\ \A i \in DOMAIN a :
             /\ StartAt(a, i) \in Nat /\ a[i].to \in Nat
             /\ StartAt(a, i) < a[i].to /\ a[i].to <= e
    BY ItemsWithin
  <1>2. M \in Nat /\ DOMAIN b = 1..M
    BY ItemsWithin
  <1>3. a \in Seq(Item(W)) /\ b \in Seq(Item(W)) /\ IsReduced(b, e)
    BY DEF Layers
  <1>4. e = IF M = 0 THEN 0 ELSE b[M].to
    <2>1. EndOf(b) = IF Len(b) = 0 THEN 0 ELSE b[Len(b)].to
      BY <1>3, ItemsAre
    <2> QED
      BY <1>3, <2>1 DEF IsReduced
  <1>5. \A i \in DOMAIN a : a[i] \in Item(W)
    BY <1>3
  <1>6. \A i \in DOMAIN b : b[i] \in Item(W)
    BY <1>3
  <1> HIDE DEF L, M
  <1>7. 0 \in G
    BY <1>1, <1>2
  <1>8. ASSUME NEW n \in 1..L, n - 1 \in G PROVE n \in G
    <2>1. n - 1 <= M /\ \A i \in 1..n - 1 : a[i] = b[i]
      BY <1>8
    <2>2. StartAt(a, n) = IF n = 1 THEN 0 ELSE b[n - 1].to
      <3>1. n # 1 => n - 1 \in 1..n - 1
        BY <1>1
      <3> QED
        BY <2>1, <3>1 DEF StartAt
    <2>3. n <= M
      <3>1. ASSUME n - 1 = M PROVE FALSE
        <4>1. StartAt(a, n) = e
          BY <1>1, <1>2, <1>4, <2>2, <3>1
        <4>2. n \in DOMAIN a
          BY <1>1
        <4> QED
          BY <1>1, <4>1, <4>2
      <3> QED
        BY <1>1, <1>2, <2>1, <3>1
    <2>4. n \in DOMAIN a /\ n \in DOMAIN b
      BY <1>1, <1>2, <2>3
    <2>5. StartAt(a, n) = StartAt(b, n)
      BY <2>2 DEF StartAt
    <2>6. a[n].what = b[n].what /\ a[n].to <= b[n].to
      BY <2>4, <2>5, SameStart
    <2>7. b[n].to <= a[n].to
      BY <2>4, <2>5, SameStart
    <2>8. a[n] = b[n]
      <3>1. a[n] \in Item(W) /\ b[n] \in Item(W) /\ a[n].to \in Nat /\ b[n].to \in Nat
        BY <1>5, <1>6, <2>4 DEF Item
      <3>2. a[n].to = b[n].to
        BY <2>6, <2>7, <3>1
      <3> QED
        BY <2>6, <3>1, <3>2 DEF Item
    <2>9. \A i \in 1..n : i \in 1..n - 1 \/ i = n
      BY <1>1
    <2> QED
      BY <1>1, <2>1, <2>3, <2>8, <2>9
  <1> HIDE DEF G
  <1>9. \A n \in 0..L : n \in G
    BY <1>1, <1>7, <1>8, CountsUp
  <1> QED
    BY <1>1, <1>9 DEF G, L, M

LEMMA SeqsEqual ==
  ASSUME NEW S, NEW a \in Seq(S), NEW b \in Seq(S), Len(a) = Len(b),
         \A i \in 1..Len(a) : a[i] = b[i]
  PROVE  a = b
  <1>1. a = [i \in 1..Len(a) |-> a[i]] /\ b = [i \in 1..Len(b) |-> b[i]]
    OBVIOUS
  <1> QED
    BY <1>1

LEMMA LayersEqual ==
  ASSUME NEW W, NEW e, NEW a \in Layers(W, e), NEW b \in Layers(W, e),
         \A x \in Nat : x < e => Holding(a, x) = Holding(b, x)
  PROVE  a = b
  <1>1. Len(a) <= Len(b) /\ \A i \in 1..Len(a) : a[i] = b[i]
    BY LayersBegin
  <1>2. Len(b) <= Len(a)
    BY LayersBegin
  <1>3. a \in Seq(Item(W)) /\ b \in Seq(Item(W)) /\ Len(a) \in Nat /\ Len(b) \in Nat
    BY ItemsWithin DEF Layers
  <1>4. Len(a) = Len(b)
    BY <1>1, <1>2, <1>3
  <1> QED
    BY <1>1, <1>3, <1>4, SeqsEqual

(* Two pages that hold the same material in every unit are the same page:  *)
(* what the world compares when it checks the state before a change        *)
(* (volume/edit.rs: replace_box, Builder).                                 *)
THEOREM PageOfContent ==
  ASSUME NEW one \in Pages, NEW other \in Pages,
         \A p \in Points : LeafAt(one, p) = LeafAt(other, p)
  PROVE  one = other
  <1>1. ASSUME NEW z \in Nat, z < Edge[3] PROVE Holding(one, z) = Holding(other, z)
    <2> DEFINE s == Holding(one, z)
               t == Holding(other, z)
    <2>1. s \in Slabs /\ t \in Slabs
      BY <1>1, HeldItem DEF Pages
    <2>2. ASSUME NEW y \in Nat, y < Edge[2] PROVE Holding(s, y) = Holding(t, y)
      <3> DEFINE r == Holding(s, y)
                 q == Holding(t, y)
      <3>1. r \in Bands /\ q \in Bands
        <4> HIDE DEF s, t
        <4> QED
          BY <2>1, <2>2, HeldItem DEF Slabs
      <3>2. ASSUME NEW x \in Nat, x < Edge[1] PROVE Holding(r, x) = Holding(q, x)
        <4> DEFINE p == <<x, y, z>>
        <4>1. Edge[1] \in Nat /\ Edge[2] \in Nat /\ Edge[3] \in Nat
          BY PageAssumption DEF Axes
        <4>2. x \in 0..Edge[1] - 1 /\ y \in 0..Edge[2] - 1 /\ z \in 0..Edge[3] - 1
          BY <1>1, <2>2, <3>2, <4>1
        <4>3. p \in Points /\ p[1] = x /\ p[2] = y /\ p[3] = z
          BY <4>2 DEF Points
        <4> HIDE DEF p
        <4>4. LeafAt(one, p) = LeafAt(other, p)
          BY <4>3
        <4> QED
          BY <4>3, <4>4 DEF LeafAt
      <3> HIDE DEF r, q
      <3>3. r = q
        BY <3>1, <3>2, LayersEqual DEF Bands
      <3> QED
        BY <3>3 DEF r, q
    <2> HIDE DEF s, t
    <2>3. s = t
      BY <2>1, <2>2, LayersEqual DEF Slabs
    <2> QED
      BY <2>3 DEF s, t
  <1> QED
    BY <1>1, LayersEqual DEF Pages

-----------------------------------------------------------------------------
(* Records.                                                                *)

RecordKind == [high : Nat \X Nat \X Nat, voxel : Voxels]

BandRecords(runs, y, z) ==
  [r \in DOMAIN runs |-> [high |-> <<runs[r].to, y, z>>, voxel |-> runs[r].what]]

SlabRecords(bands, z) ==
  Flat([b \in DOMAIN bands |-> BandRecords(bands[b].what, bands[b].to, z)])

PageRecords(of) == Flat([s \in DOMAIN of |-> SlabRecords(of[s].what, of[s].to)])

RunSeqs == Seq(Item(Voxels))

LEMMA BandRecordsAre ==
  ASSUME NEW runs \in RunSeqs, NEW y \in Nat, NEW z \in Nat
  PROVE  /\ BandRecords(runs, y, z) \in Seq(RecordKind) /\ Len(BandRecords(runs, y, z)) = Len(runs)
         /\ \A i \in 1..Len(runs) :
              BandRecords(runs, y, z)[i] = [high |-> <<runs[i].to, y, z>>, voxel |-> runs[i].what]
  <1> DEFINE Rec(i) == [high |-> <<runs[i].to, y, z>>, voxel |-> runs[i].what]
             list == [i \in 1..Len(runs) |-> Rec(i)]
  <1>1. Len(runs) \in Nat /\ DOMAIN runs = 1..Len(runs)
        /\ \A n \in 1..Len(runs) : runs[n].to \in Nat /\ runs[n].what \in Voxels
    BY ItemsAre DEF RunSeqs
  <1>2. BandRecords(runs, y, z) = list
    BY <1>1 DEF BandRecords
  <1>3. \A i \in 1..Len(runs) : Rec(i) \in RecordKind
    BY <1>1 DEF RecordKind
  <1> HIDE DEF Rec
  <1>4. list \in Seq(RecordKind) /\ Len(list) = Len(runs) /\ \A i \in 1..Len(runs) : list[i] = Rec(i)
    BY <1>1, <1>3
  <1> QED
    BY <1>2, <1>4 DEF Rec

LEMMA BandRecordsAppend ==
  ASSUME NEW runs \in RunSeqs, NEW y \in Nat, NEW z \in Nat, NEW to \in Nat, NEW what \in Voxels
  PROVE  BandRecords(Append(runs, [to |-> to, what |-> what]), y, z) =
           Append(BandRecords(runs, y, z), [high |-> <<to, y, z>>, voxel |-> what])
  <1> DEFINE item == [to |-> to, what |-> what]
             more == Append(runs, item)
             f == BandRecords(runs, y, z)
             g == BandRecords(more, y, z)
             r == [high |-> <<to, y, z>>, voxel |-> what]
             L == Len(runs)
  <1>1. item \in Item(Voxels) /\ item.to = to /\ item.what = what
    BY DEF Item
  <1>2. r \in RecordKind
    BY DEF RecordKind
  <1>3. more \in RunSeqs /\ L \in Nat /\ Len(more) = L + 1
        /\ more[L + 1] = item /\ \A i \in 1..L : more[i] = runs[i]
    BY <1>1, AppendIs DEF RunSeqs
  <1> HIDE DEF item, more
  <1>4. f \in Seq(RecordKind) /\ Len(f) = L
        /\ \A i \in 1..L : f[i] = [high |-> <<runs[i].to, y, z>>, voxel |-> runs[i].what]
    BY BandRecordsAre
  <1>5. g \in Seq(RecordKind) /\ Len(g) = L + 1
        /\ \A i \in 1..L + 1 : g[i] = [high |-> <<more[i].to, y, z>>, voxel |-> more[i].what]
    BY <1>3, BandRecordsAre
  <1> HIDE DEF f, g, L
  <1>6. g[L + 1] = r
    <2>1. L + 1 \in 1..L + 1
      BY <1>3
    <2> QED
      BY <1>1, <1>3, <1>5, <2>1
  <1>7. ASSUME NEW i \in 1..L PROVE g[i] = f[i]
    <2>1. i \in 1..L + 1
      BY <1>3
    <2>2. more[i] = runs[i]
      BY <1>3
    <2>3. g[i] = [high |-> <<more[i].to, y, z>>, voxel |-> more[i].what]
      BY <1>5, <2>1
    <2>4. f[i] = [high |-> <<runs[i].to, y, z>>, voxel |-> runs[i].what]
      BY <1>4
    <2> QED
      BY <2>2, <2>3, <2>4
  <1> HIDE DEF r
  <1>8. g = Append(f, r)
    <2>1. \A i \in 1..L + 1 : i \in 1..L \/ i = L + 1
      BY <1>3
    <2>2. Append(f, r) \in Seq(RecordKind) /\ Len(Append(f, r)) = L + 1
          /\ Append(f, r)[L + 1] = r /\ \A i \in 1..L : Append(f, r)[i] = f[i]
      BY <1>2, <1>4, AppendIs
    <2>3. \A i \in 1..L + 1 : g[i] = Append(f, r)[i]
      BY <1>6, <1>7, <2>1, <2>2
    <2> QED
      BY <1>5, <2>2, <2>3, SeqsEqual
  <1> QED
    BY <1>8 DEF f, g, r, more, item

LEMMA BandsAreRuns ==
  ASSUME NEW bands \in Seq(Item(Bands))
  PROVE  \A b \in DOMAIN bands : bands[b].what \in RunSeqs /\ bands[b].to \in Nat
  <1>1. \A b \in DOMAIN bands : bands[b].what \in Bands /\ bands[b].to \in Nat
    BY ItemsAre
  <1> QED
    BY <1>1 DEF Bands, Layers, RunSeqs

(* What a mapping gives of a sequence that is one longer.                  *)
LEMMA BandListAppend ==
  ASSUME NEW bands \in Seq(Item(Bands)), NEW z \in Nat
  PROVE  LET list(of) == [b \in DOMAIN of |-> BandRecords(of[b].what, of[b].to, z)]
         IN  /\ list(bands) \in Seq(Seq(RecordKind)) /\ Len(list(bands)) = Len(bands)
             /\ \A to \in Nat, runs \in Bands :
                  list(Append(bands, [to |-> to, what |-> runs])) =
                    Append(list(bands), BandRecords(runs, to, z))
  <1> DEFINE Rec(of, b) == BandRecords(of[b].what, of[b].to, z)
             list(of) == [b \in DOMAIN of |-> Rec(of, b)]
  <1>1. ASSUME NEW of \in Seq(Item(Bands))
        PROVE  /\ Len(of) \in Nat /\ list(of) \in Seq(Seq(RecordKind)) /\ Len(list(of)) = Len(of)
               /\ \A b \in 1..Len(of) : list(of)[b] = Rec(of, b)
    <2>1. Len(of) \in Nat /\ DOMAIN of = 1..Len(of)
      OBVIOUS
    <2>2. \A b \in 1..Len(of) : Rec(of, b) \in Seq(RecordKind)
      BY <2>1, BandsAreRuns, BandRecordsAre
    <2> HIDE DEF Rec
    <2> QED
      BY <2>1, <2>2
  <1>2. ASSUME NEW to \in Nat, NEW runs \in Bands
        PROVE  list(Append(bands, [to |-> to, what |-> runs])) =
                 Append(list(bands), BandRecords(runs, to, z))
    <2> DEFINE item == [to |-> to, what |-> runs]
               more == Append(bands, item)
               f == list(bands)
               g == list(more)
               r == BandRecords(runs, to, z)
               L == Len(bands)
    <2>1. item \in Item(Bands) /\ item.to = to /\ item.what = runs
      BY DEF Item
    <2>2. more \in Seq(Item(Bands)) /\ L \in Nat /\ Len(more) = L + 1
          /\ more[L + 1] = item /\ \A i \in 1..L : more[i] = bands[i]
      BY <2>1, AppendIs
    <2> HIDE DEF item, more
    <2>3. f \in Seq(Seq(RecordKind)) /\ Len(f) = L /\ \A i \in 1..L : f[i] = Rec(bands, i)
      BY <1>1
    <2>4. g \in Seq(Seq(RecordKind)) /\ Len(g) = L + 1 /\ \A i \in 1..L + 1 : g[i] = Rec(more, i)
      BY <1>1, <2>2
    <2>5. r \in Seq(RecordKind)
      <3>1. runs \in RunSeqs
        BY DEF Bands, Layers, RunSeqs
      <3> QED
        BY <3>1, BandRecordsAre
    <2> HIDE DEF f, g, L, list
    <2>6. g[L + 1] = r
      <3>1. L + 1 \in 1..L + 1
        BY <2>2
      <3> QED
        BY <2>1, <2>2, <2>4, <3>1
    <2>7. \A i \in 1..L : g[i] = f[i]
      <3>1. \A i \in 1..L : i \in 1..L + 1
        BY <2>2
      <3> QED
        BY <2>2, <2>3, <2>4, <3>1
    <2> HIDE DEF r
    <2>8. \A i \in 1..L + 1 : i \in 1..L \/ i = L + 1
      BY <2>2
    <2>9. Append(f, r) \in Seq(Seq(RecordKind)) /\ Len(Append(f, r)) = L + 1
          /\ Append(f, r)[L + 1] = r /\ \A i \in 1..L : Append(f, r)[i] = f[i]
      BY <2>3, <2>5, AppendIs
    <2>10. \A i \in 1..L + 1 : g[i] = Append(f, r)[i]
      BY <2>6, <2>7, <2>8, <2>9
    <2>11. g = Append(f, r)
      BY <2>4, <2>9, <2>10, SeqsEqual
    <2> QED
      BY <2>11 DEF f, g, r, more, item
  <1>3. list(bands) \in Seq(Seq(RecordKind)) /\ Len(list(bands)) = Len(bands)
    BY <1>1
  <1> QED
    BY <1>2, <1>3

LEMMA SlabRecordsAre ==
  ASSUME NEW bands \in Seq(Item(Bands)), NEW z \in Nat
  PROVE  /\ SlabRecords(bands, z) \in Seq(RecordKind)
         /\ bands = <<>> => SlabRecords(bands, z) = <<>>
         /\ \A to \in Nat, runs \in Bands :
              SlabRecords(Append(bands, [to |-> to, what |-> runs]), z) =
                SlabRecords(bands, z) \o BandRecords(runs, to, z)
  <1> DEFINE list(of) == [b \in DOMAIN of |-> BandRecords(of[b].what, of[b].to, z)]
             f == list(bands)
  <1>1. /\ f \in Seq(Seq(RecordKind)) /\ Len(f) = Len(bands)
        /\ \A to \in Nat, runs \in Bands :
             list(Append(bands, [to |-> to, what |-> runs])) = Append(f, BandRecords(runs, to, z))
    BY BandListAppend
  <1>2. \A of : SlabRecords(of, z) = Flat(list(of))
    BY DEF SlabRecords
  <1> HIDE DEF list, f
  <1>3. \A runs \in Bands, to \in Nat : BandRecords(runs, to, z) \in Seq(RecordKind)
    BY BandRecordsAre DEF Bands, Layers, RunSeqs
  <1>4. SlabRecords(bands, z) = Flat(f)
    BY <1>2 DEF f
  <1>5. Flat(f) \in Seq(RecordKind) /\ (Len(f) = 0 => Flat(f) = <<>>)
        /\ \A x \in Seq(RecordKind) : Flat(Append(f, x)) = Flat(f) \o x
    BY <1>1, FlatAppend
  <1>6. bands = <<>> => Len(f) = 0
    BY <1>1
  <1> QED
    BY <1>1, <1>2, <1>3, <1>4, <1>5, <1>6

LEMMA SlabListAppend ==
  ASSUME NEW slabs \in Seq(Item(Slabs))
  PROVE  LET list(of) == [s \in DOMAIN of |-> SlabRecords(of[s].what, of[s].to)]
         IN  /\ list(slabs) \in Seq(Seq(RecordKind)) /\ Len(list(slabs)) = Len(slabs)
             /\ \A to \in Nat, bands \in Slabs :
                  list(Append(slabs, [to |-> to, what |-> bands])) =
                    Append(list(slabs), SlabRecords(bands, to))
  <1> DEFINE Rec(of, s) == SlabRecords(of[s].what, of[s].to)
             list(of) == [s \in DOMAIN of |-> Rec(of, s)]
  <1>0. \A bands \in Slabs : bands \in Seq(Item(Bands))
    BY DEF Slabs, Layers
  <1>1. ASSUME NEW of \in Seq(Item(Slabs))
        PROVE  /\ Len(of) \in Nat /\ list(of) \in Seq(Seq(RecordKind)) /\ Len(list(of)) = Len(of)
               /\ \A s \in 1..Len(of) : list(of)[s] = Rec(of, s)
    <2>1. Len(of) \in Nat /\ DOMAIN of = 1..Len(of)
      OBVIOUS
    <2>2. \A s \in 1..Len(of) : of[s].what \in Slabs /\ of[s].to \in Nat
      BY ItemsAre
    <2>3. \A s \in 1..Len(of) : Rec(of, s) \in Seq(RecordKind)
      BY <1>0, <2>2, SlabRecordsAre
    <2> HIDE DEF Rec
    <2> QED
      BY <2>1, <2>3
  <1>2. ASSUME NEW to \in Nat, NEW bands \in Slabs
        PROVE  list(Append(slabs, [to |-> to, what |-> bands])) =
                 Append(list(slabs), SlabRecords(bands, to))
    <2> DEFINE item == [to |-> to, what |-> bands]
               more == Append(slabs, item)
               f == list(slabs)
               g == list(more)
               r == SlabRecords(bands, to)
               L == Len(slabs)
    <2>1. item \in Item(Slabs) /\ item.to = to /\ item.what = bands
      BY DEF Item
    <2>2. more \in Seq(Item(Slabs)) /\ L \in Nat /\ Len(more) = L + 1
          /\ more[L + 1] = item /\ \A i \in 1..L : more[i] = slabs[i]
      BY <2>1, AppendIs
    <2> HIDE DEF item, more
    <2>3. f \in Seq(Seq(RecordKind)) /\ Len(f) = L /\ \A i \in 1..L : f[i] = Rec(slabs, i)
      BY <1>1
    <2>4. g \in Seq(Seq(RecordKind)) /\ Len(g) = L + 1 /\ \A i \in 1..L + 1 : g[i] = Rec(more, i)
      BY <1>1, <2>2
    <2>5. r \in Seq(RecordKind)
      BY <1>0, SlabRecordsAre
    <2> HIDE DEF f, g, L, list
    <2>6. g[L + 1] = r
      <3>1. L + 1 \in 1..L + 1
        BY <2>2
      <3> QED
        BY <2>1, <2>2, <2>4, <3>1
    <2>7. \A i \in 1..L : g[i] = f[i]
      <3>1. \A i \in 1..L : i \in 1..L + 1
        BY <2>2
      <3> QED
        BY <2>2, <2>3, <2>4, <3>1
    <2> HIDE DEF r
    <2>8. \A i \in 1..L + 1 : i \in 1..L \/ i = L + 1
      BY <2>2
    <2>9. Append(f, r) \in Seq(Seq(RecordKind)) /\ Len(Append(f, r)) = L + 1
          /\ Append(f, r)[L + 1] = r /\ \A i \in 1..L : Append(f, r)[i] = f[i]
      BY <2>3, <2>5, AppendIs
    <2>10. \A i \in 1..L + 1 : g[i] = Append(f, r)[i]
      BY <2>6, <2>7, <2>8, <2>9
    <2>11. g = Append(f, r)
      BY <2>4, <2>9, <2>10, SeqsEqual
    <2> QED
      BY <2>11 DEF f, g, r, more, item
  <1>3. list(slabs) \in Seq(Seq(RecordKind)) /\ Len(list(slabs)) = Len(slabs)
    BY <1>1
  <1> QED
    BY <1>2, <1>3

LEMMA PageRecordsAre ==
  ASSUME NEW slabs \in Seq(Item(Slabs))
  PROVE  /\ PageRecords(slabs) \in Seq(RecordKind)
         /\ slabs = <<>> => PageRecords(slabs) = <<>>
         /\ \A to \in Nat, bands \in Slabs :
              PageRecords(Append(slabs, [to |-> to, what |-> bands])) =
                PageRecords(slabs) \o SlabRecords(bands, to)
  <1> DEFINE list(of) == [s \in DOMAIN of |-> SlabRecords(of[s].what, of[s].to)]
             f == list(slabs)
  <1>1. /\ f \in Seq(Seq(RecordKind)) /\ Len(f) = Len(slabs)
        /\ \A to \in Nat, bands \in Slabs :
             list(Append(slabs, [to |-> to, what |-> bands])) = Append(f, SlabRecords(bands, to))
    BY SlabListAppend
  <1>2. \A of : PageRecords(of) = Flat(list(of))
    BY DEF PageRecords
  <1> HIDE DEF list, f
  <1>3. \A bands \in Slabs, to \in Nat : SlabRecords(bands, to) \in Seq(RecordKind)
    BY SlabRecordsAre DEF Slabs, Layers
  <1>4. PageRecords(slabs) = Flat(f)
    BY <1>2 DEF f
  <1>5. Flat(f) \in Seq(RecordKind) /\ (Len(f) = 0 => Flat(f) = <<>>)
        /\ \A x \in Seq(RecordKind) : Flat(Append(f, x)) = Flat(f) \o x
    BY <1>1, FlatAppend
  <1>6. slabs = <<>> => Len(f) = 0
    BY <1>1
  <1> QED
    BY <1>1, <1>2, <1>3, <1>4, <1>5, <1>6

(* Recording and putting together commute.                                 *)
LEMMA RecordedIs ==
  ASSUME NEW list \in Seq(LeafKind)
  PROVE  /\ Recorded(list) \in Seq(RecordKind) /\ Len(Recorded(list)) = Len(list)
         /\ \A i \in 1..Len(list) : Recorded(list)[i] = Record(list[i])
  <1>1. \A l \in LeafKind : Record(l) \in RecordKind
    <2> SUFFICES ASSUME NEW l \in LeafKind PROVE Record(l) \in RecordKind
      OBVIOUS
    <2>1. l.high \in Corners /\ l.voxel \in Voxels
      BY LeavesBound
    <2>2. l.high \in Nat \X Nat \X Nat
      BY <2>1 DEF Corners
    <2> QED
      BY <2>1, <2>2 DEF Record, RecordKind
  <1>2. Len(list) \in Nat /\ DOMAIN list = 1..Len(list) /\ \A i \in 1..Len(list) : list[i] \in LeafKind
    OBVIOUS
  <1>3. Recorded(list) = [i \in 1..Len(list) |-> Record(list[i])]
    BY <1>2 DEF Recorded
  <1>4. \A i \in 1..Len(list) : Record(list[i]) \in RecordKind
    BY <1>1, <1>2
  <1> QED
    BY <1>2, <1>3, <1>4

LEMMA ConcatIs ==
  ASSUME NEW S, NEW a \in Seq(S), NEW b \in Seq(S)
  PROVE  /\ a \o b \in Seq(S) /\ Len(a) \in Nat /\ Len(b) \in Nat /\ Len(a \o b) = Len(a) + Len(b)
         /\ \A i \in 1..Len(a) : (a \o b)[i] = a[i]
         /\ \A i \in Len(a) + 1..Len(a) + Len(b) : (a \o b)[i] = b[i - Len(a)]
         /\ \A i \in 1..Len(b) : (a \o b)[Len(a) + i] = b[i]
  OBVIOUS

LEMMA RecordedBoth ==
  ASSUME NEW s \in Seq(LeafKind), NEW t \in Seq(LeafKind)
  PROVE  Recorded(s \o t) = Recorded(s) \o Recorded(t)
  <1> DEFINE r == s \o t
             m == Len(s)
             n == Len(t)
             a == Recorded(s)
             b == Recorded(t)
             c == Recorded(r)
             d == a \o b
  <1>1. /\ r \in Seq(LeafKind) /\ Len(r) = m + n /\ m \in Nat /\ n \in Nat
        /\ \A i \in 1..m : r[i] = s[i]
        /\ \A i \in m + 1..m + n : r[i] = t[i - m]
    OBVIOUS
  <1>2. a \in Seq(RecordKind) /\ Len(a) = m /\ \A i \in 1..m : a[i] = Record(s[i])
    BY RecordedIs
  <1>3. b \in Seq(RecordKind) /\ Len(b) = n /\ \A i \in 1..n : b[i] = Record(t[i])
    BY RecordedIs
  <1>4. c \in Seq(RecordKind) /\ Len(c) = m + n /\ \A i \in 1..m + n : c[i] = Record(r[i])
    BY <1>1, RecordedIs
  <1> HIDE DEF r, m, n, a, b, c
  <1>5. /\ d \in Seq(RecordKind) /\ Len(d) = m + n
        /\ \A i \in 1..m : d[i] = a[i]
        /\ \A i \in m + 1..m + n : d[i] = b[i - m]
    <2>1. a \in Seq(RecordKind) /\ b \in Seq(RecordKind)
      BY <1>2, <1>3
    <2>2. /\ d \in Seq(RecordKind) /\ Len(d) = Len(a) + Len(b)
          /\ \A i \in 1..Len(a) : d[i] = a[i]
          /\ \A i \in Len(a) + 1..Len(a) + Len(b) : d[i] = b[i - Len(a)]
      BY <2>1, ConcatIs
    <2> HIDE DEF d
    <2> QED
      BY <1>2, <1>3, <2>2
  <1> HIDE DEF d
  <1>6. ASSUME NEW i \in 1..m + n PROVE c[i] = d[i]
    <2>1. CASE i \in 1..m
      BY <1>1, <1>2, <1>4, <1>5, <2>1
    <2>2. CASE i \notin 1..m
      <3>1. i \in m + 1..m + n /\ i - m \in 1..n
        BY <1>1, <2>2
      <3> QED
        BY <1>1, <1>3, <1>4, <1>5, <3>1
    <2> QED
      BY <2>1, <2>2
  <1>7. c = d
    BY <1>4, <1>5, <1>6, SeqsEqual
  <1> QED
    BY <1>7 DEF a, b, c, d, r

LEMMA RecordedFlat ==
  ASSUME NEW seqs \in Seq(Seq(LeafKind))
  PROVE  Recorded(Flat(seqs)) = Flat([i \in DOMAIN seqs |-> Recorded(seqs[i])])
  <1> DEFINE L == Len(seqs)
             others == [i \in DOMAIN seqs |-> Recorded(seqs[i])]
  <1>1. L \in Nat /\ DOMAIN seqs = 1..L /\ \A i \in 1..L : seqs[i] \in Seq(LeafKind)
    OBVIOUS
  <1>2. \A i \in 1..L : Recorded(seqs[i]) \in Seq(RecordKind)
    BY <1>1, RecordedIs
  <1>3. others \in Seq(Seq(RecordKind)) /\ Len(others) = L
        /\ \A i \in 1..L : others[i] = Recorded(seqs[i])
    BY <1>1, <1>2
  <1> HIDE DEF others
  <1>4. PICK f \in [0..L -> Seq(LeafKind)] : Partials(f, seqs)
    BY FlatIs
  <1>5. PICK g \in [0..Len(others) -> Seq(RecordKind)] : Partials(g, others)
    BY <1>3, FlatIs
  <1>6. /\ f[0] = <<>> /\ g[0] = <<>> /\ Flat(seqs) = f[L] /\ Flat(others) = g[L]
        /\ \A n \in 1..L : f[n] = Put(f[n - 1], seqs[n])
        /\ \A n \in 1..L : g[n] = Put(g[n - 1], others[n])
    BY <1>3, <1>4, <1>5 DEF Partials
  <1>7. Recorded(<<>>) = <<>>
    BY DEF Recorded
  <1> HIDE DEF L
  <1> DEFINE G == {n \in 0..L : Recorded(f[n]) = g[n]}
  <1>8. 0 \in G
    BY <1>1, <1>6, <1>7
  <1>9. ASSUME NEW n \in 1..L, n - 1 \in G PROVE n \in G
    <2>1. n - 1 \in 0..L /\ n \in 0..L
      BY <1>1
    <2>2. f[n - 1] \in Seq(LeafKind) /\ seqs[n] \in Seq(LeafKind)
      BY <1>1, <2>1
    <2>3. Recorded(Put(f[n - 1], seqs[n])) = Put(Recorded(f[n - 1]), Recorded(seqs[n]))
      BY <2>2, RecordedBoth DEF Put
    <2>4. Recorded(f[n - 1]) = g[n - 1]
      BY <1>9
    <2>5. Recorded(f[n]) = g[n]
      BY <1>3, <1>6, <2>3, <2>4
    <2> QED
      BY <2>1, <2>5
  <1> HIDE DEF G
  <1>10. \A n \in 0..L : n \in G
    BY <1>1, <1>8, <1>9, CountsUp
  <1>11. Recorded(f[L]) = g[L]
    BY <1>1, <1>10 DEF G
  <1> QED
    BY <1>6, <1>11 DEF others

LEMMA BandRecorded ==
  ASSUME NEW runs \in Bands, NEW y, IsSpan(y, Edge[2]), NEW z, IsSpan(z, Edge[3])
  PROVE  /\ LeavesOfBand(runs, y, z) \in Seq(LeafKind)
         /\ Recorded(LeavesOfBand(runs, y, z)) = BandRecords(runs, y.high, z.high)
  <1> DEFINE P == {p \in Points : Between(y, p[2]) /\ Between(z, p[3])}
             mat == [p \in P |-> Holding(runs, p[1])]
             list == LeavesOfBand(runs, y, z)
             Leaf(r) == [low |-> <<StartAt(runs, r), y.low, z.low>>,
                         high |-> <<runs[r].to, y.high, z.high>>, voxel |-> runs[r].what]
             Rec(r) == [high |-> <<runs[r].to, y.high, z.high>>, voxel |-> runs[r].what]
  <1>1. \A p \in P : mat[p] = Holding(runs, p[1])
    OBVIOUS
  <1> HIDE DEF mat
  <1>2. Tiles(list, P, mat)
    BY <1>1, BandTiles
  <1>3. list = [r \in DOMAIN runs |-> Leaf(r)]
    BY DEF LeavesOfBand
  <1>4. BandRecords(runs, y.high, z.high) = [r \in DOMAIN runs |-> Rec(r)]
    BY DEF BandRecords
  <1>5. \A r : Record(Leaf(r)) = Rec(r)
    BY DEF Record
  <1> HIDE DEF list, Leaf, Rec
  <1>6. Recorded(list) = [r \in DOMAIN runs |-> Rec(r)]
    BY <1>3, <1>5 DEF Recorded
  <1> QED
    BY <1>2, <1>4, <1>6 DEF Tiles, list

LEMMA SlabRecorded ==
  ASSUME NEW bands \in Slabs, NEW z, IsSpan(z, Edge[3])
  PROVE  /\ LeavesOfSlab(bands, z) \in Seq(LeafKind)
         /\ Recorded(LeavesOfSlab(bands, z)) = SlabRecords(bands, z.high)
  <1> DEFINE Span(b) == [low |-> StartAt(bands, b), high |-> bands[b].to]
             Leaf(b) == LeavesOfBand(bands[b].what, Span(b), z)
             seqs == [b \in DOMAIN bands |-> Leaf(b)]
             Rec(b) == BandRecords(bands[b].what, bands[b].to, z.high)
  <1>1. /\ Len(bands) \in Nat /\ DOMAIN bands = 1..Len(bands)
        /\ \A i \in DOMAIN bands :
             /\ StartAt(bands, i) \in Nat /\ bands[i].to \in Nat /\ bands[i].what \in Bands
             /\ StartAt(bands, i) < bands[i].to /\ bands[i].to <= Edge[2]
    BY ItemsWithin DEF Slabs
  <1>2. ASSUME NEW b \in DOMAIN bands PROVE Leaf(b) \in Seq(LeafKind) /\ Recorded(Leaf(b)) = Rec(b)
    <2>1. IsSpan(Span(b), Edge[2]) /\ Span(b).high = bands[b].to /\ bands[b].what \in Bands
      BY <1>1 DEF IsSpan
    <2> HIDE DEF Span
    <2> QED
      BY <2>1, BandRecorded
  <1>3. LeavesOfSlab(bands, z) = Flat(seqs)
    BY DEF LeavesOfSlab
  <1>4. SlabRecords(bands, z.high) = Flat([b \in DOMAIN bands |-> Rec(b)])
    BY DEF SlabRecords
  <1> HIDE DEF Leaf, Rec
  <1>5. seqs \in Seq(Seq(LeafKind)) /\ DOMAIN seqs = DOMAIN bands
        /\ \A b \in DOMAIN bands : seqs[b] = Leaf(b)
    BY <1>1, <1>2
  <1> HIDE DEF seqs
  <1>6. [b \in DOMAIN seqs |-> Recorded(seqs[b])] = [b \in DOMAIN bands |-> Rec(b)]
    BY <1>2, <1>5
  <1>7. Recorded(Flat(seqs)) = Flat([b \in DOMAIN seqs |-> Recorded(seqs[b])])
    BY <1>5, RecordedFlat
  <1>8. Flat(seqs) \in Seq(LeafKind)
    BY <1>5, FlatAppend
  <1> QED
    BY <1>3, <1>4, <1>6, <1>7, <1>8

LEMMA EncodeIs ==
  ASSUME NEW of \in Pages
  PROVE  Encode(of) = PageRecords(of)
  <1> DEFINE Span(s) == [low |-> StartAt(of, s), high |-> of[s].to]
             Leaf(s) == LeavesOfSlab(of[s].what, Span(s))
             seqs == [s \in DOMAIN of |-> Leaf(s)]
             Rec(s) == SlabRecords(of[s].what, of[s].to)
  <1>1. /\ Len(of) \in Nat /\ DOMAIN of = 1..Len(of)
        /\ \A i \in DOMAIN of :
             /\ StartAt(of, i) \in Nat /\ of[i].to \in Nat /\ of[i].what \in Slabs
             /\ StartAt(of, i) < of[i].to /\ of[i].to <= Edge[3]
    BY ItemsWithin DEF Pages
  <1>2. ASSUME NEW s \in DOMAIN of PROVE Leaf(s) \in Seq(LeafKind) /\ Recorded(Leaf(s)) = Rec(s)
    <2>1. IsSpan(Span(s), Edge[3]) /\ Span(s).high = of[s].to /\ of[s].what \in Slabs
      BY <1>1 DEF IsSpan
    <2> HIDE DEF Span
    <2> QED
      BY <2>1, SlabRecorded
  <1>3. LeafList(of) = Flat(seqs)
    BY DEF LeafList
  <1>4. PageRecords(of) = Flat([s \in DOMAIN of |-> Rec(s)])
    BY DEF PageRecords
  <1> HIDE DEF Leaf, Rec
  <1>5. seqs \in Seq(Seq(LeafKind)) /\ DOMAIN seqs = DOMAIN of
        /\ \A s \in DOMAIN of : seqs[s] = Leaf(s)
    BY <1>1, <1>2
  <1> HIDE DEF seqs
  <1>6. [s \in DOMAIN seqs |-> Recorded(seqs[s])] = [s \in DOMAIN of |-> Rec(s)]
    BY <1>2, <1>5
  <1>7. Recorded(Flat(seqs)) = Flat([s \in DOMAIN seqs |-> Recorded(seqs[s])])
    BY <1>5, RecordedFlat
  <1> QED
    BY <1>3, <1>4, <1>6, <1>7 DEF Encode

-----------------------------------------------------------------------------
(* The reader.                                                             *)

State(slabs, bands, runs, bandEnd, slabEnd) ==
  [slabs |-> slabs, bands |-> bands, runs |-> runs, bandEnd |-> bandEnd, slabEnd |-> slabEnd,
   refused |-> FALSE]

(* What closes a run, a band or a slab that a record ends.                 *)
Opened(slabs, bands, runs, y, z) ==
  LET more == Append(bands, [to |-> y, what |-> runs])
  IN IF RepeatsLast(bands, runs) THEN Malformed
     ELSE IF y # Edge[2] THEN State(slabs, more, <<>>, 0, z)
     ELSE IF RepeatsLast(slabs, more) THEN Malformed
     ELSE State(Append(slabs, [to |-> z, what |-> more]), <<>>, <<>>, 0, 0)

ReaderFields == {"slabs", "bands", "runs", "bandEnd", "slabEnd", "refused"}

LEMMA ReaderIs ==
  ASSUME NEW F, F = [i \in ReaderFields |-> F[i]], F.refused = FALSE
  PROVE  F = State(F.slabs, F.bands, F.runs, F.bandEnd, F.slabEnd)
  <1> DEFINE g == State(F.slabs, F.bands, F.runs, F.bandEnd, F.slabEnd)
  <1>1. g = [i \in ReaderFields |-> g[i]]
    BY DEF State, ReaderFields
  <1>2. g.slabs = F.slabs /\ g.bands = F.bands /\ g.runs = F.runs /\ g.bandEnd = F.bandEnd
        /\ g.slabEnd = F.slabEnd /\ g.refused = FALSE
    BY DEF State
  <1> HIDE DEF g
  <1>3. \A i \in ReaderFields : F[i] = g[i]
    BY <1>2 DEF ReaderFields
  <1>4. F = g
    BY <1>1, <1>3
  <1> QED
    BY <1>4 DEF g

RunRead(p, runs, y, z) == [p EXCEPT !.runs = runs, !.bandEnd = y, !.slabEnd = z]
BandRead(p, bands, z) == [p EXCEPT !.bands = bands, !.runs = <<>>, !.bandEnd = 0, !.slabEnd = z]
SlabRead(slabs) == [NewReader EXCEPT !.slabs = slabs]

LEMMA RunReadIs ==
  ASSUME NEW a, NEW b, NEW c, NEW d, NEW e, NEW u, NEW v, NEW w
  PROVE  RunRead(State(a, b, c, d, e), u, v, w) = State(a, b, u, v, w)
  <1> DEFINE F == RunRead(State(a, b, c, d, e), u, v, w)
  <1>1. F = [i \in ReaderFields |-> F[i]]
    BY DEF RunRead, State, ReaderFields
  <1>2. F.slabs = a /\ F.bands = b /\ F.runs = u /\ F.bandEnd = v /\ F.slabEnd = w
        /\ F.refused = FALSE
    BY DEF RunRead, State
  <1> HIDE DEF F
  <1>3. F = State(F.slabs, F.bands, F.runs, F.bandEnd, F.slabEnd)
    BY <1>1, <1>2, ReaderIs
  <1>4. F = State(a, b, u, v, w)
    BY <1>2, <1>3
  <1> QED
    BY <1>4 DEF F

LEMMA BandReadIs ==
  ASSUME NEW a, NEW b, NEW c, NEW d, NEW e, NEW u, NEW v
  PROVE  BandRead(State(a, b, c, d, e), u, v) = State(a, u, <<>>, 0, v)
  <1> DEFINE F == BandRead(State(a, b, c, d, e), u, v)
  <1>1. F = [i \in ReaderFields |-> F[i]]
    BY DEF BandRead, State, ReaderFields
  <1>2. F.slabs = a /\ F.bands = u /\ F.runs = <<>> /\ F.bandEnd = 0 /\ F.slabEnd = v
        /\ F.refused = FALSE
    BY DEF BandRead, State
  <1> HIDE DEF F
  <1>3. F = State(F.slabs, F.bands, F.runs, F.bandEnd, F.slabEnd)
    BY <1>1, <1>2, ReaderIs
  <1>4. F = State(a, u, <<>>, 0, v)
    BY <1>2, <1>3
  <1> QED
    BY <1>4 DEF F

LEMMA SlabReadIs ==
  ASSUME NEW u
  PROVE  SlabRead(u) = State(u, <<>>, <<>>, 0, 0)
  <1> DEFINE F == SlabRead(u)
  <1>1. F = [i \in ReaderFields |-> F[i]]
    BY DEF SlabRead, NewReader, ReaderFields
  <1>2. F.slabs = u /\ F.bands = <<>> /\ F.runs = <<>> /\ F.bandEnd = 0 /\ F.slabEnd = 0
        /\ F.refused = FALSE
    BY DEF SlabRead, NewReader
  <1> HIDE DEF F
  <1>3. F = State(F.slabs, F.bands, F.runs, F.bandEnd, F.slabEnd)
    BY <1>1, <1>2, ReaderIs
  <1>4. F = State(u, <<>>, <<>>, 0, 0)
    BY <1>2, <1>3
  <1> QED
    BY <1>4 DEF F

LEMMA PushIs ==
  ASSUME NEW slabs, NEW bands, NEW runs, NEW bandEnd, NEW slabEnd, NEW record
  PROVE  LET p == State(slabs, bands, runs, bandEnd, slabEnd)
             more == Append(runs, [to |-> record.high[1], what |-> record.voxel])
         IN  Push(p, record) =
               IF Refuses(p, record) THEN Malformed
               ELSE IF record.high[1] # Edge[1]
               THEN State(slabs, bands, more, record.high[2], record.high[3])
               ELSE Opened(slabs, bands, more, record.high[2], record.high[3])
  <1> DEFINE p == State(slabs, bands, runs, bandEnd, slabEnd)
             x == record.high[1]
             y == record.high[2]
             z == record.high[3]
             more == Append(runs, [to |-> x, what |-> record.voxel])
             wider == Append(bands, [to |-> y, what |-> more])
             higher == Append(slabs, [to |-> z, what |-> wider])
  <1>1. p.slabs = slabs /\ p.bands = bands /\ p.runs = runs /\ p.refused = FALSE
    BY DEF State
  <1>2. Push(p, record) = IF Refuses(p, record) THEN Malformed ELSE PushedTo(p, record)
    BY <1>1 DEF Push
  <1>3. PushedTo(p, record) =
          IF x # Edge[1] THEN RunRead(p, more, y, z)
          ELSE IF RepeatsLast(bands, more) THEN Malformed
          ELSE IF y # Edge[2] THEN BandRead(p, wider, z)
          ELSE IF RepeatsLast(slabs, wider) THEN Malformed
          ELSE SlabRead(higher)
    BY <1>1 DEF PushedTo, RunRead, BandRead, SlabRead
  <1> HIDE DEF more, wider, higher, x, y, z
  <1>4. RunRead(p, more, y, z) = State(slabs, bands, more, y, z)
    BY RunReadIs
  <1>5. BandRead(p, wider, z) = State(slabs, wider, <<>>, 0, z)
    BY BandReadIs
  <1>6. SlabRead(higher) = State(higher, <<>>, <<>>, 0, 0)
    BY SlabReadIs
  <1>7. Opened(slabs, bands, more, y, z) =
          IF RepeatsLast(bands, more) THEN Malformed
          ELSE IF y # Edge[2] THEN State(slabs, wider, <<>>, 0, z)
          ELSE IF RepeatsLast(slabs, wider) THEN Malformed
          ELSE State(higher, <<>>, <<>>, 0, 0)
    BY DEF Opened, wider, higher
  <1> HIDE DEF p
  <1> QED
    BY <1>2, <1>3, <1>4, <1>5, <1>6, <1>7 DEF p, x, y, z, more

(* Partitions that are open, and the ends their records have announced.    *)
Fits(slabs, bands, runs, bandEnd, slabEnd) ==
  /\ slabs \in Seq(Item(Slabs)) /\ IsReduced(slabs, EndOf(slabs)) /\ EndOf(slabs) <= Edge[3]
  /\ bands \in Seq(Item(Bands)) /\ IsReduced(bands, EndOf(bands)) /\ EndOf(bands) < Edge[2]
  /\ runs \in RunSeqs /\ IsReduced(runs, EndOf(runs)) /\ EndOf(runs) < Edge[1]
  /\ IF runs = <<>> THEN bandEnd = 0
     ELSE bandEnd \in Nat /\ EndOf(bands) < bandEnd /\ bandEnd <= Edge[2]
  /\ IF runs = <<>> /\ bands = <<>> THEN slabEnd = 0
     ELSE slabEnd \in Nat /\ EndOf(slabs) < slabEnd /\ slabEnd <= Edge[3]

RecordsOf(slabs, bands, runs, bandEnd, slabEnd) ==
  PageRecords(slabs) \o (SlabRecords(bands, slabEnd) \o BandRecords(runs, bandEnd, slabEnd))

LEMMA NothingFits ==
  /\ Fits(<<>>, <<>>, <<>>, 0, 0) /\ RecordsOf(<<>>, <<>>, <<>>, 0, 0) = <<>>
  /\ SlabRecords(<<>>, 0) = <<>>
  <1>1. EndOf(<<>>) = 0 /\ DOMAIN <<>> = {}
    BY DEF EndOf
  <1>2. Edge[1] \in Nat \ {0} /\ Edge[2] \in Nat \ {0} /\ Edge[3] \in Nat \ {0}
    BY PageAssumption DEF Axes
  <1>3. Fits(<<>>, <<>>, <<>>, 0, 0)
    BY <1>1, <1>2 DEF Fits, IsReduced, RunSeqs
  <1> DEFINE none == <<>>
  <1>7. none \in Seq(Item(Slabs)) /\ none \in Seq(Item(Bands)) /\ none = <<>>
    OBVIOUS
  <1> HIDE DEF none
  <1>4. PageRecords(none) = <<>>
    BY <1>7, PageRecordsAre
  <1>5. SlabRecords(none, 0) = <<>>
    BY <1>7, SlabRecordsAre
  <1>6. BandRecords(<<>>, 0, 0) = <<>>
    BY DEF BandRecords
  <1> QED
    BY <1>3, <1>4, <1>5, <1>6, <1>7 DEF RecordsOf

IsInside(s, t, u, r) == Append(s \o (t \o u), r) = s \o (t \o Append(u, r))

LEMMA AppendInside ==
  ASSUME NEW s \in Seq(RecordKind), NEW t \in Seq(RecordKind), NEW u \in Seq(RecordKind),
         NEW r \in RecordKind
  PROVE  IsInside(s, t, u, r)
  <1> DEFINE tu == t \o u
             ur == Append(u, r)
             tur == t \o ur
             left == Append(s \o tu, r)
             right == s \o tur
             l == Len(s)
             m == Len(t)
             n == Len(u)
  <1>1. /\ l \in Nat /\ m \in Nat /\ n \in Nat
        /\ ur \in Seq(RecordKind) /\ Len(ur) = n + 1 /\ ur[n + 1] = r /\ \A i \in 1..n : ur[i] = u[i]
    BY AppendIs
  <1>2. /\ tu \in Seq(RecordKind) /\ Len(tu) = m + n
        /\ \A i \in 1..m : tu[i] = t[i]
        /\ \A i \in m + 1..m + n : tu[i] = u[i - m]
    BY ConcatIs
  <1> HIDE DEF ur
  <1>3. /\ tur \in Seq(RecordKind) /\ Len(tur) = m + (n + 1)
        /\ \A i \in 1..m : tur[i] = t[i]
        /\ \A i \in m + 1..m + (n + 1) : tur[i] = ur[i - m]
    <2>1. /\ tur \in Seq(RecordKind) /\ Len(tur) = m + Len(ur)
          /\ \A i \in 1..m : tur[i] = t[i]
          /\ \A i \in m + 1..m + Len(ur) : tur[i] = ur[i - m]
      <3>1. ur \in Seq(RecordKind)
        BY <1>1
      <3> QED
        BY <3>1, ConcatIs
    <2> QED
      BY <1>1, <2>1
  <1> HIDE DEF tu, tur
  <1>4. /\ s \o tu \in Seq(RecordKind) /\ Len(s \o tu) = l + (m + n)
        /\ \A i \in 1..l : (s \o tu)[i] = s[i]
        /\ \A i \in l + 1..l + (m + n) : (s \o tu)[i] = tu[i - l]
    <2>1. /\ s \o tu \in Seq(RecordKind) /\ Len(s \o tu) = l + Len(tu)
          /\ \A i \in 1..l : (s \o tu)[i] = s[i]
          /\ \A i \in l + 1..l + Len(tu) : (s \o tu)[i] = tu[i - l]
      <3>1. tu \in Seq(RecordKind)
        BY <1>2
      <3> QED
        BY <3>1, ConcatIs
    <2> QED
      BY <1>2, <2>1
  <1>5. /\ right \in Seq(RecordKind) /\ Len(right) = l + (m + (n + 1))
        /\ \A i \in 1..l : right[i] = s[i]
        /\ \A i \in l + 1..l + (m + (n + 1)) : right[i] = tur[i - l]
    <2>1. /\ right \in Seq(RecordKind) /\ Len(right) = l + Len(tur)
          /\ \A i \in 1..l : right[i] = s[i]
          /\ \A i \in l + 1..l + Len(tur) : right[i] = tur[i - l]
      <3>1. tur \in Seq(RecordKind)
        BY <1>3
      <3> QED
        BY <3>1, ConcatIs
    <2> QED
      BY <1>3, <2>1
  <1>6. /\ left \in Seq(RecordKind) /\ Len(left) = (l + (m + n)) + 1 /\ left[(l + (m + n)) + 1] = r
        /\ \A i \in 1..l + (m + n) : left[i] = (s \o tu)[i]
    <2> DEFINE st == s \o tu
    <2>1. st \in Seq(RecordKind) /\ Len(st) = l + (m + n)
      BY <1>4
    <2> HIDE DEF st
    <2>2. /\ Append(st, r) \in Seq(RecordKind) /\ Len(Append(st, r)) = Len(st) + 1
          /\ Append(st, r)[Len(st) + 1] = r /\ \A i \in 1..Len(st) : Append(st, r)[i] = st[i]
      BY <2>1, AppendIs
    <2> QED
      BY <2>1, <2>2 DEF st
  <1> HIDE DEF left, right, l, m, n
  <1>7. ASSUME NEW i \in 1..Len(left) PROVE left[i] = right[i]
    <2>1. CASE i <= l
      <3>1. i \in 1..l /\ i \in 1..l + (m + n)
        BY <1>1, <1>6, <2>1
      <3> QED
        BY <1>4, <1>5, <1>6, <3>1
    <2>2. CASE l < i /\ i <= l + m
      <3> DEFINE j == i - l
      <3>0. i \in Nat /\ 1 <= i
        BY <1>1, <1>6
      <3>1. j \in 1..m /\ i \in l + 1..l + (m + n) /\ i \in l + 1..l + (m + (n + 1))
            /\ i \in 1..l + (m + n)
        BY <1>1, <2>2, <3>0
      <3>2. left[i] = tu[j] /\ right[i] = tur[j]
        BY <1>4, <1>5, <1>6, <3>1
      <3> HIDE DEF j
      <3> QED
        BY <1>2, <1>3, <3>1, <3>2
    <2>3. CASE l + m < i /\ i <= l + (m + n)
      <3> DEFINE j == i - l
                 k == j - m
      <3>1. j \in m + 1..m + n /\ j \in m + 1..m + (n + 1) /\ k \in 1..n
            /\ i \in l + 1..l + (m + n) /\ i \in l + 1..l + (m + (n + 1)) /\ i \in 1..l + (m + n)
        BY <1>1, <1>6, <2>3
      <3>2. left[i] = tu[j] /\ right[i] = tur[j]
        BY <1>4, <1>5, <1>6, <3>1
      <3> HIDE DEF j
      <3>3. tu[j] = u[k] /\ tur[j] = ur[k]
        BY <1>2, <1>3, <3>1
      <3> HIDE DEF k
      <3> QED
        BY <1>1, <3>1, <3>2, <3>3
    <2>4. CASE i = l + (m + n) + 1
      <3> DEFINE j == i - l
      <3>1. j \in m + 1..m + (n + 1) /\ i \in l + 1..l + (m + (n + 1)) /\ j - m = n + 1
        BY <1>1, <2>4
      <3>2. right[i] = tur[j]
        BY <1>5, <3>1
      <3> HIDE DEF j
      <3>3. tur[j] = ur[n + 1]
        BY <1>3, <3>1
      <3> QED
        BY <1>1, <1>6, <2>4, <3>2, <3>3
    <2> QED
      BY <1>1, <1>6, <2>1, <2>2, <2>3, <2>4
  <1>8. Len(left) = Len(right)
    BY <1>1, <1>5, <1>6
  <1>9. left = right
    BY <1>5, <1>6, <1>7, <1>8, SeqsEqual
  <1> QED
    BY <1>9 DEF left, right, ur, tu, tur, IsInside

LEMMA NothingAfter ==
  ASSUME NEW R, NEW s \in Seq(R)
  PROVE  s \o <<>> = s /\ <<>> \o s = s
  OBVIOUS

(* A record that is accepted leaves partitions that fit and hold it last,  *)
(* or closes a band or a slab that repeats its neighbour.                  *)
Grows(slabs, bands, runs, bandEnd, slabEnd, record) ==
  LET x == record.high[1]
      y == record.high[2]
      z == record.high[3]
      more == Append(runs, [to |-> x, what |-> record.voxel])
      all == Append(RecordsOf(slabs, bands, runs, bandEnd, slabEnd), record)
  IN  /\ x # Edge[1] => Fits(slabs, bands, more, y, z)
                        /\ RecordsOf(slabs, bands, more, y, z) = all
      /\ x = Edge[1] =>
           \/ Opened(slabs, bands, more, y, z) = Malformed
           \/ \E s, b, e : /\ Opened(slabs, bands, more, y, z) = State(s, b, <<>>, 0, e)
                           /\ Fits(s, b, <<>>, 0, e) /\ RecordsOf(s, b, <<>>, 0, e) = all

LEMMA PushFits ==
  ASSUME NEW slabs, NEW bands, NEW runs, NEW bandEnd, NEW slabEnd,
         Fits(slabs, bands, runs, bandEnd, slabEnd),
         NEW record \in [high : Corners, voxel : Voxels \cup {WornAir}],
         ~Refuses(State(slabs, bands, runs, bandEnd, slabEnd), record)
  PROVE  Grows(slabs, bands, runs, bandEnd, slabEnd, record)
  <1> DEFINE x == record.high[1]
             y == record.high[2]
             z == record.high[3]
             p == State(slabs, bands, runs, bandEnd, slabEnd)
             more == Append(runs, [to |-> x, what |-> record.voxel])
             all == Append(RecordsOf(slabs, bands, runs, bandEnd, slabEnd), record)
             P == PageRecords(slabs)
             S == SlabRecords(bands, z)
             B == BandRecords(runs, y, z)
             wider == Append(bands, [to |-> y, what |-> more])
  <1>1. x \in Nat /\ y \in Nat /\ z \in Nat /\ record = [high |-> <<x, y, z>>, voxel |-> record.voxel]
    BY DEF Corners
  <1>2. p.slabs = slabs /\ p.bands = bands /\ p.runs = runs /\ p.bandEnd = bandEnd /\ p.slabEnd = slabEnd
    BY DEF State
  <1>3. /\ EndOf(slabs) # Edge[3]
        /\ \A a \in Axes : ~(record.high[a] > Edge[a])
        /\ ~(x <= EndOf(runs)) /\ ~(y <= EndOf(bands)) /\ ~(z <= EndOf(slabs))
        /\ bandEnd \in {0, y} /\ slabEnd \in {0, z} /\ record.voxel \in Voxels
        /\ ~(runs # <<>> /\ Last(runs).what = record.voxel)
    BY <1>2 DEF Refuses, Complete, Announced
  <1> HIDE DEF p
  <1>4. Edge[1] \in Nat \ {0} /\ Edge[2] \in Nat \ {0} /\ Edge[3] \in Nat \ {0}
    BY PageAssumption DEF Axes
  <1>5. /\ slabs \in Seq(Item(Slabs)) /\ IsReduced(slabs, EndOf(slabs)) /\ EndOf(slabs) \in Nat
        /\ bands \in Seq(Item(Bands)) /\ IsReduced(bands, EndOf(bands)) /\ EndOf(bands) \in Nat
        /\ runs \in Seq(Item(Voxels)) /\ IsReduced(runs, EndOf(runs)) /\ EndOf(runs) \in Nat
        /\ EndOf(bands) < Edge[2] /\ EndOf(runs) < Edge[1]
    BY ItemsAre DEF Fits, RunSeqs
  <1>6. /\ x <= Edge[1] /\ y <= Edge[2] /\ z <= Edge[3]
        /\ EndOf(runs) < x /\ EndOf(bands) < y /\ EndOf(slabs) < z
    <2>1. 1 \in Axes /\ 2 \in Axes /\ 3 \in Axes
      BY DEF Axes
    <2>2. ~(x > Edge[1]) /\ ~(y > Edge[2]) /\ ~(z > Edge[3])
      BY <1>3, <2>1
    <2> HIDE DEF x, y, z
    <2>3. x <= Edge[1] /\ y <= Edge[2]
      BY <1>1, <1>4, <2>2
    <2>4. z <= Edge[3]
      BY <1>1, <1>4, <2>2
    <2>5. EndOf(runs) < x /\ EndOf(bands) < y
      BY <1>1, <1>3, <1>5
    <2>6. EndOf(slabs) < z
      BY <1>1, <1>3, <1>5
    <2> QED
      BY <2>3, <2>4, <2>5, <2>6
  <1> HIDE DEF x, y, z
  <1>7. SlabRecords(bands, slabEnd) = S
    <2>1. CASE bands = <<>>
      <3>1. slabEnd \in Nat
        BY <1>1, <1>3
      <3> QED
        BY <1>1, <1>5, <2>1, <3>1, SlabRecordsAre
    <2>2. CASE bands # <<>>
      <3>1. slabEnd # 0
        BY <1>5, <2>2 DEF Fits
      <3> QED
        BY <1>3, <3>1
    <2> QED
      BY <2>1, <2>2
  <1>8. BandRecords(runs, bandEnd, slabEnd) = B
    <2>1. CASE runs = <<>>
      BY <2>1 DEF BandRecords
    <2>2. CASE runs # <<>>
      <3>1. slabEnd \in Nat /\ EndOf(slabs) < slabEnd /\ bandEnd \in Nat /\ EndOf(bands) < bandEnd
        BY <2>2 DEF Fits
      <3>2. slabEnd # 0 /\ bandEnd # 0
        BY <1>5, <3>1
      <3> QED
        BY <1>3, <3>2
    <2> QED
      BY <2>1, <2>2
  <1>9. P \in Seq(RecordKind) /\ S \in Seq(RecordKind) /\ B \in Seq(RecordKind)
    BY <1>1, <1>5, PageRecordsAre, SlabRecordsAre, BandRecordsAre DEF RunSeqs
  <1>10. record \in RecordKind
    <2>1. <<x, y, z>> \in Nat \X Nat \X Nat
      BY <1>1
    <2> QED
      BY <1>1, <1>3, <2>1 DEF RecordKind
  <1>11. all = P \o (S \o Append(B, record))
    <2>1. RecordsOf(slabs, bands, runs, bandEnd, slabEnd) = P \o (S \o B)
      BY <1>7, <1>8 DEF RecordsOf
    <2> HIDE DEF P, S, B
    <2>2. Append(P \o (S \o B), record) = P \o (S \o Append(B, record))
      <3>1. P \in Seq(RecordKind)
        BY <1>9
      <3>2. S \in Seq(RecordKind)
        BY <1>9
      <3>3. B \in Seq(RecordKind)
        BY <1>9
      <3>4. IsInside(P, S, B, record)
        BY <1>10, <3>1, <3>2, <3>3, AppendInside
      <3> QED
        BY <3>4 DEF IsInside
    <2>3. all = Append(P \o (S \o B), record)
      BY <2>1
    <2> HIDE DEF all
    <2> QED
      BY <2>2, <2>3, Zenon
  <1>12. BandRecords(more, y, z) = Append(B, record)
    <2>1. runs \in RunSeqs
      BY <1>5 DEF RunSeqs
    <2>2. record.voxel \in Voxels
      BY <1>3
    <2>3. BandRecords(more, y, z) = Append(B, [high |-> <<x, y, z>>, voxel |-> record.voxel])
      BY <1>1, <2>1, <2>2, BandRecordsAppend
    <2> QED
      BY <1>1, <2>3
  <1>13. /\ more \in Seq(Item(Voxels)) /\ IsReduced(more, x) /\ EndOf(more) = x /\ more # <<>>
    <2>1. more \in Seq(Item(Voxels)) /\ Grown(runs, EndOf(runs), more, x, record.voxel)
      BY <1>1, <1>3, <1>5, <1>6, AppendedFits
    <2>2. more # <<>>
      <3>1. [to |-> x, what |-> record.voxel] \in Item(Voxels)
        BY <1>1, <1>3 DEF Item
      <3> QED
        BY <1>5, <3>1, AppendIs
    <2> HIDE DEF more
    <2> QED
      BY <2>1, <2>2 DEF Grown, IsReduced
  <1> HIDE DEF more, all, P, S, B
  <1>14. ASSUME x # Edge[1]
         PROVE  Fits(slabs, bands, more, y, z) /\ RecordsOf(slabs, bands, more, y, z) = all
    <2>1. EndOf(more) < Edge[1]
      BY <1>1, <1>4, <1>6, <1>13, <1>14
    <2>2. Fits(slabs, bands, more, y, z)
      <3>1. EndOf(slabs) <= Edge[3]
        BY DEF Fits
      <3>2. more \in RunSeqs /\ IsReduced(more, EndOf(more))
        BY <1>13 DEF RunSeqs
      <3> QED
        BY <1>1, <1>5, <1>6, <1>13, <2>1, <3>1, <3>2 DEF Fits
    <2>3. RecordsOf(slabs, bands, more, y, z) = all
      BY <1>11, <1>12 DEF RecordsOf, P, S
    <2> QED
      BY <2>2, <2>3
  <1>15. ASSUME x = Edge[1], Opened(slabs, bands, more, y, z) # Malformed
         PROVE  \E s, b, e : /\ Opened(slabs, bands, more, y, z) = State(s, b, <<>>, 0, e)
                             /\ Fits(s, b, <<>>, 0, e) /\ RecordsOf(s, b, <<>>, 0, e) = all
    <2>1. more \in Bands
      BY <1>13, <1>15 DEF Bands, Layers
    <2>2. ~(bands # <<>> /\ Last(bands).what = more)
      BY <1>15 DEF Opened, RepeatsLast
    <2>3. wider \in Seq(Item(Bands)) /\ IsReduced(wider, y) /\ EndOf(wider) = y /\ wider # <<>>
      <3>1. wider \in Seq(Item(Bands)) /\ Grown(bands, EndOf(bands), wider, y, more)
        BY <1>1, <1>5, <1>6, <2>1, <2>2, AppendedFits
      <3>2. wider # <<>>
        <4>1. [to |-> y, what |-> more] \in Item(Bands)
          BY <1>1, <2>1 DEF Item
        <4>2. bands \in Seq(Item(Bands))
          BY <1>5
        <4> QED
          BY <4>1, <4>2, AppendIs
      <3> HIDE DEF wider
      <3> QED
        BY <3>1, <3>2 DEF Grown, IsReduced
    <2>4. SlabRecords(wider, z) = S \o BandRecords(more, y, z)
      BY <1>1, <1>5, <2>1, SlabRecordsAre DEF S
    <2>5. all = P \o SlabRecords(wider, z)
      BY <1>11, <1>12, <2>4
    <2>6. Opened(slabs, bands, more, y, z) =
            IF y # Edge[2] THEN State(slabs, wider, <<>>, 0, z)
            ELSE State(Append(slabs, [to |-> z, what |-> wider]), <<>>, <<>>, 0, 0)
      BY <1>15 DEF Opened
    <2>7. y = Edge[2] => ~(slabs # <<>> /\ Last(slabs).what = wider)
      BY <1>15 DEF Opened, RepeatsLast
    <2>8. SlabRecords(wider, z) \in Seq(RecordKind)
      BY <1>1, <2>3, SlabRecordsAre
    <2> HIDE DEF wider
    <2>9. EndOf(<<>>) = 0 /\ <<>> \in RunSeqs /\ IsReduced(<<>>, EndOf(<<>>)) /\ <<>> \in Seq(Item(Bands))
          /\ \A i, j : BandRecords(<<>>, i, j) = <<>>
      BY DEF EndOf, RunSeqs, IsReduced, BandRecords
    <2>10. CASE y # Edge[2]
      <3>1. y < Edge[2] /\ 0 < Edge[1]
        BY <1>1, <1>4, <1>6, <2>10
      <3>2. Fits(slabs, wider, <<>>, 0, z)
        <4>1. EndOf(slabs) <= Edge[3]
          BY DEF Fits
        <4> QED
          BY <1>1, <1>5, <1>6, <2>3, <2>9, <3>1, <4>1 DEF Fits
      <3>3. RecordsOf(slabs, wider, <<>>, 0, z) = all
        <4>1. RecordsOf(slabs, wider, <<>>, 0, z) = P \o (SlabRecords(wider, z) \o <<>>)
          BY <2>9 DEF RecordsOf, P
        <4> QED
          BY <2>5, <2>8, <4>1, NothingAfter
      <3> QED
        BY <2>6, <2>10, <3>2, <3>3
    <2>11. CASE y = Edge[2]
      <3> DEFINE higher == Append(slabs, [to |-> z, what |-> wider])
      <3>1. wider \in Slabs
        BY <2>3, <2>11 DEF Slabs, Layers
      <3>2. higher \in Seq(Item(Slabs)) /\ IsReduced(higher, z) /\ EndOf(higher) = z
        <4>1. higher \in Seq(Item(Slabs)) /\ Grown(slabs, EndOf(slabs), higher, z, wider)
          BY <1>1, <1>5, <1>6, <2>7, <2>11, <3>1, AppendedFits
        <4> HIDE DEF higher
        <4> QED
          BY <4>1 DEF Grown, IsReduced
      <3>3. PageRecords(higher) = P \o SlabRecords(wider, z)
        BY <1>1, <1>5, <3>1, PageRecordsAre DEF P
      <3>4. Opened(slabs, bands, more, y, z) = State(higher, <<>>, <<>>, 0, 0)
        BY <2>6, <2>11
      <3> HIDE DEF higher
      <3>5. Fits(higher, <<>>, <<>>, 0, 0)
        <4>1. 0 < Edge[1] /\ 0 < Edge[2]
          BY <1>4
        <4> QED
          BY <1>6, <2>9, <3>2, <4>1 DEF Fits
      <3>6. RecordsOf(higher, <<>>, <<>>, 0, 0) = all
        <4>1. SlabRecords(<<>>, 0) = <<>>
          BY NothingFits
        <4>2. RecordsOf(higher, <<>>, <<>>, 0, 0) = (P \o SlabRecords(wider, z)) \o (<<>> \o <<>>)
          BY <2>9, <3>3, <4>1 DEF RecordsOf
        <4> DEFINE whole == P \o SlabRecords(wider, z)
        <4>3. whole \in Seq(RecordKind)
          BY <1>9, <2>8, ConcatIs
        <4> HIDE DEF whole
        <4>4. <<>> \o <<>> = <<>> /\ whole \o <<>> = whole
          BY <4>3, NothingAfter
        <4> QED
          BY <2>5, <4>2, <4>4 DEF whole
      <3> QED
        BY <3>4, <3>5, <3>6
    <2> QED
      BY <2>10, <2>11
  <1> QED
    BY <1>14, <1>15 DEF x, y, z, more, all, Grows

(* What is read: nothing, or the records of partitions that are open.      *)
Holds(p, read, slabs, bands, runs, y, z) ==
  /\ p = State(slabs, bands, runs, y, z) /\ Fits(slabs, bands, runs, y, z)
  /\ read = RecordsOf(slabs, bands, runs, y, z)

ReaderInv ==
  \/ reader = Malformed /\ records = <<>>
  \/ \E slabs, bands, runs, y, z : Holds(reader, records, slabs, bands, runs, y, z)

LEMMA ReaderStep ==
  ASSUME ReaderInv, ReadRecord
  PROVE  ReaderInv'
  <1>1. Malformed.refused = TRUE
    BY DEF Malformed, NewReader
  <1>2. PICK slabs, bands, runs, bandEnd, slabEnd :
              Holds(reader, records, slabs, bands, runs, bandEnd, slabEnd)
    BY <1>1 DEF ReaderInv, ReadRecord
  <1> DEFINE p == State(slabs, bands, runs, bandEnd, slabEnd)
  <1>3. /\ reader = p /\ Fits(slabs, bands, runs, bandEnd, slabEnd)
        /\ records = RecordsOf(slabs, bands, runs, bandEnd, slabEnd)
    BY <1>2 DEF Holds
  <1>4. PICK record \in [high : Corners, voxel : Voxels \cup {WornAir}] :
              /\ reader' = Push(reader, record)
              /\ records' = IF reader'.refused THEN <<>> ELSE Append(records, record)
    BY DEF ReadRecord
  <1> DEFINE x == record.high[1]
             y == record.high[2]
             z == record.high[3]
             more == Append(runs, [to |-> x, what |-> record.voxel])
             all == Append(RecordsOf(slabs, bands, runs, bandEnd, slabEnd), record)
  <1>5. Push(p, record) = IF Refuses(p, record) THEN Malformed
                          ELSE IF x # Edge[1] THEN State(slabs, bands, more, y, z)
                          ELSE Opened(slabs, bands, more, y, z)
    BY PushIs
  <1>6. ~Refuses(p, record) =>
          /\ x # Edge[1] => Fits(slabs, bands, more, y, z)
                            /\ RecordsOf(slabs, bands, more, y, z) = all
          /\ x = Edge[1] =>
               \/ Opened(slabs, bands, more, y, z) = Malformed
               \/ \E s, b, e : /\ Opened(slabs, bands, more, y, z) = State(s, b, <<>>, 0, e)
                               /\ Fits(s, b, <<>>, 0, e) /\ RecordsOf(s, b, <<>>, 0, e) = all
    <2>1. ASSUME ~Refuses(p, record) PROVE Grows(slabs, bands, runs, bandEnd, slabEnd, record)
      BY <1>3, <2>1, PushFits
    <2> QED
      BY <2>1 DEF Grows
  <1>7. \A s, b, r, u, v : State(s, b, r, u, v).refused = FALSE
    BY DEF State
  <1>8. ASSUME reader' = Malformed PROVE ReaderInv'
    BY <1>1, <1>4, <1>8 DEF ReaderInv
  <1> HIDE DEF x, y, z, more
  <1>9. ASSUME NEW s, NEW b, NEW r, NEW u, NEW v, reader' = State(s, b, r, u, v),
               Fits(s, b, r, u, v), RecordsOf(s, b, r, u, v) = all
        PROVE  ReaderInv'
    <2>1. records' = all
      BY <1>3, <1>4, <1>7, <1>9
    <2> HIDE DEF all
    <2>2. Holds(reader', records', s, b, r, u, v)
      BY <1>9, <2>1 DEF Holds
    <2> QED
      BY <2>2 DEF ReaderInv
  <1> HIDE DEF all, p
  <1>10. reader' = Push(p, record)
    BY <1>3, <1>4
  <1>11. CASE Refuses(p, record)
    BY <1>5, <1>8, <1>10, <1>11
  <1>12. CASE ~Refuses(p, record) /\ x # Edge[1]
    <2>1. reader' = State(slabs, bands, more, y, z)
      BY <1>5, <1>10, <1>12
    <2>2. Fits(slabs, bands, more, y, z) /\ RecordsOf(slabs, bands, more, y, z) = all
      BY <1>6, <1>12
    <2> QED
      BY <1>9, <2>1, <2>2
  <1>13. CASE ~Refuses(p, record) /\ x = Edge[1]
    <2>1. reader' = Opened(slabs, bands, more, y, z)
      BY <1>5, <1>10, <1>13
    <2>2. CASE Opened(slabs, bands, more, y, z) = Malformed
      BY <1>8, <2>1, <2>2
    <2>3. CASE \E s, b, e : /\ Opened(slabs, bands, more, y, z) = State(s, b, <<>>, 0, e)
                            /\ Fits(s, b, <<>>, 0, e) /\ RecordsOf(s, b, <<>>, 0, e) = all
      <3>1. PICK s, b, e : /\ Opened(slabs, bands, more, y, z) = State(s, b, <<>>, 0, e)
                           /\ Fits(s, b, <<>>, 0, e) /\ RecordsOf(s, b, <<>>, 0, e) = all
        BY <2>3
      <3>2. reader' = State(s, b, <<>>, 0, e)
        BY <2>1, <3>1
      <3> QED
        BY <1>9, <3>1, <3>2
    <2> QED
      BY <1>6, <1>13, <2>2, <2>3
  <1> QED
    BY <1>11, <1>12, <1>13

LEMMA ReaderInvariant == PageSpec => []ReaderInv
  <1>1. PageInit => ReaderInv
    <2> SUFFICES ASSUME PageInit PROVE ReaderInv
      OBVIOUS
    <2>1. reader = State(<<>>, <<>>, <<>>, 0, 0) /\ records = <<>>
      BY DEF PageInit, NewReader, State
    <2>2. Holds(reader, records, <<>>, <<>>, <<>>, 0, 0)
      BY <2>1, NothingFits DEF Holds
    <2> QED
      BY <2>2 DEF ReaderInv
  <1>2. ReaderInv /\ [PageNext]_PageVars => ReaderInv'
    <2> SUFFICES ASSUME ReaderInv, [PageNext]_PageVars PROVE ReaderInv'
      OBVIOUS
    <2>1. CASE ReplaceBox \/ UNCHANGED PageVars
      <3>1. reader' = reader /\ records' = records
        BY <2>1 DEF ReplaceBox, PageVars
      <3> QED
        BY <3>1 DEF ReaderInv
    <2>2. CASE ReadRecord
      BY <2>2, ReaderStep
    <2> QED
      BY <2>1, <2>2 DEF PageNext
  <1> QED
    BY <1>1, <1>2, PTL DEF PageSpec

(* A stream that is read whole gives a page, and was its encoding.         *)
LEMMA WholeIsPage ==
  ASSUME ReaderInv, Complete(reader)
  PROVE  reader.slabs \in Pages /\ Encode(reader.slabs) = records
  <1>1. Edge[3] \in Nat \ {0}
    BY PageAssumption DEF Axes
  <1>2. EndOf(Malformed.slabs) = 0
    BY DEF Malformed, NewReader, EndOf
  <1>3. PICK slabs, bands, runs, y, z : Holds(reader, records, slabs, bands, runs, y, z)
    BY <1>1, <1>2 DEF ReaderInv, Complete
  <1>4. /\ reader = State(slabs, bands, runs, y, z) /\ Fits(slabs, bands, runs, y, z)
        /\ records = RecordsOf(slabs, bands, runs, y, z)
    BY <1>3 DEF Holds
  <1>5. reader.slabs = slabs
    BY <1>4 DEF State
  <1>6. EndOf(slabs) = Edge[3]
    BY <1>5 DEF Complete
  <1>7. runs = <<>> /\ bands = <<>>
    <2>1. SUFFICES ASSUME ~(runs = <<>> /\ bands = <<>>) PROVE FALSE
      OBVIOUS
    <2>2. z \in Nat /\ EndOf(slabs) < z /\ z <= Edge[3]
      BY <1>4, <2>1 DEF Fits
    <2> QED
      BY <1>1, <1>6, <2>2
  <1>8. y = 0 /\ z = 0
    BY <1>4, <1>7 DEF Fits
  <1>9. slabs \in Seq(Item(Slabs)) /\ IsReduced(slabs, EndOf(slabs))
    BY <1>4 DEF Fits
  <1>10. slabs \in Pages
    BY <1>6, <1>9 DEF Pages, Layers
  <1>11. PageRecords(slabs) \in Seq(RecordKind)
    BY <1>9, PageRecordsAre
  <1>12. BandRecords(<<>>, 0, 0) = <<>>
    BY DEF BandRecords
  <1>13. records = PageRecords(slabs) \o (<<>> \o <<>>)
    BY <1>4, <1>7, <1>8, <1>12, NothingFits DEF RecordsOf
  <1> DEFINE whole == PageRecords(slabs)
  <1>14. whole \in Seq(RecordKind)
    BY <1>11
  <1> HIDE DEF whole
  <1>15. <<>> \o <<>> = <<>> /\ whole \o <<>> = whole
    BY <1>14, NothingAfter
  <1>16. records = whole
    BY <1>13, <1>15 DEF whole
  <1> QED
    BY <1>5, <1>10, <1>16, EncodeIs DEF whole

-----------------------------------------------------------------------------
(* What a stream reads, record by record.                                  *)
Reads(f, p, stream) ==
  /\ f[0] = p
  /\ \A n \in 1..Len(stream) : f[n] = Push(f[n - 1], stream[n])

LEMMA ReadIs ==
  ASSUME NEW p, NEW stream \in Seq(RecordKind)
  PROVE  \E f : Reads(f, p, stream) /\ ReadFrom(p, stream) = f[Len(stream)]
  <1> DEFINE L == Len(stream)
             Next1(f, n) == IF n = 0 THEN p ELSE Push(f[n - 1], stream[n])
             Equation(f, m) == f = [n \in 0..m |-> Next1(f, n)]
             Good(m) == \E f : Equation(f, m)
             G == {m \in 0..L : Good(m)}
             F == CHOOSE f : Equation(f, L)
  <1>1. L \in Nat
    OBVIOUS
  <1>2. ReadFrom(p, stream) = F[L]
    BY DEF ReadFrom
  <1> HIDE DEF L
  <1>3. Good(0)
    <2> DEFINE f == [n \in 0..0 |-> p]
    <2>1. \A n \in 0..0 : f[n] = Next1(f, n)
      OBVIOUS
    <2>2. f = [n \in 0..0 |-> f[n]]
      OBVIOUS
    <2> HIDE DEF f, Next1
    <2>3. Equation(f, 0)
      BY <2>1, <2>2
    <2> QED
      BY <2>3
  <1>4. ASSUME NEW m \in 1..L, Good(m - 1) PROVE Good(m)
    <2>1. PICK f : Equation(f, m - 1)
      BY <1>4
    <2> DEFINE g == [n \in 0..m |-> IF n = m THEN Push(f[m - 1], stream[m]) ELSE f[n]]
    <2>2. \A n \in 0..m - 1 : f[n] = Next1(f, n)
      <3> HIDE DEF Next1
      <3> QED
        BY <2>1
    <2>3. g[m] = Push(f[m - 1], stream[m]) /\ (\A n \in 0..m - 1 : g[n] = f[n])
          /\ g = [n \in 0..m |-> g[n]]
      BY <1>1
    <2> HIDE DEF g
    <2>4. ASSUME NEW n \in 0..m PROVE g[n] = Next1(g, n)
      <3>1. CASE n = m
        <4>1. m - 1 \in 0..m - 1 /\ m # 0
          BY <1>1
        <4> QED
          BY <2>3, <3>1, <4>1
      <3>2. CASE n # m /\ n # 0
        <4>1. n \in 0..m - 1 /\ n - 1 \in 0..m - 1
          BY <1>1, <3>2
        <4> QED
          BY <2>2, <2>3, <3>2, <4>1
      <3>3. CASE n # m /\ n = 0
        <4>1. n \in 0..m - 1
          BY <1>1, <3>3
        <4> QED
          BY <2>2, <2>3, <3>3, <4>1
      <3> QED
        BY <3>1, <3>2, <3>3
    <2> HIDE DEF Next1
    <2>5. Equation(g, m)
      BY <2>3, <2>4
    <2> QED
      BY <2>5
  <1>5. Good(L)
    <2> HIDE DEF Good
    <2>1. 0 \in G /\ \A m \in 1..L : m - 1 \in G => m \in G
      BY <1>1, <1>3, <1>4
    <2> HIDE DEF G
    <2>2. \A m \in 0..L : m \in G
      BY <1>1, <2>1, CountsUp
    <2> QED
      BY <1>1, <2>2 DEF G
  <1>6. Equation(F, L)
    <2> HIDE DEF Equation
    <2> QED
      BY <1>5
  <1> HIDE DEF F
  <1>7. \A n \in 0..L : F[n] = Next1(F, n)
    <2> HIDE DEF Next1
    <2> QED
      BY <1>6
  <1>8. F[0] = p
    BY <1>1, <1>7
  <1>9. ASSUME NEW n \in 1..L PROVE F[n] = Push(F[n - 1], stream[n])
    <2>1. n \in 0..L /\ n # 0
      BY <1>1
    <2> QED
      BY <1>7, <2>1
  <1> QED
    BY <1>2, <1>8, <1>9 DEF Reads, L

LEMMA ReadsAre ==
  ASSUME NEW p, NEW stream \in Seq(RecordKind), NEW g, Reads(g, p, stream)
  PROVE  ReadFrom(p, stream) = g[Len(stream)]
  <1> DEFINE L == Len(stream)
  <1>1. PICK f : Reads(f, p, stream) /\ ReadFrom(p, stream) = f[L]
    BY ReadIs
  <1>2. L \in Nat
    OBVIOUS
  <1>3. /\ f[0] = p /\ g[0] = p
        /\ \A n \in 1..L : f[n] = Push(f[n - 1], stream[n]) /\ g[n] = Push(g[n - 1], stream[n])
    BY <1>1 DEF Reads
  <1> DEFINE G == {n \in 0..L : f[n] = g[n]}
  <1> HIDE DEF L
  <1>4. 0 \in G /\ \A n \in 1..L : n - 1 \in G => n \in G
    BY <1>2, <1>3
  <1> HIDE DEF G
  <1>5. \A n \in 0..L : n \in G
    BY <1>2, <1>4, CountsUp
  <1> QED
    BY <1>1, <1>2, <1>5 DEF G, L

LEMMA ReadBoth ==
  ASSUME NEW p, NEW s \in Seq(RecordKind), NEW t \in Seq(RecordKind)
  PROVE  ReadFrom(p, Put(s, t)) = ReadFrom(ReadFrom(p, s), t)
  <1> DEFINE k == Len(s)
             l == Len(t)
             st == Put(s, t)
  <1>1. /\ st \in Seq(RecordKind) /\ k \in Nat /\ l \in Nat /\ Len(st) = k + l
        /\ \A i \in 1..k : st[i] = s[i]
        /\ \A i \in k + 1..k + l : st[i] = t[i - k]
    BY ConcatIs DEF Put
  <1>2. PICK f : Reads(f, p, s) /\ ReadFrom(p, s) = f[k]
    BY ReadIs
  <1>3. PICK h : Reads(h, f[k], t) /\ ReadFrom(f[k], t) = h[l]
    BY ReadIs
  <1>4. /\ f[0] = p /\ h[0] = f[k]
        /\ \A n \in 1..k : f[n] = Push(f[n - 1], s[n])
        /\ \A n \in 1..l : h[n] = Push(h[n - 1], t[n])
    BY <1>2, <1>3 DEF Reads
  <1> HIDE DEF st, k, l
  <1> DEFINE g == [n \in 0..k + l |-> IF n <= k THEN f[n] ELSE h[n - k]]
  <1>5. /\ \A n \in 0..k : g[n] = f[n]
        /\ \A n \in k..k + l : g[n] = h[n - k]
    <2>1. \A n \in 0..k : g[n] = f[n]
      BY <1>1
    <2>2. ASSUME NEW n \in k..k + l PROVE g[n] = h[n - k]
      <3>1. CASE n = k
        BY <1>1, <1>4, <3>1
      <3>2. CASE n # k
        BY <1>1, <3>2
      <3> QED
        BY <3>1, <3>2
    <2> QED
      BY <2>1, <2>2
  <1> HIDE DEF g
  <1>6. g[0] = p
    BY <1>1, <1>4, <1>5
  <1>7. ASSUME NEW n \in 1..k + l PROVE g[n] = Push(g[n - 1], st[n])
    <2>1. CASE n <= k
      <3>1. n \in 1..k /\ n \in 0..k /\ n - 1 \in 0..k
        BY <1>1, <2>1
      <3> QED
        BY <1>1, <1>4, <1>5, <3>1
    <2>2. CASE k < n
      <3> DEFINE j == n - k
      <3>1. j \in 1..l /\ n \in k..k + l /\ n - 1 \in k..k + l /\ n \in k + 1..k + l
            /\ (n - 1) - k = j - 1
        BY <1>1, <2>2
      <3>2. g[n] = h[j] /\ g[n - 1] = h[j - 1] /\ st[n] = t[j]
        BY <1>1, <1>5, <3>1
      <3> HIDE DEF j
      <3> QED
        BY <1>4, <3>1, <3>2
    <2> QED
      BY <1>1, <2>1, <2>2
  <1>8. Reads(g, p, st)
    BY <1>1, <1>6, <1>7 DEF Reads
  <1>9. ReadFrom(p, st) = g[k + l]
    BY <1>1, <1>8, ReadsAre
  <1>10. g[k + l] = h[l]
    <2>1. k + l \in k..k + l /\ (k + l) - k = l
      BY <1>1
    <2> QED
      BY <1>5, <2>1
  <1> QED
    BY <1>2, <1>3, <1>9, <1>10 DEF st

(* Lists read one after another.                                           *)
LEMMA ReadFlat ==
  ASSUME NEW p, NEW seqs \in Seq(Seq(RecordKind)), NEW g, g[0] = p,
         \A n \in 1..Len(seqs) : g[n] = ReadFrom(g[n - 1], seqs[n])
  PROVE  ReadFrom(p, Flat(seqs)) = g[Len(seqs)]
  <1> DEFINE L == Len(seqs)
             V == Seq(RecordKind)
  <1>1. PICK f \in [0..L -> V] : Partials(f, seqs)
    BY FlatIs
  <1>2. L \in Nat /\ \A n \in 1..L : seqs[n] \in V
    OBVIOUS
  <1>3. f[0] = <<>> /\ Flat(seqs) = f[L] /\ \A n \in 1..L : f[n] = Put(f[n - 1], seqs[n])
    BY <1>1 DEF Partials
  <1> DEFINE G == {n \in 0..L : ReadFrom(p, f[n]) = g[n]}
  <1>4. 0 \in G
    <2> DEFINE none == <<>>
    <2>1. none \in Seq(RecordKind) /\ Len(none) = 0
      OBVIOUS
    <2>2. Reads(g, p, none)
      BY <2>1 DEF Reads
    <2> HIDE DEF none
    <2>3. ReadFrom(p, none) = g[0]
      BY <2>1, <2>2, ReadsAre
    <2> QED
      BY <1>2, <1>3, <2>3 DEF none
  <1> HIDE DEF L
  <1>5. ASSUME NEW n \in 1..L, n - 1 \in G PROVE n \in G
    <2>1. n - 1 \in 0..L /\ n \in 0..L
      BY <1>2
    <2>2. f[n - 1] \in V /\ seqs[n] \in V
      BY <1>1, <1>2, <2>1
    <2>3. ReadFrom(p, Put(f[n - 1], seqs[n])) = ReadFrom(ReadFrom(p, f[n - 1]), seqs[n])
      BY <2>2, ReadBoth
    <2>4. ReadFrom(p, f[n - 1]) = g[n - 1]
      BY <1>5
    <2>5. g[n] = ReadFrom(g[n - 1], seqs[n])
      BY DEF L
    <2> QED
      BY <1>3, <2>1, <2>3, <2>4, <2>5
  <1> HIDE DEF G, V
  <1>6. \A n \in 0..L : n \in G
    BY <1>2, <1>4, <1>5, CountsUp
  <1> QED
    BY <1>2, <1>3, <1>6 DEF G, L

Prefix(s, n) == [i \in 1..n |-> s[i]]

(* What comes before an item, and the item.                                *)
Cuts(W, e, items, n, q, to, what) ==
  /\ q \in Seq(Item(W)) /\ EndOf(q) = StartAt(items, n)
  /\ to \in Nat /\ what \in W
  /\ EndOf(q) < to /\ to <= e
  /\ ~RepeatsLast(q, what)
  /\ Append(q, [to |-> to, what |-> what]) = Prefix(items, n)
  /\ (q = <<>>) = (n = 1)
  /\ (to = e) = (n = Len(items))

LEMMA PrefixIs ==
  ASSUME NEW W, NEW e, NEW items \in Layers(W, e), NEW n \in 1..Len(items)
  PROVE  Cuts(W, e, items, n, Prefix(items, n - 1), items[n].to, items[n].what)
  <1> DEFINE q == Prefix(items, n - 1)
             new == [to |-> items[n].to, what |-> items[n].what]
             L == Len(items)
  <1>1. items \in Seq(Item(W)) /\ IsReduced(items, e)
    BY DEF Layers
  <1>2. /\ L \in Nat /\ DOMAIN items = 1..L /\ EndOf(items) \in Nat
        /\ \A k \in 1..L : items[k].to \in Nat /\ items[k].what \in W /\ StartAt(items, k) \in Nat
        /\ EndOf(items) = IF L = 0 THEN 0 ELSE items[L].to
    BY <1>1, ItemsAre
  <1>3. EndOf(items) = e /\ StartAt(items, n) < items[n].to
    BY <1>1, <1>2 DEF IsReduced
  <1>4. \A k \in DOMAIN items : items[k] \in Item(W)
    BY <1>1
  <1>5. q \in Seq(Item(W)) /\ Len(q) = n - 1 /\ \A i \in 1..n - 1 : q[i] = items[i]
    BY <1>2, <1>4 DEF Prefix
  <1> HIDE DEF q
  <1>6. q = <<>> <=> n = 1
    BY <1>2, <1>5
  <1>7. n # 1 => Last(q) = items[n - 1]
    BY <1>2, <1>5 DEF Last
  <1>8. EndOf(q) = StartAt(items, n)
    BY <1>6, <1>7 DEF EndOf, StartAt
  <1>9. ~RepeatsLast(q, items[n].what)
    <2>1. CASE n = 1
      BY <1>6, <2>1 DEF RepeatsLast
    <2>2. CASE n # 1
      <3>1. n \in DOMAIN items \ {1}
        BY <1>2, <2>2
      <3>2. items[n - 1].what # items[n].what
        BY <1>1, <3>1 DEF IsReduced
      <3> QED
        BY <1>7, <2>2, <3>2 DEF RepeatsLast
    <2> QED
      BY <2>1, <2>2
  <1>10. new = items[n] /\ new \in Item(W)
    <2>1. items[n] \in Item(W)
      BY <1>2, <1>4
    <2> QED
      BY <2>1 DEF Item
  <1> HIDE DEF new
  <1>11. Append(q, new) = Prefix(items, n)
    <2> DEFINE r == Append(q, new)
               s == Prefix(items, n)
    <2>1. /\ r \in Seq(Item(W)) /\ Len(r) = (n - 1) + 1 /\ r[(n - 1) + 1] = new
          /\ \A i \in 1..n - 1 : r[i] = q[i]
      BY <1>5, <1>10, AppendIs
    <2>2. s \in Seq(Item(W)) /\ Len(s) = n /\ \A i \in 1..n : s[i] = items[i]
      <3>1. s = [i \in 1..n |-> items[i]]
        BY DEF Prefix
      <3> HIDE DEF s
      <3>2. n \in Nat /\ \A i \in 1..n : items[i] \in Item(W)
        <4>1. n \in Nat /\ 1..n \subseteq DOMAIN items
          BY <1>2
        <4> QED
          BY <4>1, <1>4
      <3>3. s \in [1..n -> Item(W)]
        BY <3>1, <3>2
      <3>4. s \in Seq(Item(W)) /\ Len(s) = n
        BY <3>2, <3>3
      <3> QED
        BY <3>1, <3>4
    <2> HIDE DEF r, s
    <2>3. Len(r) = Len(s)
      BY <1>2, <2>1, <2>2
    <2>4. ASSUME NEW i \in 1..Len(r) PROVE r[i] = s[i]
      <3>1. CASE i = n
        BY <1>2, <1>10, <2>1, <2>2, <3>1
      <3>2. CASE i # n
        <4>1. i \in 1..n - 1 /\ i \in 1..n
          BY <1>2, <2>1, <3>2
        <4> QED
          BY <1>5, <2>1, <2>2, <4>1
      <3> QED
        BY <3>1, <3>2
    <2>5. r = s
      BY <2>1, <2>2, <2>3, <2>4, SeqsEqual
    <2> QED
      BY <2>5 DEF r, s
  <1>12. items[n].to <= e /\ (items[n].to = e <=> n = L)
    <2>1. CASE n = L
      BY <1>2, <1>3, <2>1
    <2>2. CASE n # L
      <3>1. n \in DOMAIN items /\ L \in n + 1..L /\ L \in 1..L
        <4>1. n \in 1..L
          OBVIOUS
        <4> HIDE DEF L
        <4> QED
          BY <1>2, <2>2, <4>1
      <3>2. \A k \in DOMAIN items : StartAt(items, k) < items[k].to
        BY <1>1 DEF IsReduced
      <3>3. items[n].to <= StartAt(items, L)
        BY <1>1, <3>1, <3>2, OrderedEnds
      <3>4. StartAt(items, L) < items[L].to
        BY <1>2, <3>1, <3>2
      <3> QED
        BY <1>2, <1>3, <2>2, <3>1, <3>3, <3>4
    <2> QED
      BY <2>1, <2>2
  <1>13. EndOf(q) < items[n].to
    BY <1>3, <1>8
  <1>14. items[n].to \in Nat /\ items[n].what \in W
    BY <1>2
  <1> HIDE DEF L
  <1>15. n = L <=> n = Len(items)
    BY DEF L
  <1> QED
    BY <1>5, <1>6, <1>8, <1>9, <1>11, <1>12, <1>13, <1>14, <1>15 DEF q, new, Cuts

LEMMA PrefixEnds ==
  ASSUME NEW W, NEW e \in Nat \ {0}, NEW items \in Layers(W, e)
  PROVE  /\ Prefix(items, 0) = <<>> /\ Prefix(items, Len(items)) = items
         /\ Len(items) \in Nat \ {0}
  <1>1. items \in Seq(Item(W)) /\ EndOf(items) = e
    BY DEF Layers, IsReduced
  <1>2. Prefix(items, 0) = <<>>
    BY DEF Prefix
  <1>3. Prefix(items, Len(items)) = items
    BY <1>1 DEF Prefix
  <1>4. Len(items) \in Nat /\ EndOf(items) = IF Len(items) = 0 THEN 0 ELSE items[Len(items)].to
    BY <1>1, ItemsAre
  <1>5. Len(items) # 0
    BY <1>1, <1>4
  <1> QED
    BY <1>2, <1>3, <1>4, <1>5

(* A record that goes on from what was read is accepted.                   *)
LEMMA GoesOn ==
  ASSUME NEW slabs \in Seq(Item(Slabs)), NEW bands \in Seq(Item(Bands)), NEW runs \in RunSeqs,
         NEW x \in Nat, NEW y \in Nat, NEW z \in Nat, NEW v \in Voxels,
         NEW bandEnd \in {0, y}, NEW slabEnd \in {0, z},
         EndOf(runs) < x, x <= Edge[1], EndOf(bands) < y, y <= Edge[2],
         EndOf(slabs) < z, z <= Edge[3], ~RepeatsLast(runs, v)
  PROVE  ~Refuses(State(slabs, bands, runs, bandEnd, slabEnd),
                  [high |-> <<x, y, z>>, voxel |-> v])
  <1> DEFINE p == State(slabs, bands, runs, bandEnd, slabEnd)
             record == [high |-> <<x, y, z>>, voxel |-> v]
  <1>1. /\ p.slabs = slabs /\ p.bands = bands /\ p.runs = runs
        /\ p.bandEnd = bandEnd /\ p.slabEnd = slabEnd
    BY DEF State
  <1>2. record.high = <<x, y, z>> /\ record.voxel = v
        /\ record.high[1] = x /\ record.high[2] = y /\ record.high[3] = z
    OBVIOUS
  <1> HIDE DEF p, record
  <1>3. EndOf(slabs) \in Nat /\ EndOf(bands) \in Nat /\ EndOf(runs) \in Nat
    BY ItemsAre DEF RunSeqs
  <1>4. Edge[1] \in Nat /\ Edge[2] \in Nat /\ Edge[3] \in Nat
    BY PageAssumption DEF Axes
  <1>5. ~Complete(p)
    BY <1>1, <1>3, <1>4 DEF Complete
  <1>6. ASSUME NEW a \in Axes PROVE ~(record.high[a] > Edge[a])
    <2>1. a = 1 \/ a = 2 \/ a = 3
      BY DEF Axes
    <2>2. ~(x > Edge[1])
      BY <1>4
    <2>3. CASE a = 1
      BY <1>2, <2>2, <2>3
    <2>6. ~(y > Edge[2])
      BY <1>4
    <2>4. CASE a = 2
      BY <1>2, <2>6, <2>4
    <2>7. ~(z > Edge[3])
      BY <1>4
    <2>5. CASE a = 3
      BY <1>2, <2>7, <2>5
    <2> QED
      BY <2>1, <2>3, <2>4, <2>5
  <1>7. ~(x <= EndOf(runs)) /\ ~(y <= EndOf(bands)) /\ ~(z <= EndOf(slabs))
    <2>1. ~(x <= EndOf(runs))
      BY <1>3
    <2>2. ~(y <= EndOf(bands))
      BY <1>3
    <2>3. ~(z <= EndOf(slabs))
      BY <1>3
    <2> QED
      BY <2>1, <2>2, <2>3
  <1>8. Announced(p, record)
    BY <1>1, <1>2 DEF Announced
  <1>9. ~(runs # <<>> /\ Last(runs).what = v)
    BY DEF RepeatsLast
  <1> QED
    BY <1>1, <1>2, <1>5, <1>6, <1>7, <1>8, <1>9 DEF Refuses, p, record

LEMMA ReadBand ==
  ASSUME NEW slabs \in Seq(Item(Slabs)), NEW bands \in Seq(Item(Bands)), NEW runs \in Bands,
         NEW y \in Nat, NEW z \in Nat, NEW slabEnd \in {0, z},
         EndOf(bands) < y, y <= Edge[2], EndOf(slabs) < z, z <= Edge[3]
  PROVE  ReadFrom(State(slabs, bands, <<>>, 0, slabEnd), BandRecords(runs, y, z)) =
           Opened(slabs, bands, runs, y, z)
  <1> DEFINE L == Len(runs)
             stream == BandRecords(runs, y, z)
             p == State(slabs, bands, <<>>, 0, slabEnd)
             done == Opened(slabs, bands, runs, y, z)
             open(n) == State(slabs, bands, Prefix(runs, n), IF n = 0 THEN 0 ELSE y,
                              IF n = 0 THEN slabEnd ELSE z)
             g == [n \in 0..L |-> IF n = L THEN done ELSE open(n)]
  <1>1. runs \in RunSeqs
    BY DEF Bands, Layers, RunSeqs
  <1>2. /\ stream \in Seq(RecordKind) /\ Len(stream) = L
        /\ \A i \in 1..L : stream[i] = [high |-> <<runs[i].to, y, z>>, voxel |-> runs[i].what]
    BY <1>1, BandRecordsAre
  <1>3. Edge[1] \in Nat \ {0}
    BY PageAssumption DEF Axes
  <1>4. L \in Nat \ {0} /\ Prefix(runs, 0) = <<>> /\ Prefix(runs, L) = runs
    BY <1>3, PrefixEnds DEF Bands
  <1> HIDE DEF L
  <1>5. g[L] = done /\ \A n \in 0..L - 1 : g[n] = open(n)
    <2> HIDE DEF done, open
    <2> QED
      BY <1>4
  <1> HIDE DEF g
  <1>6. g[0] = p
    <2>1. open(0) = p
      BY <1>4
    <2> HIDE DEF open, p
    <2> QED
      BY <1>4, <1>5, <2>1
  <1>7. ASSUME NEW n \in 1..L PROVE g[n] = Push(g[n - 1], stream[n])
    <2> DEFINE q == Prefix(runs, n - 1)
               x == runs[n].to
               v == runs[n].what
               record == [high |-> <<x, y, z>>, voxel |-> v]
               u == IF n - 1 = 0 THEN 0 ELSE y
               w == IF n - 1 = 0 THEN slabEnd ELSE z
    <2>1. n \in 1..Len(runs) /\ runs \in Layers(Voxels, Edge[1])
      BY DEF L, Bands
    <2>2. /\ q \in Seq(Item(Voxels)) /\ x \in Nat /\ v \in Voxels
          /\ EndOf(q) < x /\ x <= Edge[1] /\ ~RepeatsLast(q, v)
          /\ Append(q, [to |-> x, what |-> v]) = Prefix(runs, n)
          /\ (x = Edge[1]) = (n = L)
      <3>1. Cuts(Voxels, Edge[1], runs, n, q, x, v)
        BY <2>1, PrefixIs
      <3> QED
        BY <3>1 DEF Cuts, L
    <2>3. stream[n] = record /\ record.high[1] = x /\ record.high[2] = y /\ record.high[3] = z
          /\ record.voxel = v
      BY <1>2
    <2>4. g[n - 1] = State(slabs, bands, q, u, w)
      <3>1. n - 1 \in 0..L - 1
        BY <1>4
      <3> QED
        BY <1>5, <3>1
    <2>5. u \in {0, y} /\ w \in {0, z}
      OBVIOUS
    <2> HIDE DEF q, x, v, u, w
    <2>6. ~Refuses(State(slabs, bands, q, u, w), record)
      <3>1. q \in RunSeqs
        BY <2>2 DEF RunSeqs
      <3> QED
        BY <2>2, <2>5, <3>1, GoesOn
    <2> HIDE DEF record
    <2>7. Push(State(slabs, bands, q, u, w), record) =
            IF x # Edge[1] THEN State(slabs, bands, Prefix(runs, n), y, z)
            ELSE Opened(slabs, bands, Prefix(runs, n), y, z)
      <3>1. Push(State(slabs, bands, q, u, w), record) =
              IF Refuses(State(slabs, bands, q, u, w), record) THEN Malformed
              ELSE IF record.high[1] # Edge[1]
              THEN State(slabs, bands, Append(q, [to |-> record.high[1], what |-> record.voxel]),
                         record.high[2], record.high[3])
              ELSE Opened(slabs, bands, Append(q, [to |-> record.high[1], what |-> record.voxel]),
                          record.high[2], record.high[3])
        BY PushIs
      <3> QED
        BY <2>2, <2>3, <2>6, <3>1
    <2>8. CASE n = L
      <3>1. g[n] = Opened(slabs, bands, Prefix(runs, n), y, z)
        BY <1>4, <1>5, <2>8
      <3> QED
        BY <2>2, <2>3, <2>4, <2>7, <2>8, <3>1
    <2>9. CASE n # L
      <3>1. n \in 0..L - 1 /\ n # 0
        BY <1>4, <2>9
      <3>2. g[n] = State(slabs, bands, Prefix(runs, n), y, z)
        BY <1>5, <3>1
      <3> QED
        BY <2>2, <2>3, <2>4, <2>7, <2>9, <3>2
    <2> QED
      BY <2>8, <2>9
  <1>8. Reads(g, p, stream)
    BY <1>2, <1>6, <1>7 DEF Reads
  <1> HIDE DEF p, stream, done, open
  <1>9. ReadFrom(p, stream) = g[Len(stream)]
    BY <1>2, <1>8, ReadsAre
  <1> QED
    BY <1>2, <1>5, <1>9 DEF p, stream, done

LEMMA ReadSlab ==
  ASSUME NEW slabs \in Seq(Item(Slabs)), NEW bands \in Slabs, NEW z \in Nat,
         EndOf(slabs) < z, z <= Edge[3], ~RepeatsLast(slabs, bands)
  PROVE  ReadFrom(State(slabs, <<>>, <<>>, 0, 0), SlabRecords(bands, z)) =
           State(Append(slabs, [to |-> z, what |-> bands]), <<>>, <<>>, 0, 0)
  <1> DEFINE L == Len(bands)
             Rec(b) == BandRecords(bands[b].what, bands[b].to, z)
             seqs == [b \in DOMAIN bands |-> Rec(b)]
             p == State(slabs, <<>>, <<>>, 0, 0)
             done == State(Append(slabs, [to |-> z, what |-> bands]), <<>>, <<>>, 0, 0)
             open(n) == State(slabs, Prefix(bands, n), <<>>, 0, IF n = 0 THEN 0 ELSE z)
             g == [n \in 0..L |-> IF n = L THEN done ELSE open(n)]
  <1>1. bands \in Layers(Bands, Edge[2]) /\ bands \in Seq(Item(Bands))
    BY DEF Slabs, Layers
  <1>2. Edge[2] \in Nat \ {0}
    BY PageAssumption DEF Axes
  <1>3. L \in Nat \ {0} /\ Prefix(bands, 0) = <<>> /\ Prefix(bands, L) = bands
    BY <1>1, <1>2, PrefixEnds
  <1>4. DOMAIN bands = 1..L
    BY <1>1
  <1>5. ASSUME NEW n \in 1..L
        PROVE  LET q == Prefix(bands, n - 1)
                   y == bands[n].to
                   runs == bands[n].what
               IN  /\ q \in Seq(Item(Bands)) /\ y \in Nat /\ runs \in Bands
                   /\ EndOf(q) < y /\ y <= Edge[2] /\ ~RepeatsLast(q, runs)
                   /\ Append(q, [to |-> y, what |-> runs]) = Prefix(bands, n)
                   /\ (y = Edge[2]) = (n = L)
    <2>1. n \in 1..Len(bands)
      OBVIOUS
    <2>2. Cuts(Bands, Edge[2], bands, n, Prefix(bands, n - 1), bands[n].to, bands[n].what)
      BY <1>1, <2>1, PrefixIs
    <2> QED
      BY <2>2 DEF Cuts
  <1> HIDE DEF L
  <1>6. g[L] = done /\ \A n \in 0..L - 1 : g[n] = open(n)
    <2> HIDE DEF done, open
    <2> QED
      BY <1>3
  <1> HIDE DEF g
  <1>7. g[0] = p
    <2>1. open(0) = p
      BY <1>3
    <2> HIDE DEF open, p
    <2> QED
      BY <1>3, <1>6, <2>1
  <1>8. seqs \in Seq(Seq(RecordKind)) /\ Len(seqs) = L /\ \A n \in 1..L : seqs[n] = Rec(n)
    <2>1. ASSUME NEW n \in 1..L PROVE Rec(n) \in Seq(RecordKind)
      <3>1. bands[n].what \in RunSeqs /\ bands[n].to \in Nat
        BY <1>5 DEF Bands, Layers, RunSeqs
      <3> QED
        BY <3>1, BandRecordsAre
    <2> HIDE DEF Rec
    <2> QED
      BY <1>3, <1>4, <2>1
  <1>9. SlabRecords(bands, z) = Flat(seqs)
    BY DEF SlabRecords
  <1> HIDE DEF seqs
  <1>10. ASSUME NEW n \in 1..L PROVE g[n] = ReadFrom(g[n - 1], seqs[n])
    <2> DEFINE q == Prefix(bands, n - 1)
               y == bands[n].to
               runs == bands[n].what
               w == IF n - 1 = 0 THEN 0 ELSE z
               more == Append(q, [to |-> y, what |-> runs])
    <2>1. /\ q \in Seq(Item(Bands)) /\ y \in Nat /\ runs \in Bands
          /\ EndOf(q) < y /\ y <= Edge[2] /\ ~RepeatsLast(q, runs)
          /\ more = Prefix(bands, n)
          /\ (y = Edge[2]) = (n = L)
      BY <1>5
    <2>2. g[n - 1] = State(slabs, q, <<>>, 0, w)
      <3>1. n - 1 \in 0..L - 1
        BY <1>3
      <3> QED
        BY <1>6, <3>1
    <2>3. seqs[n] = BandRecords(runs, y, z)
      BY <1>8
    <2>4. w \in {0, z}
      OBVIOUS
    <2> HIDE DEF q, y, runs, w
    <2>5. ReadFrom(State(slabs, q, <<>>, 0, w), BandRecords(runs, y, z)) = Opened(slabs, q, runs, y, z)
      BY <2>1, <2>4, ReadBand
    <2>6. Opened(slabs, q, runs, y, z) =
            IF y # Edge[2] THEN State(slabs, more, <<>>, 0, z)
            ELSE IF RepeatsLast(slabs, more) THEN Malformed
            ELSE State(Append(slabs, [to |-> z, what |-> more]), <<>>, <<>>, 0, 0)
      BY <2>1 DEF Opened
    <2> HIDE DEF more
    <2>7. CASE n = L
      <3>1. more = bands
        BY <1>3, <2>1, <2>7
      <3>2. g[n] = State(Append(slabs, [to |-> z, what |-> bands]), <<>>, <<>>, 0, 0)
        BY <1>6, <2>7
      <3> QED
        BY <2>1, <2>2, <2>3, <2>5, <2>6, <2>7, <3>1, <3>2
    <2>8. CASE n # L
      <3>1. n \in 0..L - 1 /\ n # 0
        BY <1>3, <2>8
      <3>2. g[n] = State(slabs, Prefix(bands, n), <<>>, 0, z)
        BY <1>6, <3>1
      <3> QED
        BY <2>1, <2>2, <2>3, <2>5, <2>6, <2>8, <3>2
    <2> QED
      BY <2>7, <2>8
  <1> HIDE DEF p, done, open
  <1>11. ReadFrom(p, Flat(seqs)) = g[Len(seqs)]
    <2>1. \A n \in 1..Len(seqs) : g[n] = ReadFrom(g[n - 1], seqs[n])
      BY <1>8, <1>10
    <2> QED
      BY <1>7, <1>8, <2>1, ReadFlat
  <1> QED
    BY <1>6, <1>8, <1>9, <1>11 DEF p, done

(* The encoding of a page is read whole, and gives that page.              *)
LEMMA ReadPage ==
  ASSUME NEW of \in Pages
  PROVE  Decode(Encode(of)) = [NewReader EXCEPT !.slabs = of]
  <1> DEFINE L == Len(of)
             Rec(s) == SlabRecords(of[s].what, of[s].to)
             seqs == [s \in DOMAIN of |-> Rec(s)]
             open(n) == State(Prefix(of, n), <<>>, <<>>, 0, 0)
             g == [n \in 0..L |-> open(n)]
  <1>1. of \in Layers(Slabs, Edge[3]) /\ of \in Seq(Item(Slabs))
    BY DEF Pages, Layers
  <1>2. Edge[3] \in Nat \ {0}
    BY PageAssumption DEF Axes
  <1>3. L \in Nat \ {0} /\ Prefix(of, 0) = <<>> /\ Prefix(of, L) = of
    BY <1>1, <1>2, PrefixEnds
  <1>4. DOMAIN of = 1..L
    BY <1>1
  <1>5. ASSUME NEW n \in 1..L
        PROVE  LET q == Prefix(of, n - 1)
                   z == of[n].to
                   bands == of[n].what
               IN  /\ q \in Seq(Item(Slabs)) /\ z \in Nat /\ bands \in Slabs
                   /\ EndOf(q) < z /\ z <= Edge[3] /\ ~RepeatsLast(q, bands)
                   /\ Append(q, [to |-> z, what |-> bands]) = Prefix(of, n)
    <2>1. n \in 1..Len(of)
      OBVIOUS
    <2>2. Cuts(Slabs, Edge[3], of, n, Prefix(of, n - 1), of[n].to, of[n].what)
      BY <1>1, <2>1, PrefixIs
    <2> QED
      BY <2>2 DEF Cuts
  <1> HIDE DEF L
  <1>6. \A n \in 0..L : g[n] = open(n)
    <2> HIDE DEF open
    <2> QED
      OBVIOUS
  <1> HIDE DEF g
  <1>7. g[0] = NewReader
    <2>1. open(0) = NewReader
      BY <1>3 DEF State, NewReader
    <2> HIDE DEF open
    <2> QED
      BY <1>3, <1>6, <2>1
  <1>8. seqs \in Seq(Seq(RecordKind)) /\ Len(seqs) = L /\ \A n \in 1..L : seqs[n] = Rec(n)
    <2>1. ASSUME NEW n \in 1..L PROVE Rec(n) \in Seq(RecordKind)
      <3>1. of[n].what \in Seq(Item(Bands)) /\ of[n].to \in Nat
        BY <1>5 DEF Slabs, Layers
      <3> QED
        BY <3>1, SlabRecordsAre
    <2> HIDE DEF Rec
    <2> QED
      BY <1>3, <1>4, <2>1
  <1>9. Encode(of) = Flat(seqs)
    BY EncodeIs DEF PageRecords
  <1> HIDE DEF seqs
  <1>10. ASSUME NEW n \in 1..L PROVE g[n] = ReadFrom(g[n - 1], seqs[n])
    <2> DEFINE q == Prefix(of, n - 1)
               z == of[n].to
               bands == of[n].what
    <2>1. /\ q \in Seq(Item(Slabs)) /\ z \in Nat /\ bands \in Slabs
          /\ EndOf(q) < z /\ z <= Edge[3] /\ ~RepeatsLast(q, bands)
          /\ Append(q, [to |-> z, what |-> bands]) = Prefix(of, n)
      BY <1>5
    <2>2. n - 1 \in 0..L /\ n \in 0..L
      BY <1>3
    <2>3. g[n - 1] = State(q, <<>>, <<>>, 0, 0) /\ g[n] = State(Prefix(of, n), <<>>, <<>>, 0, 0)
      BY <1>6, <2>2
    <2>4. seqs[n] = SlabRecords(bands, z)
      BY <1>8
    <2> HIDE DEF q, z, bands
    <2>5. ReadFrom(State(q, <<>>, <<>>, 0, 0), SlabRecords(bands, z)) =
            State(Append(q, [to |-> z, what |-> bands]), <<>>, <<>>, 0, 0)
      BY <2>1, ReadSlab
    <2> QED
      BY <2>1, <2>3, <2>4, <2>5
  <1>11. ReadFrom(NewReader, Flat(seqs)) = g[Len(seqs)]
    <2>1. \A n \in 1..Len(seqs) : g[n] = ReadFrom(g[n - 1], seqs[n])
      BY <1>8, <1>10
    <2> QED
      BY <1>7, <1>8, <2>1, ReadFlat
  <1>12. g[L] = State(of, <<>>, <<>>, 0, 0)
    BY <1>3, <1>6
  <1>13. SlabRead(of) = State(of, <<>>, <<>>, 0, 0)
    BY SlabReadIs
  <1> QED
    BY <1>8, <1>9, <1>11, <1>12, <1>13 DEF Decode, SlabRead

(* Whatever records are given, those the reader has accepted when it is    *)
(* complete are the encoding of the page it gives, which is canonical: no  *)
(* page has two encodings and no record is dropped; and the encoding of    *)
(* the page that the edits have made, whatever they were, is read to its   *)
(* end and gives that page (volume/codec.rs: Parser::push).                *)
THEOREM OnlyPagesDecode == PageSpec => []OnlyCanonicalDecodes
  <1>1. PageInv /\ ReaderInv => OnlyCanonicalDecodes
    <2> SUFFICES ASSUME PageInv, ReaderInv PROVE OnlyCanonicalDecodes
      OBVIOUS
    <2>1. Complete(reader) => Encode(reader.slabs) = records /\ IsCanonical(reader.slabs)
      BY WholeIsPage, PagesAreCanonical
    <2>2. Decode(Encode(page)) = [NewReader EXCEPT !.slabs = page]
      BY ReadPage DEF PageInv
    <2> QED
      BY <2>1, <2>2 DEF OnlyCanonicalDecodes
  <1> QED
    BY <1>1, PageInvariant, ReaderInvariant, PTL

-----------------------------------------------------------------------------
(* Sums.  Of a total each summand is a set of pairs, so that what holds of *)
(* sums is what holds of the sizes of sets.                                *)

Grains(f) == UNION {{x} \X (1..f[x]) : x \in DOMAIN f}
Weights(D) == [D -> Nat]
Part(f, S) == [x \in S |-> f[x]]
Glued(D, A) == UNION {{x} \X A[x] : x \in D}

LEMMA GrainsAre ==
  ASSUME NEW f, NEW y
  PROVE  y \in Grains(f) <=> \E x \in DOMAIN f : \E n \in 1..f[x] : y = <<x, n>>
  BY DEF Grains

LEMMA SameSize ==
  ASSUME NEW S, IsFiniteSet(S), NEW T, NEW f, DOMAIN f = S, f = [x \in S |-> f[x]],
         \A x \in S : f[x] \in T,
         \A x, y \in S : f[x] = f[y] => x = y,
         \A z \in T : \E x \in S : f[x] = z
  PROVE  IsFiniteSet(T) /\ Cardinality(T) = Cardinality(S)
  <1>1. f \in [S -> T]
    OBVIOUS
  <1>2. f \in Bijection(S, T)
    BY <1>1 DEF Bijection, Injection, Surjection, IsInjective
  <1>3. ExistsBijection(S, T)
    BY <1>2 DEF ExistsBijection
  <1> QED
    BY <1>3, FS_Bijection

(* What is made of a finite number of finite parts is finite.              *)
LEMMA GluedIsFinite ==
  ASSUME NEW D, IsFiniteSet(D), NEW A, \A x \in D : IsFiniteSet(A[x])
  PROVE  IsFiniteSet(Glued(D, A))
  <1> DEFINE parts == {{x} \X A[x] : x \in D}
             f == [x \in D |-> {x} \X A[x]]
  <1>1. f \in Surjection(D, parts)
    BY DEF Surjection
  <1>2. IsFiniteSet(parts)
    BY <1>1, FS_Surjection
  <1>3. \A x \in D : IsFiniteSet({x} \X A[x])
    <2> TAKE x \in D
    <2>1. IsFiniteSet({x})
      BY FS_Singleton
    <2> QED
      BY <2>1, FS_Product
  <1>4. \A T \in parts : IsFiniteSet(T)
    BY <1>3
  <1> HIDE DEF parts
  <1>5. IsFiniteSet(UNION parts)
    BY <1>2, <1>4, FS_UNION
  <1> QED
    BY <1>5 DEF parts, Glued

LEMMA TotalIsNatural ==
  ASSUME NEW D, IsFiniteSet(D), NEW f \in Weights(D)
  PROVE  IsFiniteSet(Grains(f)) /\ Total(f) \in Nat /\ Total(f) = Cardinality(Grains(f))
  <1>1. DOMAIN f = D /\ \A x \in D : f[x] \in Nat
    BY DEF Weights
  <1> DEFINE A == [x \in D |-> 1..f[x]]
  <1>2. \A x \in D : IsFiniteSet(A[x])
    <2> TAKE x \in D
    <2>1. f[x] \in Int /\ 1 \in Int
      BY <1>1
    <2>2. IsFiniteSet(1..f[x])
      BY <2>1, FS_Interval
    <2> QED
      BY <2>2
  <1>3. Grains(f) = Glued(D, A)
    BY <1>1 DEF Grains, Glued
  <1> HIDE DEF A
  <1>4. IsFiniteSet(Grains(f))
    BY <1>2, <1>3, GluedIsFinite
  <1> QED
    BY <1>4, FS_CardinalityType DEF Total, Grains

(* The sum over two parts of a domain.                                     *)
LEMMA TotalSplits ==
  ASSUME NEW D, IsFiniteSet(D), NEW f \in Weights(D), NEW S \in SUBSET D
  PROVE  /\ Total(f) = Total(Part(f, S)) + Total(Part(f, D \ S))
         /\ Total(Part(f, S)) \in Nat /\ Total(Part(f, D \ S)) \in Nat
  <1> DEFINE g == Part(f, S)
             h == Part(f, D \ S)
  <1>1. /\ IsFiniteSet(S) /\ IsFiniteSet(D \ S)
        /\ g \in Weights(S) /\ h \in Weights(D \ S)
    BY FS_Subset, FS_Difference DEF Part, Weights
  <1>2. /\ IsFiniteSet(Grains(f)) /\ Total(f) = Cardinality(Grains(f))
        /\ IsFiniteSet(Grains(g)) /\ Total(g) = Cardinality(Grains(g)) /\ Total(g) \in Nat
        /\ IsFiniteSet(Grains(h)) /\ Total(h) = Cardinality(Grains(h)) /\ Total(h) \in Nat
    BY <1>1, TotalIsNatural
  <1>3. /\ DOMAIN f = D /\ DOMAIN g = S /\ DOMAIN h = D \ S
        /\ \A x \in S : g[x] = f[x]
        /\ \A x \in D \ S : h[x] = f[x]
    BY DEF Part, Weights
  <1> HIDE DEF g, h
  <1>4. Grains(f) = Grains(g) \cup Grains(h)
    <2> SUFFICES ASSUME NEW y PROVE y \in Grains(f) <=> y \in Grains(g) \/ y \in Grains(h)
      OBVIOUS
    <2> QED
      BY <1>3, GrainsAre
  <1>5. Grains(g) \cap Grains(h) = {}
    <2> SUFFICES ASSUME NEW y, y \in Grains(g), y \in Grains(h) PROVE FALSE
      OBVIOUS
    <2> QED
      BY <1>3, GrainsAre
  <1>6. Cardinality(Grains(f))
          = Cardinality(Grains(g)) + Cardinality(Grains(h)) - Cardinality(Grains(g) \cap Grains(h))
    BY <1>2, <1>4, FS_Union
  <1>7. Cardinality(Grains(g) \cap Grains(h)) = 0
    BY <1>5, FS_EmptySet
  <1> QED
    BY <1>2, <1>6, <1>7 DEF g, h

(* The same sum over another domain.                                       *)
LEMMA TotalMapped ==
  ASSUME NEW S, IsFiniteSet(S), NEW g \in Weights(S),
         NEW D, NEW f \in Weights(D), NEW b \in [S -> D],
         \A x, y \in S : b[x] = b[y] => x = y,
         \A z \in D : \E x \in S : b[x] = z,
         \A x \in S : f[b[x]] = g[x]
  PROVE  Total(f) = Total(g)
  <1>1. IsFiniteSet(D)
    <2>1. b = [x \in S |-> b[x]] /\ DOMAIN b = S /\ \A x \in S : b[x] \in D
      OBVIOUS
    <2> QED
      BY <2>1, SameSize
  <1>2. /\ IsFiniteSet(Grains(g)) /\ Total(g) = Cardinality(Grains(g))
        /\ Total(f) = Cardinality(Grains(f))
    BY <1>1, TotalIsNatural
  <1>3. DOMAIN f = D /\ DOMAIN g = S
    BY DEF Weights
  <1> DEFINE move == [y \in Grains(g) |-> <<b[y[1]], y[2]>>]
  <1>4. \A y \in Grains(g) : \E x \in S : \E n \in 1..g[x] :
          y = <<x, n>> /\ move[y] = <<b[x], n>>
    <2> TAKE y \in Grains(g)
    <2>1. PICK x \in S : \E n \in 1..g[x] : y = <<x, n>>
      BY <1>3, GrainsAre
    <2>2. PICK n \in 1..g[x] : y = <<x, n>>
      BY <2>1
    <2>3. move[y] = <<b[x], n>>
      BY <2>2
    <2> QED
      BY <2>2, <2>3
  <1>5. ASSUME NEW x \in S, NEW n \in 1..g[x]
        PROVE  <<x, n>> \in Grains(g) /\ move[<<x, n>>] = <<b[x], n>>
    <2>1. <<x, n>> \in Grains(g)
      BY <1>3, GrainsAre
    <2> QED
      BY <2>1
  <1>7. move = [y \in Grains(g) |-> move[y]] /\ DOMAIN move = Grains(g)
    OBVIOUS
  <1> HIDE DEF move
  <1>8. \A y \in Grains(g) : move[y] \in Grains(f)
    <2> TAKE y \in Grains(g)
    <2>1. PICK x \in S : \E n \in 1..g[x] : y = <<x, n>> /\ move[y] = <<b[x], n>>
      BY <1>4
    <2>2. b[x] \in D /\ f[b[x]] = g[x]
      OBVIOUS
    <2> QED
      BY <1>3, <2>1, <2>2, GrainsAre
  <1>9. \A y, z \in Grains(g) : move[y] = move[z] => y = z
    <2> SUFFICES ASSUME NEW y \in Grains(g), NEW z \in Grains(g), move[y] = move[z]
                 PROVE  y = z
      OBVIOUS
    <2>1. PICK x \in S : \E n \in 1..g[x] : y = <<x, n>> /\ move[y] = <<b[x], n>>
      BY <1>4
    <2>2. PICK w \in S : \E n \in 1..g[w] : z = <<w, n>> /\ move[z] = <<b[w], n>>
      BY <1>4
    <2>3. b[x] = b[w]
      BY <2>1, <2>2
    <2>4. x = w
      BY <2>3
    <2> QED
      BY <2>1, <2>2, <2>4
  <1>10. \A z \in Grains(f) : \E y \in Grains(g) : move[y] = z
    <2> TAKE z \in Grains(f)
    <2>1. PICK d \in D : \E n \in 1..f[d] : z = <<d, n>>
      BY <1>3, GrainsAre
    <2>2. PICK n \in 1..f[d] : z = <<d, n>>
      BY <2>1
    <2>3. PICK x \in S : b[x] = d
      OBVIOUS
    <2>4. n \in 1..g[x]
      BY <2>2, <2>3
    <2> QED
      BY <1>5, <2>2, <2>3, <2>4
  <1>11. Cardinality(Grains(f)) = Cardinality(Grains(g))
    BY <1>2, <1>7, <1>8, <1>9, <1>10, SameSize
  <1> QED
    BY <1>2, <1>11

(* Where nothing is, nothing is added.                                     *)
LEMMA TotalOfSome ==
  ASSUME NEW D, NEW f \in Weights(D), NEW S \in SUBSET D, \A x \in D \ S : f[x] = 0
  PROVE  Total(f) = Total(Part(f, S))
  <1> DEFINE g == Part(f, S)
  <1>1. /\ DOMAIN f = D /\ DOMAIN g = S
        /\ \A x \in S : g[x] = f[x]
    BY DEF Part, Weights
  <1>2. 1..0 = {}
    OBVIOUS
  <1> HIDE DEF g
  <1>3. Grains(f) = Grains(g)
    <2> SUFFICES ASSUME NEW y PROVE y \in Grains(f) <=> y \in Grains(g)
      OBVIOUS
    <2>1. y \in Grains(f) => y \in Grains(g)
      <3> SUFFICES ASSUME y \in Grains(f) PROVE y \in Grains(g)
        OBVIOUS
      <3>1. PICK x \in D : \E n \in 1..f[x] : y = <<x, n>>
        BY <1>1, GrainsAre
      <3>2. x \in S
        BY <1>2, <3>1
      <3> QED
        BY <1>1, <3>1, <3>2, GrainsAre
    <2>2. y \in Grains(g) => y \in Grains(f)
      BY <1>1, GrainsAre
    <2> QED
      BY <2>1, <2>2
  <1> QED
    BY <1>3 DEF Total, Grains, g

(* Summands that are all the same.                                         *)
LEMMA TotalOfEqual ==
  ASSUME NEW S, IsFiniteSet(S), NEW k \in Nat
  PROVE  Total([x \in S |-> k]) = k * Cardinality(S)
  <1> DEFINE f == [x \in S |-> k]
  <1>1. DOMAIN f = S /\ \A x \in S : f[x] = k
    OBVIOUS
  <1> HIDE DEF f
  <1>2. Grains(f) = S \X (1..k)
    <2> SUFFICES ASSUME NEW y PROVE y \in Grains(f) <=> y \in S \X (1..k)
      OBVIOUS
    <2> QED
      BY <1>1, GrainsAre
  <1>3. IsFiniteSet(1..k) /\ Cardinality(1..k) = k
    <2>1. 1 \in Int /\ k \in Int /\ (1 > k => k = 0)
      OBVIOUS
    <2> QED
      BY <2>1, FS_Interval
  <1>4. Cardinality(S \X (1..k)) = Cardinality(S) * k
    BY <1>3, FS_Product
  <1>5. Cardinality(S) \in Nat
    BY FS_CardinalityType
  <1>6. Cardinality(S) * k = k * Cardinality(S)
    BY <1>5
  <1> QED
    BY <1>2, <1>4, <1>6 DEF Total, Grains, f

(* The sum of an indicator is a count.                                     *)
LEMMA TotalCounts ==
  ASSUME NEW D, IsFiniteSet(D), NEW S \in SUBSET D, NEW f, f = [x \in D |-> IF x \in S THEN 1 ELSE 0]
  PROVE  f \in Weights(D) /\ Total(f) = Cardinality(S) /\ Cardinality(S) \in Nat
  <1>1. f \in Weights(D) /\ \A x \in D \ S : f[x] = 0
    BY DEF Weights
  <1>2. Part(f, S) = [x \in S |-> 1]
    BY DEF Part
  <1>3. Total(f) = Total(Part(f, S))
    BY <1>1, TotalOfSome
  <1>4. IsFiniteSet(S) /\ Cardinality(S) \in Nat
    BY FS_Subset, FS_CardinalityType
  <1>5. Total([x \in S |-> 1]) = 1 * Cardinality(S)
    BY <1>4, TotalOfEqual
  <1> QED
    BY <1>1, <1>2, <1>3, <1>4, <1>5

(* One summand changes.                                                    *)
LEMMA TotalMoves ==
  ASSUME NEW D, IsFiniteSet(D), NEW f \in Weights(D), NEW g \in Weights(D), NEW d \in D,
         \A x \in D : x # d => g[x] = f[x]
  PROVE  Total(g) = Total(f) - f[d] + g[d] /\ Total(f) \in Nat
  <1>1. /\ Total(f) = Total(Part(f, {d})) + Total(Part(f, D \ {d}))
        /\ Total(g) = Total(Part(g, {d})) + Total(Part(g, D \ {d}))
        /\ Total(Part(f, {d})) \in Nat /\ Total(Part(f, D \ {d})) \in Nat
    <2>1. {d} \in SUBSET D
      OBVIOUS
    <2>2. /\ Total(f) = Total(Part(f, {d})) + Total(Part(f, D \ {d}))
          /\ Total(Part(f, {d})) \in Nat /\ Total(Part(f, D \ {d})) \in Nat
      BY <2>1, TotalSplits
    <2>3. Total(g) = Total(Part(g, {d})) + Total(Part(g, D \ {d}))
      BY <2>1, TotalSplits
    <2> QED
      BY <2>2, <2>3
  <1>2. Part(f, D \ {d}) = Part(g, D \ {d})
    BY DEF Part
  <1>3. f[d] \in Nat /\ g[d] \in Nat
    BY DEF Weights
  <1>4. ASSUME NEW h, h[d] \in Nat
        PROVE  Total(Part(h, {d})) = h[d]
    <2>1. Part(h, {d}) = [x \in {d} |-> h[d]]
      BY DEF Part
    <2>2. IsFiniteSet({d}) /\ Cardinality({d}) = 1
      BY FS_Singleton
    <2>3. Total([x \in {d} |-> h[d]]) = h[d] * Cardinality({d})
      BY <1>4, <2>2, TotalOfEqual
    <2>4. h[d] * Cardinality({d}) = h[d]
      BY <1>4, <2>2
    <2> QED
      BY <2>1, <2>3, <2>4
  <1>5. Total(Part(f, {d})) = f[d] /\ Total(Part(g, {d})) = g[d]
    BY <1>3, <1>4
  <1> QED
    BY <1>1, <1>2, <1>3, <1>5

(* The sum of sums.                                                        *)
LEMMA TotalAdds ==
  ASSUME NEW D, IsFiniteSet(D), NEW f \in Weights(D), NEW g \in Weights(D),
         NEW h, h = [x \in D |-> f[x] + g[x]]
  PROVE  h \in Weights(D) /\ Total(h) = Total(f) + Total(g) /\ Total(f) \in Nat /\ Total(g) \in Nat
  <1>1. /\ h \in Weights(D) /\ DOMAIN f = D /\ DOMAIN g = D /\ DOMAIN h = D
        /\ \A x \in D : f[x] \in Nat /\ g[x] \in Nat /\ h[x] = f[x] + g[x]
    BY DEF Weights
  <1>2. /\ IsFiniteSet(Grains(f)) /\ Total(f) = Cardinality(Grains(f)) /\ Total(f) \in Nat
        /\ IsFiniteSet(Grains(g)) /\ Total(g) = Cardinality(Grains(g)) /\ Total(g) \in Nat
        /\ IsFiniteSet(Grains(h)) /\ Total(h) = Cardinality(Grains(h))
    BY <1>1, TotalIsNatural
  <1> DEFINE rest == Grains(h) \ Grains(f)
             lift == [y \in Grains(g) |-> <<y[1], y[2] + f[y[1]]>>]
  <1>3. Grains(f) \subseteq Grains(h)
    <2> SUFFICES ASSUME NEW y \in Grains(f) PROVE y \in Grains(h)
      OBVIOUS
    <2>1. PICK x \in D : \E n \in 1..f[x] : y = <<x, n>>
      BY <1>1, GrainsAre
    <2>2. \A n \in 1..f[x] : n \in 1..h[x]
      BY <1>1
    <2> QED
      BY <1>1, <2>1, <2>2, GrainsAre
  <1>4. ASSUME NEW x \in D, NEW n \in 1..g[x]
        PROVE  <<x, n>> \in Grains(g) /\ lift[<<x, n>>] = <<x, n + f[x]>>
    <2>1. <<x, n>> \in Grains(g)
      BY <1>1, GrainsAre
    <2> QED
      BY <2>1
  <1>5. lift = [y \in Grains(g) |-> lift[y]] /\ DOMAIN lift = Grains(g)
    OBVIOUS
  <1> HIDE DEF lift
  <1>6. \A x \in D : \A n \in 1..g[x] : <<x, n + f[x]>> \in rest
    <2>1. ASSUME NEW x \in D, NEW n \in 1..g[x]
          PROVE  <<x, n + f[x]>> \in rest
      <3>1. n + f[x] \in 1..h[x] /\ n + f[x] \notin 1..f[x]
        BY <1>1
      <3>2. <<x, n + f[x]>> \in Grains(h)
        BY <1>1, <3>1, GrainsAre
      <3>3. <<x, n + f[x]>> \notin Grains(f)
        BY <1>1, <3>1, GrainsAre
      <3> QED
        BY <3>2, <3>3
    <2> QED
      BY <2>1
  <1>7. \A y \in Grains(g) : \E x \in D : \E n \in 1..g[x] : y = <<x, n>>
    BY <1>1, GrainsAre
  <1>8. \A y \in Grains(g) : lift[y] \in rest
    BY <1>4, <1>6, <1>7
  <1>9. \A y, z \in Grains(g) : lift[y] = lift[z] => y = z
    <2> SUFFICES ASSUME NEW y \in Grains(g), NEW z \in Grains(g), lift[y] = lift[z]
                 PROVE  y = z
      OBVIOUS
    <2>1. PICK x \in D : \E n \in 1..g[x] : y = <<x, n>>
      BY <1>7
    <2>2. PICK n \in 1..g[x] : y = <<x, n>>
      BY <2>1
    <2>3. PICK w \in D : \E m \in 1..g[w] : z = <<w, m>>
      BY <1>7
    <2>4. PICK m \in 1..g[w] : z = <<w, m>>
      BY <2>3
    <2>5. <<x, n + f[x]>> = <<w, m + f[w]>>
      BY <1>4, <2>2, <2>4
    <2>6. x = w /\ n + f[x] = m + f[x] /\ n \in Int /\ m \in Int /\ f[x] \in Nat
      BY <1>1, <2>5
    <2>7. n = m
      BY <2>6
    <2> QED
      BY <2>2, <2>4, <2>6, <2>7
  <1>10. \A z \in rest : \E y \in Grains(g) : lift[y] = z
    <2> SUFFICES ASSUME NEW z \in rest PROVE \E y \in Grains(g) : lift[y] = z
      OBVIOUS
    <2>1. PICK x \in D : \E n \in 1..h[x] : z = <<x, n>>
      BY <1>1, GrainsAre
    <2>2. PICK n \in 1..h[x] : z = <<x, n>>
      BY <2>1
    <2>3. n \notin 1..f[x]
      BY <1>1, <2>2, GrainsAre
    <2>4. n - f[x] \in 1..g[x] /\ (n - f[x]) + f[x] = n
      BY <1>1, <2>3
    <2> QED
      BY <1>4, <2>2, <2>4
  <1> HIDE DEF rest
  <1>11. IsFiniteSet(rest) /\ Cardinality(rest) = Cardinality(Grains(g))
    BY <1>2, <1>5, <1>8, <1>9, <1>10, SameSize
  <1>12. Grains(f) \cup rest = Grains(h) /\ Grains(f) \cap rest = {}
    BY <1>3 DEF rest
  <1>13. Cardinality(Grains(f) \cap rest) = 0
    BY <1>12, FS_EmptySet
  <1>14. Cardinality(Grains(h))
           = Cardinality(Grains(f)) + Cardinality(rest) - Cardinality(Grains(f) \cap rest)
    BY <1>2, <1>11, <1>12, FS_Union
  <1> QED
    BY <1>1, <1>2, <1>11, <1>13, <1>14

(* The sizes of sets are summed by putting them side by side.              *)
LEMMA TotalOfSizes ==
  ASSUME NEW D, IsFiniteSet(D), NEW A, \A x \in D : IsFiniteSet(A[x]),
         NEW f, f = [x \in D |-> Cardinality(A[x])]
  PROVE  /\ f \in Weights(D) /\ IsFiniteSet(Glued(D, A))
         /\ Total(f) = Cardinality(Glued(D, A))
  <1> DEFINE all == Glued(D, A)
  <1>1. \A x \in D : Cardinality(A[x]) \in Nat /\ ExistsBijection(1..Cardinality(A[x]), A[x])
    BY FS_CardinalityType
  <1>2. f \in Weights(D) /\ DOMAIN f = D /\ \A x \in D : f[x] = Cardinality(A[x])
    BY <1>1 DEF Weights
  <1>3. \A x \in D : Bijection(1..f[x], A[x]) # {}
    BY <1>1, <1>2 DEF ExistsBijection
  <1> DEFINE nth == [x \in D |-> CHOOSE b : b \in Bijection(1..f[x], A[x])]
  <1>4. \A x \in D : nth[x] \in Bijection(1..f[x], A[x])
    BY <1>3
  <1> HIDE DEF nth
  <1>5. \A x \in D : /\ \A n \in 1..f[x] : nth[x][n] \in A[x]
                     /\ \A n, m \in 1..f[x] : nth[x][n] = nth[x][m] => n = m
                     /\ \A z \in A[x] : \E n \in 1..f[x] : nth[x][n] = z
    <2> TAKE x \in D
    <2>1. nth[x] \in Bijection(1..f[x], A[x])
      BY <1>4
    <2> QED
      BY <2>1 DEF Bijection, Injection, Surjection, IsInjective
  <1>6. IsFiniteSet(Grains(f)) /\ Total(f) = Cardinality(Grains(f))
    BY <1>2, TotalIsNatural
  <1>7. \A y \in Grains(f) : \E x \in D : \E n \in 1..f[x] : y = <<x, n>>
    BY <1>2, GrainsAre
  <1>8. \A y : y \in all <=> \E x \in D : \E z \in A[x] : y = <<x, z>>
    BY DEF Glued
  <1> DEFINE lay == [y \in Grains(f) |-> <<y[1], nth[y[1]][y[2]]>>]
  <1>9. ASSUME NEW x \in D, NEW n \in 1..f[x]
        PROVE  <<x, n>> \in Grains(f) /\ lay[<<x, n>>] = <<x, nth[x][n]>>
    <2>1. <<x, n>> \in Grains(f)
      BY <1>2, GrainsAre
    <2> QED
      BY <2>1
  <1>10. lay = [y \in Grains(f) |-> lay[y]] /\ DOMAIN lay = Grains(f)
    OBVIOUS
  <1> HIDE DEF lay, all
  <1>11. \A y \in Grains(f) : lay[y] \in all
    <2> TAKE y \in Grains(f)
    <2>1. PICK x \in D : \E n \in 1..f[x] : y = <<x, n>>
      BY <1>7
    <2>2. PICK n \in 1..f[x] : y = <<x, n>>
      BY <2>1
    <2>3. lay[y] = <<x, nth[x][n]>> /\ nth[x][n] \in A[x]
      BY <1>5, <1>9, <2>2
    <2> QED
      BY <1>8, <2>3
  <1>12. \A y, z \in Grains(f) : lay[y] = lay[z] => y = z
    <2> SUFFICES ASSUME NEW y \in Grains(f), NEW z \in Grains(f), lay[y] = lay[z]
                 PROVE  y = z
      OBVIOUS
    <2>1. PICK x \in D : \E n \in 1..f[x] : y = <<x, n>>
      BY <1>7
    <2>2. PICK n \in 1..f[x] : y = <<x, n>>
      BY <2>1
    <2>3. PICK w \in D : \E m \in 1..f[w] : z = <<w, m>>
      BY <1>7
    <2>4. PICK m \in 1..f[w] : z = <<w, m>>
      BY <2>3
    <2>5. <<x, nth[x][n]>> = <<w, nth[w][m]>>
      BY <1>9, <2>2, <2>4
    <2>6. x = w /\ nth[x][n] = nth[x][m]
      BY <2>5
    <2>7. n = m
      BY <1>5, <2>6
    <2> QED
      BY <2>2, <2>4, <2>6, <2>7
  <1>13. \A z \in all : \E y \in Grains(f) : lay[y] = z
    <2> TAKE z \in all
    <2>1. PICK x \in D : \E a \in A[x] : z = <<x, a>>
      BY <1>8
    <2>2. PICK a \in A[x] : z = <<x, a>>
      BY <2>1
    <2>3. PICK n \in 1..f[x] : nth[x][n] = a
      BY <1>5
    <2> QED
      BY <1>9, <2>2, <2>3
  <1>14. IsFiniteSet(all) /\ Cardinality(all) = Cardinality(Grains(f))
    BY <1>6, <1>10, <1>11, <1>12, <1>13, SameSize
  <1> QED
    BY <1>2, <1>6, <1>14 DEF all

-----------------------------------------------------------------------------
(* The storage of a world.                                                 *)

Locals == 0..ChunkEdge - 1
SolidsAmong(D, filled) == {x \in D : filled[x] # Void}
Contents(mem, store) == [p \in Positions |-> CellAt(mem, store, p)]
TokensOf(filled) == UNION {Token(p, filled[p]) : p \in Positions}

-----------------------------------------------------------------------------
(* Arithmetic and counting.                                                *)

LEMMA Sizes ==
  /\ ChunkEdge \in Nat \ {0} /\ Positions \subseteq Int /\ IsFiniteSet(Positions)
  /\ Void \in Cell
  /\ \A cell : LeavesIn(cell) \in Nat
  <1>1. \A cell \in Refined : PageLeaves[cell] \in Nat
    BY GeometryAssumption DEF GeometryAssumption
  <1>2. \A cell : LeavesIn(cell) \in Nat
    BY <1>1 DEF LeavesIn
  <1> QED
    BY <1>2, GeometryAssumption DEF GeometryAssumption, Cell

(* A position is the only one of its chunk and place.                      *)
LEMMA PlaceInChunk ==
  ASSUME NEW p \in Positions, NEW q \in Positions
  PROVE  /\ LocalOf(p) \in Locals
         /\ ChunkOf(p) = ChunkOf(q) /\ LocalOf(p) = LocalOf(q) => p = q
  <1>1. p \in Int /\ q \in Int /\ ChunkEdge \in Nat \ {0}
    BY Sizes
  <1> DEFINE E == ChunkEdge
  <1>2. /\ p = E * (p \div E) + (p % E) /\ p % E \in 0..E - 1
        /\ q = E * (q \div E) + (q % E)
    BY <1>1
  <1> QED
    BY <1>2 DEF ChunkOf, LocalOf, Locals

(* An address, or a token of absence, that nobody holds.                   *)
LEMMA FreshIsFree ==
  ASSUME NEW used, IsFiniteSet(used)
  PROVE  Fresh(used) \notin used
  <1> DEFINE k == Cardinality(used)
             Free == {n \in 0..k : n \notin used}
  <1>1. k \in Nat
    BY FS_CardinalityType
  <1>2. Free # {}
    <2> SUFFICES ASSUME Free = {} PROVE FALSE
      OBVIOUS
    <2>1. 0..k \in SUBSET used
      OBVIOUS
    <2>2. Cardinality(0..k) = k + 1
      BY <1>1, FS_Interval
    <2>3. Cardinality(0..k) <= k
      BY <2>1, FS_Subset
    <2> QED
      BY <1>1, <2>2, <2>3
  <1>3. PICK n \in Free : \A j \in Free : n <= j
    <2>1. Free \subseteq Nat
      BY <1>1
    <2> HIDE DEF Free
    <2> QED
      BY <1>2, <2>1, LeastOfNaturals
  <1>4. \A m \in 0..n - 1 : m \in used
    BY <1>1, <1>3
  <1>5. \E m \in 0..Cardinality(used) : m \notin used /\ \A j \in 0..m - 1 : j \in used
    BY <1>3, <1>4
  <1> QED
    BY <1>5 DEF Fresh

(* One value changes: how many are not void.                               *)
LEMMA CountMoves ==
  ASSUME NEW D, IsFiniteSet(D), NEW f \in [D -> Cell], NEW d \in D, NEW v \in Cell,
         NEW g, \A x \in D : g[x] = IF x = d THEN v ELSE f[x]
  PROVE  Cardinality(SolidsAmong(D, g)) = Cardinality(SolidsAmong(D, f)) - Occupied(f[d]) + Occupied(v)
  <1> DEFINE A == SolidsAmong(D, f)
             B == SolidsAmong(D, g)
  <1>1. A \in SUBSET D
    BY DEF SolidsAmong
  <1>2. IsFiniteSet(A) /\ Cardinality(A) \in Nat
    BY <1>1, FS_Subset, FS_CardinalityType
  <1>3. d \in A <=> f[d] # Void
    BY DEF SolidsAmong
  <1>4. B = IF v = Void THEN A \ {d} ELSE A \cup {d}
    BY DEF SolidsAmong
  <1>5. CASE v = Void
    <2>1. Cardinality(A \ {d}) = IF d \in A THEN Cardinality(A) - 1 ELSE Cardinality(A)
      BY <1>2, FS_RemoveElement
    <2>2. Cardinality(B) = IF d \in A THEN Cardinality(A) - 1 ELSE Cardinality(A)
      BY <1>4, <1>5, <2>1
    <2>3. Occupied(v) = 0 /\ Occupied(f[d]) = IF d \in A THEN 1 ELSE 0
      BY <1>3, <1>5 DEF Occupied
    <2> HIDE DEF A, B
    <2>4. Cardinality(B) = Cardinality(A) - Occupied(f[d]) + Occupied(v)
      BY ONLY <1>2, <2>2, <2>3
    <2> QED
      BY <2>4 DEF A, B
  <1>6. CASE v # Void
    <2>1. Cardinality(A \cup {d}) = IF d \in A THEN Cardinality(A) ELSE Cardinality(A) + 1
      BY <1>2, FS_AddElement
    <2>2. Cardinality(B) = IF d \in A THEN Cardinality(A) ELSE Cardinality(A) + 1
      BY <1>4, <1>6, <2>1
    <2>3. Occupied(v) = 1 /\ Occupied(f[d]) = IF d \in A THEN 1 ELSE 0
      BY <1>3, <1>6 DEF Occupied
    <2> HIDE DEF A, B
    <2>4. Cardinality(B) = Cardinality(A) - Occupied(f[d]) + Occupied(v)
      BY ONLY <1>2, <2>2, <2>3
    <2> QED
      BY <2>4 DEF A, B
  <1> QED
    BY <1>5, <1>6

(* One value changes: the tokens of what is there.                         *)
LEMMA TokensMove ==
  ASSUME NEW filled \in [Positions -> Cell], NEW p \in Positions, NEW v \in Cell
  PROVE  TokensOf([filled EXCEPT ![p] = v])
           = Xor(TokensOf(filled), Xor(Token(p, filled[p]), Token(p, v)))
  <1> DEFINE new == [filled EXCEPT ![p] = v]
  <1>1. \A q \in Positions : q # p => new[q] = filled[q]
    OBVIOUS
  <1>2. new[p] = v
    OBVIOUS
  <1>3. \A x : x \in TokensOf(filled)
               <=> \E q \in Positions : filled[q] # Void /\ x = <<q, filled[q]>>
    BY DEF TokensOf, Token
  <1>4. \A x : x \in TokensOf(new)
               <=> \E q \in Positions : new[q] # Void /\ x = <<q, new[q]>>
    BY DEF TokensOf, Token
  <1>5. \A x : x \in Token(p, filled[p]) <=> filled[p] # Void /\ x = <<p, filled[p]>>
    BY DEF Token
  <1>6. \A x : x \in Token(p, v) <=> v # Void /\ x = <<p, v>>
    BY DEF Token
  <1>7. \A a, b, x : x \in Xor(a, b) <=> (x \in a /\ x \notin b) \/ (x \in b /\ x \notin a)
    BY DEF Xor
  <1> HIDE DEF new
  <1>8. SUFFICES ASSUME NEW x
                 PROVE  x \in TokensOf(new)
                        <=> x \in Xor(TokensOf(filled), Xor(Token(p, filled[p]), Token(p, v)))
    BY DEF new
  <1>9. CASE \E q \in Positions : q # p /\ (\E w : x = <<q, w>>)
    <2>1. PICK q \in Positions : q # p /\ \E w : x = <<q, w>>
      BY <1>9
    <2>2. x \in TokensOf(new) <=> x \in TokensOf(filled)
      BY <1>1, <1>3, <1>4, <2>1
    <2>3. x \notin Token(p, filled[p]) /\ x \notin Token(p, v)
      BY <1>5, <1>6, <2>1
    <2> QED
      BY <1>7, <2>2, <2>3
  <1>10. CASE ~\E q \in Positions : q # p /\ (\E w : x = <<q, w>>)
    <2>1. x \in TokensOf(filled) <=> x \in Token(p, filled[p])
      BY <1>3, <1>5, <1>10
    <2>2. x \in TokensOf(new) <=> x \in Token(p, v)
      BY <1>2, <1>4, <1>6, <1>10
    <2> QED
      BY <1>7, <2>1, <2>2
  <1> QED
    BY <1>9, <1>10

-----------------------------------------------------------------------------
(* The leaves of a chunk.                                                  *)

LEMMA LocalsAreFinite == IsFiniteSet(Locals)
  <1>1. 0 \in Int /\ ChunkEdge - 1 \in Int
    BY Sizes
  <1> QED
    BY <1>1, FS_Interval DEF Locals

LEMMA LeavesMove ==
  ASSUME NEW row \in [Locals -> Cell], NEW l \in Locals, NEW v \in Cell
  PROVE  /\ LeavesOf(row) \in Int
         /\ LeavesOf([row EXCEPT ![l] = v]) = LeavesOf(row) - LeavesIn(row[l]) + LeavesIn(v)
  <1> DEFINE new == [row EXCEPT ![l] = v]
             f == [k \in Locals |-> LeavesIn(row[k])]
             g == [k \in Locals |-> LeavesIn(new[k])]
  <1>1. LeavesOf(row) = Total(f) /\ LeavesOf(new) = Total(g)
    BY DEF LeavesOf
  <1>2. f \in Weights(Locals) /\ g \in Weights(Locals)
    BY Sizes DEF Weights
  <1>3. \A k \in Locals : k # l => g[k] = f[k]
    OBVIOUS
  <1>4. f[l] = LeavesIn(row[l]) /\ g[l] = LeavesIn(v)
    OBVIOUS
  <1> HIDE DEF f, g
  <1>5. Total(g) = Total(f) - f[l] + g[l] /\ Total(f) \in Nat
    BY <1>2, <1>3, LocalsAreFinite, TotalMoves
  <1> QED
    BY <1>1, <1>4, <1>5

LEMMA NoLeaves == LeavesOf([l \in Locals |-> Void]) = 0
  <1>1. LeavesIn(Void) = 0
    BY GeometryAssumption DEF GeometryAssumption, LeavesIn
  <1> DEFINE row == [l \in Locals |-> Void]
             f == [l \in Locals |-> 0]
  <1>2. LeavesOf(row) = Total(f)
    <2>1. DOMAIN row = Locals /\ \A l \in Locals : LeavesIn(row[l]) = 0
      BY <1>1
    <2> HIDE DEF row
    <2>2. [l \in DOMAIN row |-> LeavesIn(row[l])] = f
      BY <2>1
    <2> QED
      BY <2>2 DEF LeavesOf
  <1>3. Total(f) = 0 * Cardinality(Locals)
    BY LocalsAreFinite, TotalOfEqual
  <1>4. Cardinality(Locals) \in Nat
    BY LocalsAreFinite, FS_CardinalityType
  <1> QED
    BY <1>2, <1>3, <1>4

-----------------------------------------------------------------------------
(* One write.  s is memory and world before it, t after it; others is what *)
(* is held by somebody else.                                               *)

Counted(chunk) ==
  /\ chunk.cell \in [Locals -> Cell]
  /\ chunk.solid = Cardinality(SolidsAmong(Locals, chunk.cell))
  /\ chunk.leaves = LeavesOf(chunk.cell)

(* A chunk has cells only where there are positions.                       *)
Placed(chunk, c) ==
  \A l \in Locals : chunk.cell[l] # Void => \E p \in Positions : ChunkOf(p) = c /\ LocalOf(p) = l

StoreFits(s) ==
  /\ IsFiniteSet(DOMAIN s.mem)
  /\ \A c \in DOMAIN s.store.chunks :
       /\ s.store.chunks[c] \in DOMAIN s.mem
       /\ Counted(s.mem[s.store.chunks[c]])
       /\ s.mem[s.store.chunks[c]].solid > 0
  /\ \A c, d \in DOMAIN s.store.chunks : s.store.chunks[c] = s.store.chunks[d] => c = d
  /\ \A c \in DOMAIN s.store.chunks : Placed(s.mem[s.store.chunks[c]], c)

CountsFit(s) ==
  /\ s.store.solid = Cardinality(SolidsAmong(Positions, Contents(s.mem, s.store)))
  /\ s.store.hash = TokensOf(Contents(s.mem, s.store))

OthersFit(s, others) ==
  others.addresses \subseteq DOMAIN s.mem /\ IsFiniteSet(others.epochs)

AllFit(s, others) == StoreFits(s) /\ CountsFit(s) /\ OthersFit(s, others)

OldChunk(s, p) ==
  IF ChunkOf(p) \in DOMAIN s.store.chunks THEN s.mem[s.store.chunks[ChunkOf(p)]] ELSE EmptyChunk
NewChunk(s, p, v) == WriteInto(OldChunk(s, p), p, v)
Place(s, others, p) == Writable(s.mem, s.store, ChunkOf(p), others)
InPlace(s, p) == CellAt(s.mem, s.store, p)

Writes(s, t, others, p, v) ==
  /\ t.store.chunks = IF NewChunk(s, p, v).solid = 0
                      THEN Only(s.store.chunks, DOMAIN s.store.chunks \ {ChunkOf(p)})
                      ELSE With(s.store.chunks, ChunkOf(p), Place(s, others, p))
  /\ t.store.epoch = IF ChunkOf(p) \notin DOMAIN s.store.chunks \/ NewChunk(s, p, v).solid = 0
                     THEN NewEpoch(s.store, others) ELSE s.store.epoch
  /\ t.store.solid = s.store.solid - Occupied(InPlace(s, p)) + Occupied(v)
  /\ t.store.hash = Xor(s.store.hash, Xor(Token(p, InPlace(s, p)), Token(p, v)))
  /\ t.mem = Only(With(s.mem, Place(s, others, p), NewChunk(s, p, v)),
                  others.addresses \cup Addresses(t.store))

LEMMA OneWrite ==
  ASSUME NEW s, NEW others, NEW p, NEW v, InPlace(s, p) # v
  PROVE  Writes(s, Written(s, others, p, v), others, p, v)
  BY DEF Written, Writes, NewChunk, OldChunk, Place, InPlace

LEMMA NoWrite ==
  ASSUME NEW s, NEW others, NEW p, NEW v, InPlace(s, p) = v
  PROVE  Written(s, others, p, v) = s
  BY DEF Written, InPlace

LEMMA EmptyIsCounted == Counted(EmptyChunk) /\ \A l \in Locals : EmptyChunk.cell[l] = Void
  <1>1. /\ EmptyChunk.cell = [l \in Locals |-> Void]
        /\ EmptyChunk.solid = 0 /\ EmptyChunk.leaves = 0
    BY DEF EmptyChunk, Locals
  <1>2. SolidsAmong(Locals, EmptyChunk.cell) = {}
    BY <1>1 DEF SolidsAmong
  <1>3. Cardinality({}) = 0
    BY FS_EmptySet
  <1>4. Void \in Cell
    BY Sizes
  <1> QED
    BY <1>1, <1>2, <1>3, <1>4, NoLeaves DEF Counted

LEMMA OldIsCounted ==
  ASSUME NEW s, StoreFits(s), NEW p \in Positions
  PROVE  Counted(OldChunk(s, p)) /\ InPlace(s, p) = OldChunk(s, p).cell[LocalOf(p)]
  <1>1. LocalOf(p) \in Locals
    BY PlaceInChunk
  <1>2. CASE ChunkOf(p) \in DOMAIN s.store.chunks
    BY <1>2 DEF StoreFits, OldChunk, InPlace, CellAt
  <1>3. CASE ChunkOf(p) \notin DOMAIN s.store.chunks
    BY <1>1, <1>3, EmptyIsCounted DEF OldChunk, InPlace, CellAt
  <1> QED
    BY <1>2, <1>3

LEMMA InPlaceIsCell ==
  ASSUME NEW s, StoreFits(s)
  PROVE  /\ \A p \in Positions : InPlace(s, p) \in Cell
         /\ Contents(s.mem, s.store) \in [Positions -> Cell]
         /\ \A p \in Positions : Contents(s.mem, s.store)[p] = InPlace(s, p)
  <1>1. \A p \in Positions : InPlace(s, p) \in Cell
    <2> TAKE p \in Positions
    <2>1. LocalOf(p) \in Locals
      BY PlaceInChunk
    <2> QED
      BY <2>1, OldIsCounted DEF Counted
  <1> QED
    BY <1>1 DEF Contents, InPlace

(* set_cell keeps the counts of a chunk those of its cells.                *)
LEMMA NewIsCounted ==
  ASSUME NEW s, StoreFits(s), NEW p \in Positions, NEW v \in Cell
  PROVE  /\ Counted(NewChunk(s, p, v))
         /\ NewChunk(s, p, v).cell = [OldChunk(s, p).cell EXCEPT ![LocalOf(p)] = v]
         /\ NewChunk(s, p, v).solid \in Nat
         /\ NewChunk(s, p, v).solid = 0 =>
              \A l \in Locals : NewChunk(s, p, v).cell[l] = Void
         /\ Placed(NewChunk(s, p, v), ChunkOf(p))
  <1> DEFINE old == OldChunk(s, p)
             new == NewChunk(s, p, v)
             l == LocalOf(p)
             row == [old.cell EXCEPT ![l] = v]
  <1>1. l \in Locals
    BY PlaceInChunk
  <1>2. Counted(old)
    BY OldIsCounted
  <1>3. old.cell \in [Locals -> Cell] /\ row \in [Locals -> Cell]
    BY <1>2 DEF Counted
  <1>4. /\ new.cell = row
        /\ new.solid = old.solid - Occupied(old.cell[l]) + Occupied(v)
        /\ new.leaves = old.leaves - LeavesIn(old.cell[l]) + LeavesIn(v)
    BY DEF NewChunk, WriteInto
  <1> HIDE DEF old, new
  <1>5. Cardinality(SolidsAmong(Locals, row))
          = Cardinality(SolidsAmong(Locals, old.cell)) - Occupied(old.cell[l]) + Occupied(v)
    <2>1. \A k \in Locals : row[k] = IF k = l THEN v ELSE old.cell[k]
      BY <1>3
    <2> HIDE DEF row
    <2> QED
      BY <1>1, <1>3, <2>1, LocalsAreFinite, CountMoves
  <1>6. LeavesOf(row) = LeavesOf(old.cell) - LeavesIn(old.cell[l]) + LeavesIn(v)
    BY <1>1, <1>3, LeavesMove
  <1>7. Counted(new)
    BY <1>2, <1>3, <1>4, <1>5, <1>6 DEF Counted
  <1>8. IsFiniteSet(SolidsAmong(Locals, row)) /\ Cardinality(SolidsAmong(Locals, row)) \in Nat
    <2>1. SolidsAmong(Locals, row) \in SUBSET Locals
      BY DEF SolidsAmong
    <2> QED
      BY <2>1, LocalsAreFinite, FS_Subset, FS_CardinalityType
  <1>9. new.solid = Cardinality(SolidsAmong(Locals, row))
    BY <1>4, <1>7 DEF Counted
  <1>10. new.solid = 0 => SolidsAmong(Locals, row) = {}
    BY <1>8, <1>9, FS_EmptySet
  <1>11. SolidsAmong(Locals, row) = {} => \A k \in Locals : row[k] = Void
    BY DEF SolidsAmong
  <1>12. Placed(old, ChunkOf(p))
    BY EmptyIsCounted DEF StoreFits, OldChunk, Placed, old
  <1>13. Placed(new, ChunkOf(p))
    <2>1. \A k \in Locals : k # l => row[k] = old.cell[k]
      BY <1>3
    <2> QED
      BY <1>4, <1>12, <2>1 DEF Placed
  <1> QED
    BY <1>4, <1>7, <1>8, <1>9, <1>10, <1>11, <1>13 DEF new, old

(* Arc::make_mut writes nowhere that somebody else reads.                  *)
LEMMA PlaceIsFree ==
  ASSUME NEW s, NEW others, AllFit(s, others), NEW p \in Positions
  PROVE  /\ Place(s, others, p) \notin others.addresses
         /\ \/ Place(s, others, p) \notin DOMAIN s.mem
            \/ /\ ChunkOf(p) \in DOMAIN s.store.chunks
               /\ Place(s, others, p) = s.store.chunks[ChunkOf(p)]
  <1>1. Fresh(DOMAIN s.mem) \notin DOMAIN s.mem
    BY FreshIsFree DEF AllFit, StoreFits
  <1>2. others.addresses \subseteq DOMAIN s.mem
    BY DEF AllFit, OthersFit
  <1> QED
    BY <1>1, <1>2 DEF Place, Writable

ChunksFit(s, t, others, p, v) ==
  /\ ChunkOf(p) \in DOMAIN t.store.chunks <=> NewChunk(s, p, v).solid # 0
  /\ ChunkOf(p) \in DOMAIN t.store.chunks =>
       t.store.chunks[ChunkOf(p)] = Place(s, others, p)
  /\ \A d : d # ChunkOf(p) =>
       /\ d \in DOMAIN t.store.chunks <=> d \in DOMAIN s.store.chunks
       /\ d \in DOMAIN s.store.chunks =>
            /\ t.store.chunks[d] = s.store.chunks[d]
            /\ s.store.chunks[d] # Place(s, others, p)
            /\ s.store.chunks[d] \in DOMAIN s.mem

LEMMA ChunksAfter ==
  ASSUME NEW s, NEW t, NEW others, AllFit(s, others), NEW p \in Positions, NEW v \in Cell,
         Writes(s, t, others, p, v)
  PROVE  ChunksFit(s, t, others, p, v)
  <1> DEFINE c == ChunkOf(p)
             at == Place(s, others, p)
             chunk == NewChunk(s, p, v)
  <1>1. t.store.chunks = IF chunk.solid = 0 THEN Only(s.store.chunks, DOMAIN s.store.chunks \ {c})
                         ELSE With(s.store.chunks, c, at)
    BY DEF Writes
  <1>2. \A d \in DOMAIN s.store.chunks : s.store.chunks[d] \in DOMAIN s.mem
    BY DEF AllFit, StoreFits
  <1>3. at \notin DOMAIN s.mem \/ (c \in DOMAIN s.store.chunks /\ at = s.store.chunks[c])
    BY PlaceIsFree
  <1>4. \A d \in DOMAIN s.store.chunks : d # c => s.store.chunks[d] # at
    BY <1>2, <1>3 DEF AllFit, StoreFits
  <1> HIDE DEF c, at, chunk
  <1>5. CASE chunk.solid = 0
    <2>1. DOMAIN t.store.chunks = DOMAIN s.store.chunks \ {c}
      BY <1>1, <1>5 DEF Only
    <2>2. \A d \in DOMAIN s.store.chunks \ {c} : t.store.chunks[d] = s.store.chunks[d]
      BY <1>1, <1>5 DEF Only
    <2> QED
      BY <1>2, <1>4, <1>5, <2>1, <2>2 DEF c, at, chunk, ChunksFit
  <1>6. CASE chunk.solid # 0
    <2>1. DOMAIN t.store.chunks = DOMAIN s.store.chunks \cup {c}
      BY <1>1, <1>6 DEF With
    <2>2. t.store.chunks[c] = at
          /\ \A d \in DOMAIN s.store.chunks : d # c => t.store.chunks[d] = s.store.chunks[d]
      BY <1>1, <1>6 DEF With
    <2> QED
      BY <1>2, <1>4, <1>6, <2>1, <2>2 DEF c, at, chunk, ChunksFit
  <1> QED
    BY <1>5, <1>6

MemoryFits(s, t, others, p, v) ==
  /\ DOMAIN t.mem = others.addresses \cup Addresses(t.store)
  /\ IsFiniteSet(DOMAIN t.mem)
  /\ \A a \in DOMAIN t.mem :
       t.mem[a] = IF a = Place(s, others, p) THEN NewChunk(s, p, v) ELSE s.mem[a]
  /\ \A a \in others.addresses : t.mem[a] = s.mem[a]

LEMMA MemoryAfter ==
  ASSUME NEW s, NEW t, NEW others, AllFit(s, others), NEW p \in Positions, NEW v \in Cell,
         Writes(s, t, others, p, v)
  PROVE  MemoryFits(s, t, others, p, v)
  <1> DEFINE at == Place(s, others, p)
             chunk == NewChunk(s, p, v)
             kept == others.addresses \cup Addresses(t.store)
  <1>c. ChunksFit(s, t, others, p, v)
    BY ChunksAfter
  <1>1. t.mem = Only(With(s.mem, at, chunk), kept)
    BY DEF Writes
  <1>2. Addresses(t.store) \subseteq DOMAIN s.mem \cup {at}
    BY <1>c DEF Addresses, ChunksFit
  <1>3. others.addresses \subseteq DOMAIN s.mem /\ IsFiniteSet(DOMAIN s.mem)
    BY DEF AllFit, OthersFit, StoreFits
  <1>4. at \notin others.addresses
    BY PlaceIsFree
  <1> HIDE DEF at, chunk
  <1>5. kept \in SUBSET (DOMAIN s.mem \cup {at})
    BY <1>2, <1>3
  <1> HIDE DEF kept
  <1>6. DOMAIN t.mem = kept
    BY <1>1, <1>5 DEF Only, With
  <1>7. \A a \in kept : t.mem[a] = IF a = at THEN chunk ELSE s.mem[a]
    BY <1>1, <1>5 DEF Only, With
  <1>8. IsFiniteSet(kept)
    BY <1>3, <1>5, FS_AddElement, FS_Subset
  <1>9. \A a \in others.addresses : a \in kept /\ a # at
    BY <1>4 DEF kept
  <1> QED
    BY <1>6, <1>7, <1>8, <1>9 DEF at, chunk, kept, MemoryFits

(* A write changes the cell it is for and no other.                        *)
LEMMA CellsAfter ==
  ASSUME NEW s, NEW t, NEW others, AllFit(s, others), NEW p \in Positions, NEW v \in Cell,
         Writes(s, t, others, p, v)
  PROVE  \A q \in Positions : InPlace(t, q) = IF q = p THEN v ELSE InPlace(s, q)
  <1> DEFINE c == ChunkOf(p)
             at == Place(s, others, p)
             chunk == NewChunk(s, p, v)
             old == OldChunk(s, p)
  <1>c. ChunksFit(s, t, others, p, v)
    BY ChunksAfter
  <1>m. MemoryFits(s, t, others, p, v)
    BY MemoryAfter
  <1>1. StoreFits(s)
    BY DEF AllFit
  <1>2. /\ chunk.cell = [old.cell EXCEPT ![LocalOf(p)] = v]
        /\ old.cell \in [Locals -> Cell]
        /\ chunk.solid = 0 => \A l \in Locals : chunk.cell[l] = Void
    BY <1>1, NewIsCounted, OldIsCounted DEF Counted
  <1> SUFFICES ASSUME NEW q \in Positions
               PROVE  InPlace(t, q) = IF q = p THEN v ELSE InPlace(s, q)
    OBVIOUS
  <1>3. LocalOf(q) \in Locals /\ LocalOf(p) \in Locals
        /\ (ChunkOf(q) = c /\ q # p => LocalOf(q) # LocalOf(p))
    BY PlaceInChunk
  <1>4. CASE ChunkOf(q) = c
    <2>1. chunk.cell[LocalOf(q)] = IF q = p THEN v ELSE old.cell[LocalOf(q)]
      BY <1>2, <1>3, <1>4
    <2>2. InPlace(s, q) = old.cell[LocalOf(q)]
      <3>1. OldChunk(s, q) = old
        BY <1>4 DEF OldChunk
      <3> QED
        BY <1>1, <3>1, OldIsCounted
    <2>3. InPlace(t, q) = chunk.cell[LocalOf(q)]
      <3>1. CASE chunk.solid = 0
        <4>1. c \notin DOMAIN t.store.chunks
          BY <3>1, <1>c DEF ChunksFit
        <4> QED
          BY <1>2, <1>3, <1>4, <3>1, <4>1 DEF InPlace, CellAt
      <3>2. CASE chunk.solid # 0
        <4>1. c \in DOMAIN t.store.chunks /\ t.store.chunks[c] = at
          BY <3>2, <1>c DEF ChunksFit
        <4>2. at \in DOMAIN t.mem
          BY <4>1, <1>m DEF Addresses, MemoryFits
        <4>3. t.mem[at] = chunk
          BY <4>2, <1>m DEF MemoryFits
        <4> QED
          BY <1>4, <4>1, <4>3 DEF InPlace, CellAt
      <3> QED
        BY <3>1, <3>2
    <2> QED
      BY <2>1, <2>2, <2>3
  <1>5. CASE ChunkOf(q) # c
    <2> DEFINE d == ChunkOf(q)
    <2>1. q # p
      BY <1>5
    <2>2. CASE d \in DOMAIN s.store.chunks
      <3>1. /\ d \in DOMAIN t.store.chunks /\ t.store.chunks[d] = s.store.chunks[d]
            /\ s.store.chunks[d] # at
        BY <1>5, <2>2, <1>c DEF ChunksFit
      <3>2. t.store.chunks[d] \in DOMAIN t.mem
        BY <3>1, <1>m DEF Addresses, MemoryFits
      <3>3. t.mem[t.store.chunks[d]] = s.mem[s.store.chunks[d]]
        BY <3>1, <3>2, <1>m DEF MemoryFits
      <3> QED
        BY <2>1, <2>2, <3>1, <3>3 DEF InPlace, CellAt
    <2>3. CASE d \notin DOMAIN s.store.chunks
      <3>1. d \notin DOMAIN t.store.chunks
        BY <1>5, <2>3, <1>c DEF ChunksFit
      <3> QED
        BY <2>1, <2>3, <3>1 DEF InPlace, CellAt
    <2> QED
      BY <2>2, <2>3
  <1> QED
    BY <1>4, <1>5

LEMMA StoreAfter ==
  ASSUME NEW s, NEW t, NEW others, AllFit(s, others), NEW p \in Positions, NEW v \in Cell,
         Writes(s, t, others, p, v)
  PROVE  StoreFits(t)
  <1> DEFINE c == ChunkOf(p)
             at == Place(s, others, p)
             chunk == NewChunk(s, p, v)
  <1>c. ChunksFit(s, t, others, p, v)
    BY ChunksAfter
  <1>m. MemoryFits(s, t, others, p, v)
    BY MemoryAfter
  <1>1. Counted(chunk) /\ chunk.solid \in Nat /\ Placed(chunk, c)
    BY NewIsCounted DEF AllFit
  <1>2. \A d \in DOMAIN t.store.chunks :
          /\ t.store.chunks[d] \in DOMAIN t.mem
          /\ Counted(t.mem[t.store.chunks[d]])
          /\ t.mem[t.store.chunks[d]].solid > 0
          /\ Placed(t.mem[t.store.chunks[d]], d)
    <2> TAKE d \in DOMAIN t.store.chunks
    <2>1. t.store.chunks[d] \in DOMAIN t.mem
      BY <1>m DEF Addresses, MemoryFits
    <2>2. CASE d = c
      <3>1. t.store.chunks[d] = at /\ chunk.solid # 0
        BY <2>2, <1>c DEF ChunksFit
      <3>2. t.mem[t.store.chunks[d]] = chunk
        BY <2>1, <3>1, <1>m DEF MemoryFits
      <3>3. chunk.solid > 0
        BY <1>1, <3>1
      <3> QED
        BY <1>1, <2>1, <2>2, <3>2, <3>3
    <2>3. CASE d # c
      <3>1. /\ d \in DOMAIN s.store.chunks /\ t.store.chunks[d] = s.store.chunks[d]
            /\ s.store.chunks[d] # at
        BY <2>3, <1>c DEF ChunksFit
      <3>2. t.mem[t.store.chunks[d]] = s.mem[s.store.chunks[d]]
        BY <2>1, <3>1, <1>m DEF MemoryFits
      <3>3. /\ Counted(s.mem[s.store.chunks[d]]) /\ s.mem[s.store.chunks[d]].solid > 0
            /\ Placed(s.mem[s.store.chunks[d]], d)
        BY <3>1 DEF AllFit, StoreFits
      <3> QED
        BY <2>1, <3>2, <3>3
    <2> QED
      BY <2>2, <2>3
  <1>3. \A d, e \in DOMAIN t.store.chunks : t.store.chunks[d] = t.store.chunks[e] => d = e
    <2> SUFFICES ASSUME NEW d \in DOMAIN t.store.chunks, NEW e \in DOMAIN t.store.chunks,
                        t.store.chunks[d] = t.store.chunks[e], d # e
                 PROVE  FALSE
      OBVIOUS
    <2>1. d # c \/ e # c
      OBVIOUS
    <2>2. CASE d # c /\ e # c
      BY <2>2, <1>c DEF AllFit, StoreFits, ChunksFit
    <2>3. CASE d = c \/ e = c
      BY <2>1, <2>3, <1>c DEF ChunksFit
    <2> QED
      BY <2>2, <2>3
  <1> QED
    BY <1>2, <1>3, <1>m DEF StoreFits, MemoryFits

LEMMA WriteFits ==
  ASSUME NEW s, NEW t, NEW others, AllFit(s, others), NEW p \in Positions, NEW v \in Cell,
         Writes(s, t, others, p, v)
  PROVE  AllFit(t, others)
  <1> DEFINE f == Contents(s.mem, s.store)
             g == Contents(t.mem, t.store)
  <1>m. MemoryFits(s, t, others, p, v)
    BY MemoryAfter
  <1>1. StoreFits(s) /\ StoreFits(t)
    BY StoreAfter DEF AllFit
  <1>2. f \in [Positions -> Cell] /\ g \in [Positions -> Cell]
        /\ (\A q \in Positions : f[q] = InPlace(s, q))
        /\ (\A q \in Positions : g[q] = InPlace(t, q))
    BY <1>1, InPlaceIsCell
  <1>3. \A q \in Positions : InPlace(t, q) = IF q = p THEN v ELSE InPlace(s, q)
    BY CellsAfter
  <1> HIDE DEF f, g
  <1>4. g = [f EXCEPT ![p] = v]
    BY <1>2, <1>3
  <1>5. f[p] = InPlace(s, p)
    BY <1>2
  <1>6. Cardinality(SolidsAmong(Positions, g))
          = Cardinality(SolidsAmong(Positions, f)) - Occupied(f[p]) + Occupied(v)
    <2>1. \A q \in Positions : g[q] = IF q = p THEN v ELSE f[q]
      BY <1>2, <1>3
    <2>2. f \in [Positions -> Cell] /\ IsFiniteSet(Positions) /\ p \in Positions /\ v \in Cell
      BY <1>2, Sizes
    <2> QED
      BY ONLY <2>1, <2>2, CountMoves
  <1>7. TokensOf(g) = Xor(TokensOf(f), Xor(Token(p, f[p]), Token(p, v)))
    BY <1>2, <1>4, TokensMove
  <1>8. /\ s.store.solid = Cardinality(SolidsAmong(Positions, f))
        /\ s.store.hash = TokensOf(f)
    BY DEF AllFit, CountsFit, f
  <1>9. /\ t.store.solid = Cardinality(SolidsAmong(Positions, g))
        /\ t.store.hash = TokensOf(g)
    BY <1>5, <1>6, <1>7, <1>8 DEF Writes
  <1>10. OthersFit(t, others)
    BY <1>m DEF AllFit, OthersFit, MemoryFits
  <1> QED
    BY <1>1, <1>9, <1>10 DEF AllFit, CountsFit, g

-----------------------------------------------------------------------------
(* Observations of a chunk.                                                *)

(* What is observed is held, so it is not used again.                      *)
Seen(o, others) ==
  IF o.occupied THEN o.token \in others.addresses ELSE o.token \in others.epochs

(* The chunk is not what was observed, and never will be again.            *)
Gone(o, store) ==
  IF o.occupied THEN o.chunk \in DOMAIN store.chunks => store.chunks[o.chunk] # o.token
  ELSE store.epoch # o.token

(* A chunk that came has changed the token of absence.                     *)
Watched(o, store) == ~o.occupied /\ o.chunk \in DOMAIN store.chunks => store.epoch # o.token

LEMMA WriteAges ==
  ASSUME NEW s, NEW t, NEW others, AllFit(s, others), NEW p \in Positions, NEW v \in Cell,
         Writes(s, t, others, p, v), NEW o, Seen(o, others), Watched(o, s.store)
  PROVE  /\ Watched(o, t.store)
         /\ Gone(o, s.store) \/ ChunkOf(p) = o.chunk => Gone(o, t.store)
  <1> DEFINE c == ChunkOf(p)
             at == Place(s, others, p)
             chunk == NewChunk(s, p, v)
  <1>c. ChunksFit(s, t, others, p, v)
    BY ChunksAfter
  <1>1. CASE o.occupied
    <2>1. at # o.token
      BY <1>1, PlaceIsFree DEF Seen
    <2>2. CASE o.chunk = c
      BY <1>1, <2>1, <2>2, <1>c DEF Gone, Watched, ChunksFit
    <2>3. CASE o.chunk # c
      BY <1>1, <2>3, <1>c DEF Gone, Watched, ChunksFit
    <2> QED
      BY <2>2, <2>3
  <1>2. CASE ~o.occupied
    <2>1. IsFiniteSet(others.epochs \cup {s.store.epoch})
      BY FS_AddElement DEF AllFit, OthersFit
    <2>2. NewEpoch(s.store, others) # o.token
      BY <1>2, <2>1, FreshIsFree DEF NewEpoch, Seen
    <2>3. CASE c \notin DOMAIN s.store.chunks \/ chunk.solid = 0
      <3>1. t.store.epoch = NewEpoch(s.store, others)
        BY <2>3 DEF Writes
      <3> QED
        BY <1>2, <2>2, <3>1 DEF Gone, Watched
    <2>4. CASE c \in DOMAIN s.store.chunks /\ chunk.solid # 0
      <3>1. t.store.epoch = s.store.epoch
        BY <2>4 DEF Writes
      <3>2. o.chunk \in DOMAIN t.store.chunks <=> o.chunk \in DOMAIN s.store.chunks
        BY <2>4, <1>c DEF ChunksFit
      <3> QED
        BY <1>2, <2>4, <3>1, <3>2 DEF Gone, Watched
    <2> QED
      BY <2>3, <2>4
  <1> QED
    BY <1>1, <1>2

-----------------------------------------------------------------------------
(* Writes one after the other.                                             *)

WritesAt(writes) ==
  /\ Len(writes) \in Nat
  /\ \A i \in 1..Len(writes) : writes[i][1] \in Positions /\ writes[i][2] \in Cell
  /\ \A i, j \in 1..Len(writes) : writes[i][1] = writes[j][1] => i = j

Runs(f, s, others, writes, m) ==
  /\ f[0] = s
  /\ \A n \in 1..m : f[n] = Written(f[n - 1], others, writes[n][1], writes[n][2])

LEMMA RunExists ==
  ASSUME NEW s, NEW others, NEW writes, NEW m \in Nat
  PROVE  \E f : f = [n \in 0..m |-> f[n]] /\ Runs(f, s, others, writes, m)
  <1> DEFINE Good(k) == \E f : f = [n \in 0..k |-> f[n]] /\ Runs(f, s, others, writes, k)
             Bad == {k \in Nat : ~Good(k)}
  <1>1. SUFFICES ASSUME m \in Bad PROVE FALSE
    OBVIOUS
  <1>2. Bad \subseteq Nat
    OBVIOUS
  <1> HIDE DEF Bad
  <1>3. PICK k \in Bad : \A j \in Bad : k <= j
    BY <1>1, <1>2, LeastOfNaturals
  <1>4. k \in Nat /\ ~Good(k)
    BY <1>3 DEF Bad
  <1>5. CASE k = 0
    <2> DEFINE f == [n \in 0..0 |-> s]
    <2>1. f = [n \in 0..k |-> f[n]] /\ f[0] = s /\ 1..k = {}
      BY <1>5
    <2> HIDE DEF f
    <2> QED
      BY <1>4, <2>1 DEF Runs
  <1>6. CASE k # 0
    <2>1. k - 1 \in Nat /\ ~(k <= k - 1)
      BY <1>4, <1>6
    <2>2. Good(k - 1)
      BY <1>3, <2>1 DEF Bad
    <2>3. PICK f : f = [n \in 0..k - 1 |-> f[n]] /\ Runs(f, s, others, writes, k - 1)
      BY <2>2
    <2> DEFINE last == Written(f[k - 1], others, writes[k][1], writes[k][2])
               g == [n \in 0..k |-> IF n = k THEN last ELSE f[n]]
    <2> HIDE DEF last
    <2>4. g = [n \in 0..k |-> g[n]]
      OBVIOUS
    <2>5. g[0] = f[0] /\ g[k] = last /\ g[k - 1] = f[k - 1]
      BY <1>4, <2>1
    <2>6. \A n \in 1..k - 1 : g[n] = f[n] /\ g[n - 1] = f[n - 1]
      BY <1>4
    <2>7. \A n \in 1..k : n = k \/ n \in 1..k - 1
      BY <1>4
    <2> HIDE DEF g
    <2>8. \A n \in 1..k - 1 : g[n] = Written(g[n - 1], others, writes[n][1], writes[n][2])
      BY <2>3, <2>6 DEF Runs
    <2>9. g[k] = Written(g[k - 1], others, writes[k][1], writes[k][2])
      BY <2>5 DEF last
    <2>10. Runs(g, s, others, writes, k)
      BY <2>3, <2>5, <2>7, <2>8, <2>9 DEF Runs
    <2> QED
      BY <1>4, <2>4, <2>10
  <1> QED
    BY <1>5, <1>6

LEMMA AllWrittenRuns ==
  ASSUME NEW s, NEW others, NEW writes, Len(writes) \in Nat
  PROVE  \E f : /\ Runs(f, s, others, writes, Len(writes))
                /\ AllWritten(s, others, writes) = f[Len(writes)]
  <1> DEFINE m == Len(writes)
             Rec(f) == [n \in 0..Len(writes) |->
                          IF n = 0 THEN s
                          ELSE Written(f[n - 1], others, writes[n][1], writes[n][2])]
             done == CHOOSE f : f = Rec(f)
  <1>1. PICK f : f = [n \in 0..m |-> f[n]] /\ Runs(f, s, others, writes, m)
    BY RunExists
  <1>2. \A n \in 0..m : n = 0 \/ n \in 1..m
    OBVIOUS
  <1>3. \A n \in 0..m : f[n] = Rec(f)[n]
    BY <1>1, <1>2 DEF Runs
  <1>4. f = Rec(f)
    BY <1>1, <1>3
  <1>5. done = Rec(done)
    BY <1>4
  <1>6. AllWritten(s, others, writes) = done[Len(writes)]
    BY DEF AllWritten
  <1> HIDE DEF done
  <1>7. done[0] = s
    BY <1>5
  <1>8. \A n \in 1..m : done[n] = Written(done[n - 1], others, writes[n][1], writes[n][2])
    <2> SUFFICES ASSUME NEW n \in 1..m
                 PROVE  done[n] = Written(done[n - 1], others, writes[n][1], writes[n][2])
      OBVIOUS
    <2>1. n \in 0..m /\ n # 0
      OBVIOUS
    <2>2. done[n] = Rec(done)[n]
      BY <1>5
    <2> QED
      BY <2>1, <2>2
  <1> QED
    BY <1>6, <1>7, <1>8 DEF Runs

(* What is known of u, which the first n writes make of s.                 *)
Sofar(s, u, others, writes, n) ==
  /\ AllFit(u, others)
  /\ \A a \in others.addresses : u.mem[a] = s.mem[a]
  /\ \A i \in 1..n : InPlace(u, writes[i][1]) = writes[i][2]
  /\ \A q \in Positions :
       (\A i \in 1..n : writes[i][1] # q) => InPlace(u, q) = InPlace(s, q)

(* What is known of an observation o after that.                           *)
Aged(o, s, u, writes, n) ==
  /\ Watched(o, u.store)
  /\ Gone(o, s.store) => Gone(o, u.store)
  /\ \A i \in 1..n :
       ChunkOf(writes[i][1]) = o.chunk /\ InPlace(s, writes[i][1]) # writes[i][2]
         => Gone(o, u.store)

(* One write, whether it changes anything or not.                          *)
Settles(s, t, others, p, v) ==
  /\ AllFit(t, others)
  /\ \A a \in others.addresses : t.mem[a] = s.mem[a]
  /\ \A q \in Positions : InPlace(t, q) = IF q = p THEN v ELSE InPlace(s, q)
  /\ \A o : Seen(o, others) /\ Watched(o, s.store) =>
       /\ Watched(o, t.store)
       /\ Gone(o, s.store) => Gone(o, t.store)
       /\ InPlace(s, p) # v /\ ChunkOf(p) = o.chunk => Gone(o, t.store)

LEMMA WriteSettles ==
  ASSUME NEW s, NEW others, AllFit(s, others), NEW p \in Positions, NEW v \in Cell
  PROVE  Settles(s, Written(s, others, p, v), others, p, v)
  <1>1. CASE InPlace(s, p) = v
    <2>1. Written(s, others, p, v) = s
      BY <1>1, NoWrite
    <2>2. Settles(s, s, others, p, v)
      BY <1>1 DEF Settles
    <2> QED
      BY <2>1, <2>2
  <1>2. CASE InPlace(s, p) # v
    <2> DEFINE t == Written(s, others, p, v)
    <2>1. Writes(s, t, others, p, v)
      BY <1>2, OneWrite
    <2> HIDE DEF t
    <2>2. AllFit(t, others)
      BY <2>1, WriteFits
    <2>3. \A a \in others.addresses : t.mem[a] = s.mem[a]
      <3>1. MemoryFits(s, t, others, p, v)
        BY <2>1, MemoryAfter
      <3> QED
        BY <3>1 DEF MemoryFits
    <2>4. \A q \in Positions : InPlace(t, q) = IF q = p THEN v ELSE InPlace(s, q)
      BY <2>1, CellsAfter
    <2>5. \A o : Seen(o, others) /\ Watched(o, s.store) =>
            /\ Watched(o, t.store)
            /\ Gone(o, s.store) \/ ChunkOf(p) = o.chunk => Gone(o, t.store)
      BY <2>1, WriteAges
    <2>6. Settles(s, t, others, p, v)
      BY <2>2, <2>3, <2>4, <2>5 DEF Settles
    <2> QED
      BY <2>6 DEF t
  <1> QED
    BY <1>1, <1>2

LEMMA SofarStep ==
  ASSUME NEW s, NEW u, NEW others, NEW writes, WritesAt(writes), NEW n \in 1..Len(writes),
         Sofar(s, u, others, writes, n - 1)
  PROVE  Sofar(s, Written(u, others, writes[n][1], writes[n][2]), others, writes, n)
  <1> DEFINE p == writes[n][1]
             v == writes[n][2]
             t == Written(u, others, p, v)
  <1>1. p \in Positions /\ v \in Cell
    BY DEF WritesAt
  <1>2. AllFit(u, others)
    BY DEF Sofar
  <1>3. /\ AllFit(t, others)
        /\ \A a \in others.addresses : t.mem[a] = u.mem[a]
        /\ \A q \in Positions : InPlace(t, q) = IF q = p THEN v ELSE InPlace(u, q)
    BY <1>1, <1>2, WriteSettles DEF Settles
  <1> HIDE DEF t
  <1>4. Len(writes) \in Nat /\ \A i \in 1..n : i = n \/ (i \in 1..n - 1 /\ i # n)
    BY DEF WritesAt
  <1>5. \A i \in 1..n : i \in 1..Len(writes) /\ writes[i][1] \in Positions
    BY <1>4 DEF WritesAt
  <1>6. \A i \in 1..n : InPlace(t, writes[i][1]) = writes[i][2]
    <2> TAKE i \in 1..n
    <2>1. CASE i = n
      BY <1>1, <1>3, <2>1
    <2>2. CASE i \in 1..n - 1 /\ i # n
      <3>1. writes[i][1] # p
        BY <1>5, <2>2 DEF WritesAt
      <3>2. InPlace(u, writes[i][1]) = writes[i][2]
        BY <2>2 DEF Sofar
      <3> QED
        BY <1>3, <1>5, <3>1, <3>2
    <2> QED
      BY <1>4, <2>1, <2>2
  <1>7. \A q \in Positions :
          (\A i \in 1..n : writes[i][1] # q) => InPlace(t, q) = InPlace(s, q)
    <2> SUFFICES ASSUME NEW q \in Positions, \A i \in 1..n : writes[i][1] # q
                 PROVE  InPlace(t, q) = InPlace(s, q)
      OBVIOUS
    <2>1. q # p /\ \A i \in 1..n - 1 : writes[i][1] # q
      BY <1>4
    <2>2. InPlace(u, q) = InPlace(s, q)
      BY <2>1 DEF Sofar
    <2> QED
      BY <1>3, <2>1, <2>2
  <1>8. \A a \in others.addresses : t.mem[a] = s.mem[a]
    BY <1>3 DEF Sofar
  <1>9. Sofar(s, t, others, writes, n)
    BY <1>3, <1>6, <1>7, <1>8 DEF Sofar
  <1> QED
    BY <1>9 DEF t

LEMMA AgedStep ==
  ASSUME NEW s, NEW u, NEW others, NEW writes, WritesAt(writes), NEW n \in 1..Len(writes),
         Sofar(s, u, others, writes, n - 1),
         NEW o, Seen(o, others), Aged(o, s, u, writes, n - 1)
  PROVE  Aged(o, s, Written(u, others, writes[n][1], writes[n][2]), writes, n)
  <1> DEFINE p == writes[n][1]
             v == writes[n][2]
             t == Written(u, others, p, v)
  <1>1. p \in Positions /\ v \in Cell
    BY DEF WritesAt
  <1>2. AllFit(u, others) /\ Watched(o, u.store)
    BY DEF Sofar, Aged
  <1>3. /\ Watched(o, t.store)
        /\ Gone(o, u.store) => Gone(o, t.store)
        /\ InPlace(u, p) # v /\ ChunkOf(p) = o.chunk => Gone(o, t.store)
    BY <1>1, <1>2, WriteSettles DEF Settles
  <1> HIDE DEF t
  <1>4. Len(writes) \in Nat /\ \A i \in 1..n : i = n \/ i \in 1..n - 1
    BY DEF WritesAt
  <1>5. InPlace(u, p) = InPlace(s, p)
    <2>1. \A i \in 1..n - 1 : writes[i][1] # p
      <3> TAKE i \in 1..n - 1
      <3>1. i \in 1..Len(writes) /\ i # n
        BY <1>4
      <3> QED
        BY <3>1 DEF WritesAt
    <2> QED
      BY <1>1, <2>1 DEF Sofar
  <1>6. \A i \in 1..n :
          ChunkOf(writes[i][1]) = o.chunk /\ InPlace(s, writes[i][1]) # writes[i][2]
            => Gone(o, t.store)
    <2> SUFFICES ASSUME NEW i \in 1..n, ChunkOf(writes[i][1]) = o.chunk,
                        InPlace(s, writes[i][1]) # writes[i][2]
                 PROVE  Gone(o, t.store)
      OBVIOUS
    <2>1. CASE i = n
      BY <1>3, <1>5, <2>1
    <2>2. CASE i \in 1..n - 1
      BY <1>3, <2>2 DEF Aged
    <2> QED
      BY <1>4, <2>1, <2>2
  <1>7. Aged(o, s, t, writes, n)
    BY <1>3, <1>6 DEF Aged
  <1> QED
    BY <1>7 DEF t

LEMMA AllWrittenFits ==
  ASSUME NEW s, NEW others, AllFit(s, others), NEW writes, WritesAt(writes)
  PROVE  /\ Sofar(s, AllWritten(s, others, writes), others, writes, Len(writes))
         /\ \A o : Seen(o, others) /\ Watched(o, s.store) =>
              Aged(o, s, AllWritten(s, others, writes), writes, Len(writes))
  <1> DEFINE m == Len(writes)
             Knows(u, n) ==
               /\ Sofar(s, u, others, writes, n)
               /\ \A o : Seen(o, others) /\ Watched(o, s.store) => Aged(o, s, u, writes, n)
  <1>1. m \in Nat
    BY DEF WritesAt
  <1>2. PICK f : Runs(f, s, others, writes, m) /\ AllWritten(s, others, writes) = f[m]
    BY <1>1, AllWrittenRuns
  <1> DEFINE Bad == {n \in 0..m : ~Knows(f[n], n)}
  <1>3. Bad = {}
    <2> SUFFICES ASSUME Bad # {} PROVE FALSE
      OBVIOUS
    <2>1. Bad \subseteq Nat
      BY <1>1
    <2> HIDE DEF Bad
    <2>2. PICK k \in Bad : \A j \in Bad : k <= j
      BY <2>1, LeastOfNaturals
    <2>3. k \in 0..m /\ ~Knows(f[k], k)
      BY <2>2 DEF Bad
    <2>4. CASE k = 0
      <3>1. f[0] = s /\ 1..0 = {}
        BY <1>2 DEF Runs
      <3>2. Sofar(s, s, others, writes, 0)
        BY <3>1 DEF Sofar
      <3>3. \A o : Watched(o, s.store) => Aged(o, s, s, writes, 0)
        BY <3>1 DEF Aged
      <3> QED
        BY <2>3, <2>4, <3>1, <3>2, <3>3
    <2>5. CASE k # 0
      <3>1. k \in 1..m /\ k - 1 \in 0..m /\ ~(k <= k - 1)
        BY <1>1, <2>3, <2>5
      <3>2. Knows(f[k - 1], k - 1)
        BY <2>2, <3>1 DEF Bad
      <3>3. f[k] = Written(f[k - 1], others, writes[k][1], writes[k][2])
        BY <1>2, <3>1 DEF Runs
      <3> DEFINE u == f[k - 1]
      <3>4. Sofar(s, u, others, writes, k - 1)
        BY <3>2
      <3>5. \A o : Seen(o, others) /\ Watched(o, s.store) => Aged(o, s, u, writes, k - 1)
        BY <3>2
      <3> HIDE DEF u
      <3>6. Sofar(s, Written(u, others, writes[k][1], writes[k][2]), others, writes, k)
        BY <3>1, <3>4, SofarStep
      <3>7. \A o : Seen(o, others) /\ Watched(o, s.store)
                     => Aged(o, s, Written(u, others, writes[k][1], writes[k][2]), writes, k)
        BY <3>1, <3>4, <3>5, AgedStep
      <3> QED
        BY <2>3, <3>3, <3>6, <3>7 DEF u
    <2> QED
      BY <2>4, <2>5
  <1>4. m \in 0..m
    BY <1>1
  <1> QED
    BY <1>2, <1>3, <1>4

-----------------------------------------------------------------------------
(* Changes, which are at different positions.                              *)

Change == [at : Positions, before : Cell, after : Cell]

ChangesFit(changes) ==
  /\ changes \in Seq(Change)
  /\ \A i, j \in 1..Len(changes) : changes[i].at = changes[j].at => i = j

LEMMA TypesOfChanges ==
  ASSUME NEW changes, ChangesFit(changes)
  PROVE  /\ changes \in Seq(Change) /\ Len(changes) \in Nat /\ DOMAIN changes = 1..Len(changes)
         /\ \A i \in 1..Len(changes) : /\ changes[i].at \in Positions
                                       /\ changes[i].before \in Cell
                                       /\ changes[i].after \in Cell
  <1>1. changes \in Seq(Change) /\ Len(changes) \in Nat /\ DOMAIN changes = 1..Len(changes)
    BY DEF ChangesFit
  <1>2. \A i \in 1..Len(changes) : changes[i] \in Change
    BY <1>1, ElementOfSeq
  <1> QED
    BY <1>1, <1>2 DEF Change

LEMMA OrderIsDistinct ==
  ASSUME NEW order \in Orders
  PROVE  /\ Len(order) \in Nat /\ DOMAIN order = 1..Len(order)
         /\ order \in [1..Len(order) -> Positions]
         /\ \A i, j \in 1..Len(order) : order[i] = order[j] => i = j
  <1>1. PICK m \in 0..Cardinality(Positions) : order \in [1..m -> Positions]
    BY DEF Orders, SeqOf
  <1>2. Cardinality(Positions) \in Nat
    BY Sizes, FS_CardinalityType
  <1>3. m \in Nat
    BY <1>2
  <1>4. DOMAIN order = 1..m /\ order \in Seq(Positions)
    BY <1>1, <1>3
  <1>5. Len(order) = m
    BY <1>3, <1>4
  <1>6. \A i, j \in DOMAIN order : i < j => order[i] < order[j]
    BY DEF Orders
  <1>7. \A i \in 1..m : order[i] \in Int
    BY <1>1, Sizes
  <1>8. \A i, j \in 1..m : order[i] = order[j] => i = j
    BY <1>3, <1>4, <1>6, <1>7
  <1> QED
    BY <1>1, <1>3, <1>4, <1>5, <1>8

LEMMA ChangesAreFit ==
  ASSUME NEW order \in Orders,
         NEW before \in [DOMAIN order -> Cell], NEW after \in [DOMAIN order -> Cell]
  PROVE  ChangesFit(ChangesAt(order, before, after))
  <1> DEFINE changes == ChangesAt(order, before, after)
             m == Len(order)
  <1>1. m \in Nat /\ DOMAIN order = 1..m /\ order \in [1..m -> Positions]
        /\ \A i, j \in 1..m : order[i] = order[j] => i = j
    BY OrderIsDistinct
  <1>2. changes = [i \in 1..m |-> [at |-> order[i], before |-> before[i], after |-> after[i]]]
    BY <1>1 DEF ChangesAt
  <1>3. \A i \in 1..m : before[i] \in Cell /\ after[i] \in Cell /\ order[i] \in Positions
    BY <1>1
  <1> HIDE DEF changes, m
  <1>4. changes \in [1..m -> Change]
    BY <1>2, <1>3 DEF Change
  <1>5. changes \in Seq(Change) /\ Len(changes) = m
    BY <1>1, <1>4
  <1>6. \A i \in 1..m : changes[i].at = order[i]
    BY <1>2
  <1>7. \A i, j \in 1..m : changes[i].at = changes[j].at => i = j
    BY <1>1, <1>6
  <1> QED
    BY <1>5, <1>7 DEF ChangesFit, changes

(* What a change that is none leaves out.                                  *)
IsReal(part, changes) ==
  /\ ChangesFit(part)
  /\ \A i \in 1..Len(part) : \E j \in 1..Len(changes) :
       part[i] = changes[j] /\ changes[j].before # changes[j].after
  /\ \A j \in 1..Len(changes) : changes[j].before # changes[j].after =>
       \E i \in 1..Len(part) : part[i] = changes[j]

LEMMA RealIsReal ==
  ASSUME NEW changes, ChangesFit(changes)
  PROVE  IsReal(Real(changes), changes)
  <1> DEFINE wanted == {c \in Range(changes) : c.before # c.after}
             part == Kept(changes, wanted)
  <1>1. changes \in Seq(Change) /\ Len(changes) \in Nat /\ DOMAIN changes = 1..Len(changes)
    BY DEF ChangesFit
  <1>2. Real(changes) = part
    BY DEF Real
  <1>3. \A j \in 1..Len(changes) : changes[j] \in wanted <=> changes[j].before # changes[j].after
    BY <1>1 DEF Range
  <1> HIDE DEF wanted
  <1>4. IsPart(part, Len(changes), Change, changes, wanted)
    BY <1>1, KeptIsPart
  <1>5. Distinct(changes)
    BY DEF Distinct, ChangesFit
  <1>6. Distinct(part)
    BY <1>1, <1>5, KeptDistinct
  <1> HIDE DEF part
  <1>7. \A i \in 1..Len(part) : part[i] \in wanted /\ \E j \in 1..Len(changes) : part[i] = changes[j]
    BY <1>4 DEF IsPart
  <1>8. \A i \in 1..Len(part) : \E j \in 1..Len(changes) :
          part[i] = changes[j] /\ changes[j].before # changes[j].after
    BY <1>3, <1>7
  <1>9. \A j \in 1..Len(changes) : changes[j].before # changes[j].after =>
          \E i \in 1..Len(part) : part[i] = changes[j]
    BY <1>3, <1>4 DEF IsPart
  <1>10. \A i, j \in 1..Len(part) : part[i].at = part[j].at => i = j
    <2> SUFFICES ASSUME NEW i \in 1..Len(part), NEW j \in 1..Len(part), part[i].at = part[j].at
                 PROVE  i = j
      OBVIOUS
    <2>1. PICK k \in 1..Len(changes) : part[i] = changes[k]
      BY <1>7
    <2>2. PICK l \in 1..Len(changes) : part[j] = changes[l]
      BY <1>7
    <2>3. k = l
      BY <2>1, <2>2 DEF ChangesFit
    <2> QED
      BY <1>6, <2>1, <2>2, <2>3 DEF Distinct
  <1>11. part \in Seq(Change)
    BY <1>4 DEF IsPart
  <1> QED
    BY <1>2, <1>8, <1>9, <1>10, <1>11 DEF IsReal, ChangesFit

(* The writes of changes: to the cells after, before, and to none.         *)
LEMMA ForthWrites ==
  ASSUME NEW changes, ChangesFit(changes)
  PROVE  /\ WritesAt(Forth(changes)) /\ Len(Forth(changes)) = Len(changes)
         /\ \A i \in 1..Len(changes) : Forth(changes)[i][1] = changes[i].at
                                       /\ Forth(changes)[i][2] = changes[i].after
  <1> DEFINE m == Len(changes)
             writes == Forth(changes)
  <1>1. changes \in Seq(Change) /\ m \in Nat /\ DOMAIN changes = 1..m
        /\ \A i \in 1..m : changes[i].at \in Positions /\ changes[i].after \in Cell
    BY TypesOfChanges
  <1>2. writes = [i \in 1..m |-> <<changes[i].at, changes[i].after>>]
    BY <1>1 DEF Forth
  <1> HIDE DEF m, writes
  <1>3. writes \in [1..m -> Positions \X Cell]
    BY <1>1, <1>2
  <1>4. writes \in Seq(Positions \X Cell) /\ Len(writes) = m
    BY <1>1, <1>3
  <1>5. \A i \in 1..m : writes[i][1] = changes[i].at /\ writes[i][2] = changes[i].after
    BY <1>2
  <1>6. \A i, j \in 1..m : changes[i].at = changes[j].at => i = j
    BY DEF ChangesFit, m
  <1>7. WritesAt(writes)
    BY <1>1, <1>4, <1>5, <1>6 DEF WritesAt
  <1> QED
    BY <1>4, <1>5, <1>7 DEF m, writes

LEMMA RemovalWrites ==
  ASSUME NEW changes, ChangesFit(changes)
  PROVE  /\ WritesAt(Removal(changes)) /\ Len(Removal(changes)) = Len(changes)
         /\ \A i \in 1..Len(changes) : Removal(changes)[i][1] = changes[i].at
                                       /\ Removal(changes)[i][2] = Void
  <1> DEFINE m == Len(changes)
             writes == Removal(changes)
  <1>1. changes \in Seq(Change) /\ m \in Nat /\ DOMAIN changes = 1..m
        /\ \A i \in 1..m : changes[i].at \in Positions
    BY TypesOfChanges
  <1>2. writes = [i \in 1..m |-> <<changes[i].at, Void>>]
    BY <1>1 DEF Removal
  <1> HIDE DEF m, writes
  <1>3. writes \in [1..m -> Positions \X Cell]
    BY <1>1, <1>2, Sizes
  <1>4. writes \in Seq(Positions \X Cell) /\ Len(writes) = m
    BY <1>1, <1>3
  <1>5. \A i \in 1..m : writes[i][1] = changes[i].at /\ writes[i][2] = Void
    BY <1>2
  <1>6. \A i, j \in 1..m : changes[i].at = changes[j].at => i = j
    BY DEF ChangesFit, m
  <1>7. WritesAt(writes)
    BY <1>1, <1>4, <1>5, <1>6, Sizes DEF WritesAt
  <1> QED
    BY <1>4, <1>5, <1>7 DEF m, writes

LEMMA BackWrites ==
  ASSUME NEW changes, ChangesFit(changes)
  PROVE  /\ WritesAt(Back(changes)) /\ Len(Back(changes)) = Len(changes)
         /\ \A i \in 1..Len(changes) :
              /\ Len(changes) - i + 1 \in 1..Len(changes)
              /\ Back(changes)[i][1] = changes[Len(changes) - i + 1].at
              /\ Back(changes)[i][2] = changes[Len(changes) - i + 1].before
  <1> DEFINE m == Len(changes)
             there == [i \in DOMAIN changes |-> <<changes[i].at, changes[i].before>>]
             writes == Back(changes)
  <1>1. changes \in Seq(Change) /\ m \in Nat /\ DOMAIN changes = 1..m
        /\ \A i \in 1..m : changes[i].at \in Positions /\ changes[i].before \in Cell
    BY TypesOfChanges
  <1>2. there = [i \in 1..m |-> <<changes[i].at, changes[i].before>>]
    BY <1>1
  <1>3. writes = [i \in 1..Len(there) |-> there[(Len(there) - i) + 1]]
    BY DEF Back, Reverse
  <1> HIDE DEF m, writes, there
  <1>4. there \in [1..m -> Positions \X Cell]
    BY <1>1, <1>2
  <1>5. there \in Seq(Positions \X Cell) /\ Len(there) = m
    BY <1>1, <1>4
  <1>6. \A i \in 1..m : m - i + 1 \in 1..m
    BY <1>1
  <1>7. writes = [i \in 1..m |-> there[m - i + 1]]
    BY <1>3, <1>5
  <1>8. \A i \in 1..m : there[m - i + 1] \in Positions \X Cell
    BY <1>4, <1>6
  <1>9. writes \in [1..m -> Positions \X Cell]
    BY <1>7, <1>8
  <1>10. writes \in Seq(Positions \X Cell) /\ Len(writes) = m
    BY <1>1, <1>9
  <1>11. \A i \in 1..m : /\ writes[i][1] = changes[m - i + 1].at
                         /\ writes[i][2] = changes[m - i + 1].before
    BY <1>2, <1>6, <1>7
  <1>12. \A i, j \in 1..m : changes[m - i + 1].at = changes[m - j + 1].at => i = j
    <2> TAKE i, j \in 1..m
    <2>1. changes[m - i + 1].at = changes[m - j + 1].at => m - i + 1 = m - j + 1
      BY <1>6 DEF ChangesFit, m
    <2> QED
      BY <1>1, <2>1
  <1>13. WritesAt(writes)
    BY <1>1, <1>6, <1>10, <1>11, <1>12 DEF WritesAt
  <1> QED
    BY <1>6, <1>10, <1>11, <1>13 DEF m, writes

LEMMA ChangedIs ==
  ASSUME NEW was \in [Positions -> Cell], NEW changes, ChangesFit(changes)
  PROVE  /\ Changed(was, changes) \in [Positions -> Cell]
         /\ \A i \in 1..Len(changes) : Changed(was, changes)[changes[i].at] = changes[i].after
         /\ \A q \in Positions :
              (\A i \in 1..Len(changes) : changes[i].at # q) => Changed(was, changes)[q] = was[q]
  <1> DEFINE m == Len(changes)
             new == Changed(was, changes)
  <1>1. changes \in Seq(Change) /\ m \in Nat /\ DOMAIN changes = 1..m
        /\ \A i \in 1..m : changes[i].at \in Positions /\ changes[i].after \in Cell
    BY TypesOfChanges
  <1>2. \A q \in Positions : q \in Sites(changes) <=> \E i \in 1..m : changes[i].at = q
    BY <1>1 DEF Sites
  <1>3. \A i \in 1..m : (CHOOSE j \in DOMAIN changes : changes[j].at = changes[i].at) = i
    <2> TAKE i \in 1..m
    <2> DEFINE k == CHOOSE j \in DOMAIN changes : changes[j].at = changes[i].at
    <2>1. k \in DOMAIN changes /\ changes[k].at = changes[i].at
      BY <1>1
    <2> QED
      BY <1>1, <2>1 DEF ChangesFit
  <1>4. new = [p \in Positions |->
                IF p \in Sites(changes)
                THEN changes[CHOOSE i \in DOMAIN changes : changes[i].at = p].after
                ELSE was[p]]
    BY DEF Changed
  <1> HIDE DEF m, new
  <1>5. \A i \in 1..m : new[changes[i].at] = changes[i].after
    <2> TAKE i \in 1..m
    <2> DEFINE p == changes[i].at
    <2>1. p \in Positions /\ p \in Sites(changes)
      BY <1>1, <1>2
    <2>2. new[p] = changes[CHOOSE j \in DOMAIN changes : changes[j].at = p].after
      BY <1>4, <2>1
    <2> QED
      BY <1>3, <2>2
  <1>6. \A q \in Positions : (\A i \in 1..m : changes[i].at # q) => new[q] = was[q]
    BY <1>2, <1>4
  <1>7. \A q \in Positions : new[q] \in Cell
    <2> TAKE q \in Positions
    <2>1. CASE \E i \in 1..m : changes[i].at = q
      BY <1>1, <1>5, <2>1
    <2>2. CASE \A i \in 1..m : changes[i].at # q
      BY <1>6, <2>2
    <2> QED
      BY <2>1, <2>2
  <1>8. new \in [Positions -> Cell]
    BY <1>4, <1>7
  <1> QED
    BY <1>5, <1>6, <1>8 DEF m, new

-----------------------------------------------------------------------------
(* What holds in every state.                                              *)

IsObservation(o) ==
  \E c, k : \E b, w \in BOOLEAN :
    o = [chunk |-> c, occupied |-> b, token |-> k, touched |-> w]

StoredFits ==
  /\ AllFit(Here, Readers)
  /\ cells \in [Positions -> Cell]
  /\ \A p \in Positions : InPlace(Here, p) = cells[p]

SnapshotFits ==
  Some(snapshot) => \A p \in Positions : CellAt(heap, snapshot.store, p) = snapshot.cells[p]

ObservedFits ==
  Some(observed) => /\ IsObservation(observed)
                    /\ Watched(observed, world)
                    /\ observed.touched => Gone(observed, world)

PreparedFits ==
  Some(prepared) => /\ ChangesFit(prepared.changes)
                    /\ prepared.cells \in [Positions -> Cell]
                    /\ prepared.before = TokensOf(prepared.cells)

(* Writes that make cells of nothing.                                      *)
Makes(writes, filled) ==
  /\ WritesAt(writes)
  /\ filled \in [Positions -> Cell]
  /\ \A i \in 1..Len(writes) : filled[writes[i][1]] = writes[i][2]
  /\ \A q \in Positions : (\A i \in 1..Len(writes) : writes[i][1] # q) => filled[q] = Void

CheckpointFits == Some(checkpoint) => Makes(checkpoint.records, checkpoint.cells)

GeometryInv == StoredFits /\ SnapshotFits /\ ObservedFits /\ PreparedFits /\ CheckpointFits

LEMMA HereIs == Here.mem = heap /\ Here.store = world
  BY DEF Here

LEMMA ReadersAre ==
  /\ Readers.addresses = ReaderAddresses /\ Readers.epochs = ReaderEpochs
  /\ IsFiniteSet(ReaderEpochs)
  <1> DEFINE A == IF Some(snapshot) THEN {snapshot.store.epoch} ELSE {}
             B == IF Some(observed) /\ ~observed.occupied THEN {observed.token} ELSE {}
  <1>1. IsFiniteSet(A) /\ IsFiniteSet(B)
    BY FS_EmptySet, FS_Singleton
  <1>2. ReaderEpochs = A \cup B
    BY DEF ReaderEpochs
  <1> HIDE DEF A, B
  <1>3. IsFiniteSet(ReaderEpochs)
    BY <1>1, <1>2, FS_Union
  <1> QED
    BY <1>3 DEF Readers

LEMMA ObservedIsSeen ==
  ASSUME Some(observed), IsObservation(observed)
  PROVE  Seen(observed, Readers)
  <1>1. observed.occupied \in BOOLEAN
    BY DEF IsObservation
  <1>2. CASE observed.occupied
    BY <1>2, ReadersAre DEF Seen, ReaderAddresses
  <1>3. CASE ~observed.occupied
    BY <1>3, ReadersAre DEF Seen, ReaderEpochs
  <1> QED
    BY <1>1, <1>2, <1>3

(* The same memory and world, with fewer readers.                          *)
LEMMA FitsAlike ==
  ASSUME NEW s, NEW others, AllFit(s, others), NEW u, u.mem = s.mem, u.store = s.store,
         NEW fewer, fewer.addresses \subseteq others.addresses, IsFiniteSet(fewer.epochs)
  PROVE  AllFit(u, fewer)
  BY DEF AllFit, StoreFits, CountsFit, OthersFit

LEMMA StoresWhatIsHeld ==
  ASSUME StoredFits
  PROVE  /\ IsFiniteSet(DOMAIN heap)
         /\ ReaderAddresses \subseteq DOMAIN heap
         /\ Addresses(world) \subseteq DOMAIN heap
  BY HereIs, ReadersAre DEF StoredFits, AllFit, StoreFits, OthersFit, Addresses

LEMMA HashIsTokens ==
  ASSUME StoredFits
  PROVE  Contents(heap, world) = cells /\ world.hash = TokensOf(cells)
  <1>1. \A p \in Positions : CellAt(heap, world, p) = cells[p]
    BY HereIs DEF StoredFits, InPlace
  <1>2. cells \in [Positions -> Cell]
    BY DEF StoredFits
  <1>3. Contents(heap, world) = cells
    BY <1>1, <1>2 DEF Contents
  <1>4. world.hash = TokensOf(Contents(heap, world))
    BY HereIs DEF StoredFits, AllFit, CountsFit
  <1> QED
    BY <1>3, <1>4

(* A world t takes the place of the present one; written says whether the  *)
(* observed chunk was written.                                             *)
Replaces(t, written) ==
  /\ heap' = t.mem /\ world' = t.store
  /\ AllFit(t, Readers)
  /\ cells' \in [Positions -> Cell]
  /\ \A p \in Positions : InPlace(t, p) = cells'[p]
  /\ \A a \in ReaderAddresses : t.mem[a] = heap[a]
  /\ snapshot' = snapshot
  /\ observed' = IF Some(observed) THEN [observed EXCEPT !.touched = @ \/ written] ELSE observed
  /\ Some(observed) => /\ Watched(observed, t.store)
                       /\ observed.touched \/ written => Gone(observed, t.store)

LEMMA ObservationAfter ==
  ASSUME NEW o, IsObservation(o), NEW written \in BOOLEAN
  PROVE  /\ IsObservation([o EXCEPT !.touched = @ \/ written])
         /\ [o EXCEPT !.touched = @ \/ written].chunk = o.chunk
         /\ [o EXCEPT !.touched = @ \/ written].occupied = o.occupied
         /\ [o EXCEPT !.touched = @ \/ written].token = o.token
         /\ [o EXCEPT !.touched = @ \/ written].touched <=> o.touched \/ written
  <1>1. PICK c, k : \E b, w \in BOOLEAN :
          o = [chunk |-> c, occupied |-> b, token |-> k, touched |-> w]
    BY DEF IsObservation
  <1>2. PICK b \in BOOLEAN, w \in BOOLEAN :
          o = [chunk |-> c, occupied |-> b, token |-> k, touched |-> w]
    BY <1>1
  <1> DEFINE new == [chunk |-> c, occupied |-> b, token |-> k, touched |-> w \/ written]
  <1>3. [o EXCEPT !.touched = @ \/ written] = new
    BY <1>2
  <1>4. (w \/ written) \in BOOLEAN
    OBVIOUS
  <1>5. IsObservation(new)
    BY <1>4 DEF IsObservation
  <1> QED
    BY <1>2, <1>3, <1>5

LEMMA ReplacesFits ==
  ASSUME StoredFits, SnapshotFits, ObservedFits,
         NEW t, NEW written \in BOOLEAN, Replaces(t, written)
  PROVE  (StoredFits /\ SnapshotFits /\ ObservedFits)'
  <1>1. /\ heap' = t.mem /\ world' = t.store /\ snapshot' = snapshot
        /\ AllFit(t, Readers)
        /\ \A a \in ReaderAddresses : t.mem[a] = heap[a]
    BY DEF Replaces
  <1>2. /\ ReaderAddresses' \subseteq ReaderAddresses
        /\ ReaderEpochs' \subseteq ReaderEpochs
        /\ ObservedFits'
    <2>1. CASE ~Some(observed)
      <3>1. observed' = observed
        BY <2>1 DEF Replaces
      <3> QED
        BY <1>1, <2>1, <3>1 DEF ReaderAddresses, ReaderEpochs, ObservedFits
    <2>2. CASE Some(observed)
      <3> DEFINE new == [observed EXCEPT !.touched = @ \/ written]
      <3>1. observed' = new
        BY <2>2 DEF Replaces
      <3>2. IsObservation(observed)
        BY <2>2 DEF ObservedFits
      <3>3. /\ IsObservation(new)
            /\ new.chunk = observed.chunk /\ new.occupied = observed.occupied
            /\ new.token = observed.token /\ (new.touched <=> observed.touched \/ written)
        BY <3>2, ObservationAfter
      <3>4. /\ Watched(observed, t.store)
            /\ observed.touched \/ written => Gone(observed, t.store)
        BY <2>2 DEF Replaces
      <3> HIDE DEF new
      <3>5. Watched(new, t.store) /\ (new.touched => Gone(new, t.store))
        BY <3>3, <3>4 DEF Watched, Gone
      <3>6. ObservedFits'
        BY <1>1, <3>1, <3>3, <3>5 DEF ObservedFits
      <3>7. ReaderAddresses' \subseteq ReaderAddresses
        BY <1>1, <2>2, <3>1, <3>3 DEF ReaderAddresses
      <3>8. ReaderEpochs' \subseteq ReaderEpochs
        BY <1>1, <2>2, <3>1, <3>3 DEF ReaderEpochs
      <3> QED
        BY <3>6, <3>7, <3>8
    <2> QED
      BY <2>1, <2>2
  <1>3. StoredFits'
    <2>1. Here'.mem = t.mem /\ Here'.store = t.store
      BY <1>1 DEF Here
    <2>2. Readers'.addresses \subseteq Readers.addresses /\ IsFiniteSet(Readers'.epochs)
      BY <1>2, ReadersAre, FS_Subset DEF Readers
    <2>3. AllFit(Here', Readers')
      BY <1>1, <2>1, <2>2, FitsAlike
    <2>4. \A p \in Positions : InPlace(Here', p) = InPlace(t, p)
      BY <2>1 DEF InPlace
    <2> QED
      BY <2>3, <2>4 DEF StoredFits, Replaces
  <1>4. SnapshotFits'
    <2> SUFFICES ASSUME Some(snapshot), NEW p \in Positions
                 PROVE  CellAt(t.mem, snapshot.store, p) = snapshot.cells[p]
      BY <1>1 DEF SnapshotFits
    <2>1. CellAt(heap, snapshot.store, p) = snapshot.cells[p]
      BY DEF SnapshotFits
    <2>2. \A c \in DOMAIN snapshot.store.chunks :
            t.mem[snapshot.store.chunks[c]] = heap[snapshot.store.chunks[c]]
      BY <1>1 DEF ReaderAddresses, Addresses
    <2> QED
      BY <2>1, <2>2 DEF CellAt
  <1> QED
    BY <1>2, <1>3, <1>4

(* Nothing is prepared or saved in a step that leaves both alone.          *)
LEMMA KeepsOthers ==
  ASSUME GeometryInv, UNCHANGED <<prepared, checkpoint>>,
         (StoredFits /\ SnapshotFits /\ ObservedFits)'
  PROVE  GeometryInv'
  <1>1. PreparedFits' /\ CheckpointFits'
    BY DEF GeometryInv, PreparedFits, CheckpointFits
  <1> QED
    BY <1>1 DEF GeometryInv

LEMMA KeepsInv ==
  ASSUME GeometryInv, UNCHANGED <<prepared, checkpoint>>,
         NEW t, NEW written \in BOOLEAN, Replaces(t, written)
  PROVE  GeometryInv'
  <1>1. StoredFits /\ SnapshotFits /\ ObservedFits
    BY DEF GeometryInv
  <1>2. (StoredFits /\ SnapshotFits /\ ObservedFits)'
    BY <1>1, ReplacesFits
  <1> QED
    BY <1>2, KeepsOthers

(* A world that was made for more readers than there are is put in place.  *)
LEMMA HousedFits ==
  ASSUME NEW u, NEW others, AllFit(u, others), ReaderAddresses \subseteq others.addresses
  PROVE  /\ AllFit(Housed(u), Readers) /\ Housed(u).store = u.store
         /\ \A p \in Positions : InPlace(Housed(u), p) = InPlace(u, p)
         /\ \A a \in ReaderAddresses : Housed(u).mem[a] = u.mem[a]
  <1> DEFINE t == Housed(u)
             kept == ReaderAddresses \cup Addresses(u.store)
  <1>1. t.store = u.store /\ t.mem = Only(u.mem, kept)
    BY DEF Housed
  <1>2. kept \subseteq DOMAIN u.mem
    BY DEF AllFit, StoreFits, OthersFit, Addresses
  <1> HIDE DEF t
  <1>3. DOMAIN t.mem = kept /\ \A a \in kept : t.mem[a] = u.mem[a]
    <2> HIDE DEF kept
    <2> QED
      BY <1>1, <1>2 DEF Only
  <1>4. \A c \in DOMAIN u.store.chunks :
          u.store.chunks[c] \in DOMAIN t.mem
          /\ t.mem[u.store.chunks[c]] = u.mem[u.store.chunks[c]]
    BY <1>3 DEF Addresses
  <1>5. IsFiniteSet(DOMAIN t.mem)
    BY <1>2, <1>3, FS_Subset DEF AllFit, StoreFits
  <1>6. StoreFits(t)
    BY <1>1, <1>4, <1>5 DEF AllFit, StoreFits
  <1>7. \A p \in Positions : CellAt(t.mem, t.store, p) = CellAt(u.mem, u.store, p)
    BY <1>1, <1>4 DEF CellAt
  <1>8. Contents(t.mem, t.store) = Contents(u.mem, u.store)
    BY <1>7 DEF Contents
  <1>9. CountsFit(t)
    BY <1>1, <1>8 DEF AllFit, CountsFit
  <1>10. OthersFit(t, Readers)
    BY <1>3, ReadersAre DEF OthersFit
  <1>11. AllFit(t, Readers)
    BY <1>6, <1>9, <1>10 DEF AllFit
  <1> QED
    BY <1>1, <1>3, <1>7, <1>11 DEF InPlace, t

-----------------------------------------------------------------------------
(* Where changes lead, and what the readers can know of it.                *)

Leads(s, t, others, changes) ==
  /\ AllFit(t, others)
  /\ \A a \in others.addresses : t.mem[a] = s.mem[a]
  /\ \A i \in 1..Len(changes) : InPlace(t, changes[i].at) = changes[i].after
  /\ \A q \in Positions :
       (\A i \in 1..Len(changes) : changes[i].at # q) => InPlace(t, q) = InPlace(s, q)
  /\ \A o : Seen(o, others) /\ Watched(o, s.store) =>
       /\ Watched(o, t.store)
       /\ Gone(o, s.store) => Gone(o, t.store)
       /\ \A i \in 1..Len(changes) :
            ChunkOf(changes[i].at) = o.chunk /\ InPlace(s, changes[i].at) # changes[i].after
              => Gone(o, t.store)

(* The same of writes.                                                     *)
Lands(s, t, others, writes) ==
  /\ Sofar(s, t, others, writes, Len(writes))
  /\ \A o : Seen(o, others) /\ Watched(o, s.store) => Aged(o, s, t, writes, Len(writes))

LEMMA WritesLand ==
  ASSUME NEW s, NEW others, AllFit(s, others), NEW writes, WritesAt(writes)
  PROVE  Lands(s, AllWritten(s, others, writes), others, writes)
  BY AllWrittenFits DEF Lands

LEMMA ForthLeads ==
  ASSUME NEW s, NEW others, AllFit(s, others), NEW changes, ChangesFit(changes)
  PROVE  Leads(s, AllWritten(s, others, Forth(changes)), others, changes)
  <1> DEFINE writes == Forth(changes)
             t == AllWritten(s, others, writes)
  <1>1. /\ WritesAt(writes) /\ Len(writes) = Len(changes)
        /\ \A i \in 1..Len(changes) : writes[i][1] = changes[i].at
                                      /\ writes[i][2] = changes[i].after
    BY ForthWrites
  <1> HIDE DEF writes
  <1>2. Lands(s, t, others, writes)
    BY <1>1, WritesLand
  <1> HIDE DEF t
  <1>3. Sofar(s, t, others, writes, Len(changes))
    BY <1>1, <1>2 DEF Lands
  <1>4. \A o : Seen(o, others) /\ Watched(o, s.store) => Aged(o, s, t, writes, Len(changes))
    BY <1>1, <1>2 DEF Lands
  <1>5. /\ AllFit(t, others)
        /\ \A a \in others.addresses : t.mem[a] = s.mem[a]
    BY <1>3 DEF Sofar
  <1>6. \A i \in 1..Len(changes) : InPlace(t, changes[i].at) = changes[i].after
    BY <1>1, <1>3 DEF Sofar
  <1>7. \A q \in Positions :
          (\A i \in 1..Len(changes) : changes[i].at # q) => InPlace(t, q) = InPlace(s, q)
    BY <1>1, <1>3 DEF Sofar
  <1>8. ASSUME NEW o, Seen(o, others), Watched(o, s.store)
        PROVE  /\ Watched(o, t.store)
               /\ Gone(o, s.store) => Gone(o, t.store)
               /\ \A i \in 1..Len(changes) :
                    ChunkOf(changes[i].at) = o.chunk
                    /\ InPlace(s, changes[i].at) # changes[i].after
                      => Gone(o, t.store)
    <2>1. Aged(o, s, t, writes, Len(changes))
      BY <1>4, <1>8
    <2> QED
      BY <1>1, <2>1 DEF Aged
  <1>9. Leads(s, t, others, changes)
    BY <1>5, <1>6, <1>7, <1>8 DEF Leads
  <1> QED
    BY <1>9 DEF t, writes

(* A real change is found among the real ones.                             *)
LEMMA SitesAre ==
  ASSUME NEW changes, ChangesFit(changes)
  PROVE  Sites(changes) = {changes[i].at : i \in 1..Len(changes)}
  BY TypesOfChanges DEF Sites

(* A site of a real change is one where something changes.                 *)
LEMMA SitesChange ==
  ASSUME NEW changes, ChangesFit(changes), NEW c,
         \A i \in 1..Len(changes) : InPlace(Here, changes[i].at) = changes[i].before,
         \E q \in Sites(Real(changes)) : ChunkOf(q) = c
  PROVE  \E i \in 1..Len(changes) :
           ChunkOf(changes[i].at) = c /\ InPlace(Here, changes[i].at) # changes[i].after
  <1> DEFINE real == Real(changes)
  <1>1. IsReal(real, changes)
    BY RealIsReal
  <1>2. PICK q \in Sites(real) : ChunkOf(q) = c
    OBVIOUS
  <1> HIDE DEF real
  <1>3. Sites(real) = {real[i].at : i \in 1..Len(real)}
    BY <1>1, SitesAre DEF IsReal
  <1>4. PICK i \in 1..Len(real) : real[i].at = q
    BY <1>2, <1>3
  <1>5. PICK j \in 1..Len(changes) : real[i] = changes[j] /\ changes[j].before # changes[j].after
    BY <1>1 DEF IsReal
  <1> QED
    BY <1>2, <1>4, <1>5

-----------------------------------------------------------------------------
(* Every action keeps the invariant.                                       *)

LEMMA InvParts ==
  ASSUME GeometryInv
  PROVE  /\ StoredFits /\ SnapshotFits /\ ObservedFits /\ PreparedFits /\ CheckpointFits
         /\ AllFit(Here, Readers) /\ cells \in [Positions -> Cell]
         /\ \A p \in Positions : InPlace(Here, p) = cells[p]
         /\ Some(observed) => /\ Seen(observed, Readers)
                              /\ Watched(observed, Here.store)
                              /\ observed.touched => Gone(observed, Here.store)
  <1>1. StoredFits /\ SnapshotFits /\ ObservedFits /\ PreparedFits /\ CheckpointFits
    BY DEF GeometryInv
  <1> QED
    BY <1>1, HereIs, ObservedIsSeen DEF StoredFits, ObservedFits

LEMMA SetVoxelKeeps ==
  ASSUME GeometryInv, SetVoxel
  PROVE  GeometryInv'
  <1>1. PICK p \in Positions, v \in Coarse :
          /\ Commits(Written(Here, Readers, p, v))
          /\ Touches(IF cells[p] = v THEN {} ELSE {p})
          /\ cells' = [cells EXCEPT ![p] = v]
    BY DEF SetVoxel
  <1> DEFINE t == Written(Here, Readers, p, v)
             ps == IF cells[p] = v THEN {} ELSE {p}
             written == \E q \in ps : ChunkOf(q) = observed.chunk
  <1>2. v \in Cell
    BY DEF Coarse, Cell
  <1>3. /\ AllFit(Here, Readers) /\ cells \in [Positions -> Cell]
        /\ \A q \in Positions : InPlace(Here, q) = cells[q]
    BY InvParts
  <1>4. Settles(Here, t, Readers, p, v)
    BY <1>2, <1>3, WriteSettles
  <1>5. heap' = t.mem /\ world' = t.store
    BY <1>1 DEF Commits
  <1>6. observed' = IF Some(observed) THEN [observed EXCEPT !.touched = @ \/ written] ELSE observed
    BY <1>1 DEF Touches
  <1> HIDE DEF t
  <1>7. /\ AllFit(t, Readers)
        /\ \A a \in ReaderAddresses : t.mem[a] = heap[a]
        /\ \A q \in Positions : InPlace(t, q) = IF q = p THEN v ELSE InPlace(Here, q)
    BY <1>4, HereIs, ReadersAre DEF Settles
  <1>8. cells' \in [Positions -> Cell] /\ \A q \in Positions : InPlace(t, q) = cells'[q]
    BY <1>1, <1>2, <1>3, <1>7
  <1>9. Some(observed) => /\ Watched(observed, t.store)
                          /\ observed.touched \/ written => Gone(observed, t.store)
    <2> SUFFICES ASSUME Some(observed)
                 PROVE  /\ Watched(observed, t.store)
                        /\ observed.touched \/ written => Gone(observed, t.store)
      OBVIOUS
    <2>1. /\ Seen(observed, Readers) /\ Watched(observed, Here.store)
          /\ observed.touched => Gone(observed, Here.store)
      BY InvParts
    <2>2. written => ChunkOf(p) = observed.chunk /\ InPlace(Here, p) # v
      BY <1>3
    <2> HIDE DEF written
    <2> QED
      BY <1>4, <2>1, <2>2 DEF Settles
  <1>10. written \in BOOLEAN
    OBVIOUS
  <1> HIDE DEF written
  <1>11. UNCHANGED <<snapshot, prepared, checkpoint>>
    BY DEF SetVoxel
  <1>12. Replaces(t, written)
    BY <1>5, <1>6, <1>7, <1>8, <1>9, <1>11 DEF Replaces
  <1> QED
    BY <1>10, <1>11, <1>12, KeepsInv

LEMMA ApplyCheckedKeeps ==
  ASSUME GeometryInv, ApplyChecked
  PROVE  GeometryInv'
  <1>1. PICK order \in Orders : \E before, after \in [DOMAIN order -> Coarse] :
          LET changes == ChangesAt(order, before, after)
              done == AllWritten(Here, Readers, Forth(changes))
          IN /\ Len(order) <= MaxChanges /\ BeforeHolds(changes)
             /\ \E expected \in {done.store.hash, world.hash} :
                  IF done.store.hash = expected
                  THEN Commits(done) /\ cells' = Changed(cells, changes)
                  ELSE Commits(AllWritten(done, Readers, Back(changes))) /\ UNCHANGED cells
             /\ Touches(Sites(Real(changes)))
    BY DEF ApplyChecked
  <1>2. PICK before \in [DOMAIN order -> Coarse], after \in [DOMAIN order -> Coarse] :
          LET changes == ChangesAt(order, before, after)
              done == AllWritten(Here, Readers, Forth(changes))
          IN /\ Len(order) <= MaxChanges /\ BeforeHolds(changes)
             /\ \E expected \in {done.store.hash, world.hash} :
                  IF done.store.hash = expected
                  THEN Commits(done) /\ cells' = Changed(cells, changes)
                  ELSE Commits(AllWritten(done, Readers, Back(changes))) /\ UNCHANGED cells
             /\ Touches(Sites(Real(changes)))
    BY <1>1
  <1> DEFINE changes == ChangesAt(order, before, after)
             done == AllWritten(Here, Readers, Forth(changes))
             undone == AllWritten(done, Readers, Back(changes))
             written == \E q \in Sites(Real(changes)) : ChunkOf(q) = observed.chunk
  <1>3. /\ BeforeHolds(changes)
        /\ \/ Commits(done) /\ cells' = Changed(cells, changes)
           \/ Commits(undone) /\ cells' = cells
        /\ observed' = IF Some(observed)
                       THEN [observed EXCEPT !.touched = @ \/ written] ELSE observed
    BY <1>2 DEF Touches
  <1>4. ChangesFit(changes)
    <2>1. Coarse \subseteq Cell
      BY DEF Coarse, Cell
    <2>2. before \in [DOMAIN order -> Cell] /\ after \in [DOMAIN order -> Cell]
      BY <2>1
    <2> QED
      BY <2>2, ChangesAreFit
  <1> HIDE DEF changes
  <1>5. /\ AllFit(Here, Readers) /\ cells \in [Positions -> Cell]
        /\ \A q \in Positions : InPlace(Here, q) = cells[q]
    BY InvParts
  <1>6. Leads(Here, done, Readers, changes)
    BY <1>4, <1>5, ForthLeads
  <1>7. Lands(done, undone, Readers, Back(changes))
    <2>1. AllFit(done, Readers) /\ WritesAt(Back(changes))
      BY <1>4, <1>6, BackWrites DEF Leads
    <2> HIDE DEF done
    <2> QED
      BY <2>1, WritesLand
  <1> HIDE DEF done, undone
  <1>8. \A i \in 1..Len(changes) : InPlace(Here, changes[i].at) = changes[i].before
    BY <1>3, <1>4, TypesOfChanges DEF BeforeHolds, Here, InPlace
  <1>9. Some(observed) =>
          /\ Watched(observed, done.store) /\ Watched(observed, undone.store)
          /\ observed.touched \/ written =>
               Gone(observed, done.store) /\ Gone(observed, undone.store)
    <2> SUFFICES ASSUME Some(observed)
                 PROVE  /\ Watched(observed, done.store) /\ Watched(observed, undone.store)
                        /\ observed.touched \/ written =>
                             Gone(observed, done.store) /\ Gone(observed, undone.store)
      OBVIOUS
    <2>1. /\ Seen(observed, Readers) /\ Watched(observed, Here.store)
          /\ observed.touched => Gone(observed, Here.store)
      BY InvParts
    <2>2. written => \E i \in 1..Len(changes) :
                       /\ ChunkOf(changes[i].at) = observed.chunk
                       /\ InPlace(Here, changes[i].at) # changes[i].after
      BY <1>4, <1>8, SitesChange
    <2> HIDE DEF written
    <2>3. /\ Watched(observed, done.store)
          /\ observed.touched \/ written => Gone(observed, done.store)
      BY <1>6, <2>1, <2>2 DEF Leads
    <2>4. Aged(observed, done, undone, Back(changes), Len(Back(changes)))
      BY <1>7, <2>1, <2>3 DEF Lands
    <2> QED
      BY <2>3, <2>4 DEF Aged
  <1>10. /\ AllFit(done, Readers)
         /\ \A a \in ReaderAddresses : done.mem[a] = heap[a]
         /\ \A i \in 1..Len(changes) : InPlace(done, changes[i].at) = changes[i].after
         /\ \A q \in Positions :
              (\A i \in 1..Len(changes) : changes[i].at # q) => InPlace(done, q) = cells[q]
    BY <1>5, <1>6, HereIs, ReadersAre DEF Leads
  <1>11. written \in BOOLEAN
    OBVIOUS
  <1> HIDE DEF written
  <1>12. UNCHANGED <<snapshot, prepared, checkpoint>>
    BY DEF ApplyChecked
  <1>13. CASE Commits(done) /\ cells' = Changed(cells, changes)
    <2>1. /\ Changed(cells, changes) \in [Positions -> Cell]
          /\ \A i \in 1..Len(changes) : Changed(cells, changes)[changes[i].at] = changes[i].after
          /\ \A q \in Positions :
               (\A i \in 1..Len(changes) : changes[i].at # q) => Changed(cells, changes)[q] = cells[q]
      BY <1>4, <1>5, ChangedIs
    <2>2. \A q \in Positions : InPlace(done, q) = cells'[q]
      <3> TAKE q \in Positions
      <3>1. CASE \E i \in 1..Len(changes) : changes[i].at = q
        BY <1>10, <1>13, <2>1, <3>1
      <3>2. CASE \A i \in 1..Len(changes) : changes[i].at # q
        BY <1>10, <1>13, <2>1, <3>2
      <3> QED
        BY <3>1, <3>2
    <2>3. Replaces(done, written)
      BY <1>3, <1>9, <1>10, <1>12, <1>13, <2>1, <2>2 DEF Replaces, Commits
    <2> QED
      BY <1>11, <1>12, <2>3, KeepsInv
  <1>14. CASE Commits(undone) /\ cells' = cells
    <2> DEFINE back == Back(changes)
               m == Len(changes)
    <2>1. /\ Len(back) = m
          /\ \A i \in 1..m : /\ m - i + 1 \in 1..m
                             /\ back[i][1] = changes[m - i + 1].at
                             /\ back[i][2] = changes[m - i + 1].before
      BY <1>4, BackWrites
    <2>2. m \in Nat
      BY <1>4, TypesOfChanges
    <2> HIDE DEF back, m
    <2>3. Sofar(done, undone, Readers, back, m)
      BY <1>7, <2>1 DEF Lands, back
    <2>4. \A i \in 1..m : InPlace(undone, changes[i].at) = changes[i].before
      <3> TAKE i \in 1..m
      <3>1. m - i + 1 \in 1..m /\ m - (m - i + 1) + 1 = i
        BY <2>2
      <3>2. back[m - i + 1][1] = changes[i].at /\ back[m - i + 1][2] = changes[i].before
        BY <2>1, <3>1
      <3> QED
        BY <2>3, <3>1, <3>2 DEF Sofar
    <2>5. \A q \in Positions :
            (\A i \in 1..m : changes[i].at # q) => InPlace(undone, q) = InPlace(done, q)
      BY <2>1, <2>3 DEF Sofar
    <2>6. \A q \in Positions : InPlace(undone, q) = cells[q]
      <3> TAKE q \in Positions
      <3>1. CASE \E i \in 1..m : changes[i].at = q
        BY <1>5, <1>8, <2>4, <3>1 DEF m
      <3>2. CASE \A i \in 1..m : changes[i].at # q
        BY <1>10, <2>5, <3>2 DEF m
      <3> QED
        BY <3>1, <3>2
    <2>7. /\ AllFit(undone, Readers)
          /\ \A a \in ReaderAddresses : undone.mem[a] = heap[a]
      BY <1>10, <2>3, ReadersAre DEF Sofar
    <2>8. Replaces(undone, written)
      BY <1>3, <1>5, <1>9, <1>12, <1>14, <2>6, <2>7 DEF Replaces, Commits
    <2> QED
      BY <1>11, <1>12, <2>8, KeepsInv
  <1> QED
    BY <1>3, <1>13, <1>14

LEMMA ObserveChunkKeeps ==
  ASSUME GeometryInv, ObserveChunk
  PROVE  GeometryInv'
  <1>1. PICK c \in {ChunkOf(p) : p \in Positions} :
          observed' = [chunk |-> c, occupied |-> c \in DOMAIN world.chunks,
                       token |-> IF c \in DOMAIN world.chunks THEN world.chunks[c] ELSE world.epoch,
                       touched |-> FALSE]
    BY DEF ObserveChunk
  <1>2. /\ UNCHANGED <<heap, world, snapshot, prepared, checkpoint, cells>> /\ ~Some(observed)
    BY DEF ObserveChunk
  <1>3. /\ observed'.chunk = c /\ (observed'.occupied <=> c \in DOMAIN world.chunks)
        /\ observed'.token = IF c \in DOMAIN world.chunks THEN world.chunks[c] ELSE world.epoch
        /\ observed'.touched = FALSE
    BY <1>1
  <1>4. IsObservation(observed')
    <2> DEFINE b == c \in DOMAIN world.chunks
               k == IF c \in DOMAIN world.chunks THEN world.chunks[c] ELSE world.epoch
    <2>1. b \in BOOLEAN /\ FALSE \in BOOLEAN
      OBVIOUS
    <2>2. observed' = [chunk |-> c, occupied |-> b, token |-> k, touched |-> FALSE]
      BY <1>1
    <2> HIDE DEF b, k
    <2> QED
      BY <2>1, <2>2 DEF IsObservation
  <1>5. ObservedFits'
    BY <1>2, <1>3, <1>4 DEF ObservedFits, Watched
  <1>6. StoredFits /\ SnapshotFits
    BY InvParts
  <1>7. SnapshotFits'
    BY <1>2, <1>6 DEF SnapshotFits
  <1>8. AllFit(Here', Readers')
    <2>1. Here' = Here
      BY <1>2 DEF Here
    <2>2. ReaderAddresses' \subseteq DOMAIN heap
      <3>1. ReaderAddresses' \subseteq ReaderAddresses \cup {observed'.token}
            /\ ((Some(observed') /\ observed'.occupied) \/ ReaderAddresses' \subseteq ReaderAddresses)
        BY <1>2 DEF ReaderAddresses
      <3>2. ReaderAddresses \subseteq DOMAIN heap
        BY <1>6, StoresWhatIsHeld
      <3>3. observed'.occupied => observed'.token \in DOMAIN heap
        BY <1>3, <1>6, StoresWhatIsHeld DEF Addresses
      <3> QED
        BY <3>1, <3>2, <3>3
    <2>3. IsFiniteSet(ReaderEpochs')
      <3>1. ReaderEpochs' \in SUBSET (ReaderEpochs \cup {observed'.token})
        BY <1>2 DEF ReaderEpochs
      <3>2. IsFiniteSet(ReaderEpochs \cup {observed'.token})
        BY ReadersAre, FS_AddElement
      <3> QED
        BY <3>1, <3>2, FS_Subset
    <2>4. Readers'.addresses = ReaderAddresses' /\ Readers'.epochs = ReaderEpochs'
      BY DEF Readers
    <2>5. AllFit(Here, Readers')
      <3>1. StoreFits(Here) /\ CountsFit(Here)
        BY <1>6 DEF StoredFits, AllFit
      <3>2. OthersFit(Here, Readers')
        BY <2>2, <2>3, <2>4, HereIs DEF OthersFit
      <3> QED
        BY <3>1, <3>2 DEF AllFit
    <2> QED
      BY <2>1, <2>5
  <1>9. StoredFits'
    <2>1. Here' = Here
      BY <1>2 DEF Here
    <2> QED
      BY <1>2, <1>6, <1>8, <2>1 DEF StoredFits
  <1> QED
    BY <1>2, <1>5, <1>7, <1>9, KeepsOthers

LEMMA TakeSnapshotKeeps ==
  ASSUME GeometryInv, TakeSnapshot
  PROVE  GeometryInv'
  <1>1. /\ snapshot' = [store |-> world, cells |-> cells] /\ ~Some(snapshot)
        /\ UNCHANGED <<heap, world, observed, prepared, checkpoint, cells>>
    BY DEF TakeSnapshot
  <1>2. snapshot'.store = world /\ snapshot'.cells = cells
    BY <1>1
  <1>3. StoredFits /\ ObservedFits
    BY InvParts
  <1>4. ObservedFits'
    BY <1>1, <1>3 DEF ObservedFits
  <1>5. SnapshotFits'
    BY <1>1, <1>2, <1>3 DEF SnapshotFits, StoredFits, Here, InPlace
  <1>6. Here' = Here
    BY <1>1 DEF Here
  <1>7. AllFit(Here, Readers')
    <2>1. ReaderAddresses' \subseteq ReaderAddresses \cup Addresses(world)
      BY <1>1, <1>2 DEF ReaderAddresses
    <2>2. ReaderAddresses \subseteq DOMAIN heap /\ Addresses(world) \subseteq DOMAIN heap
      BY <1>3, StoresWhatIsHeld
    <2>3. ReaderEpochs' \in SUBSET (ReaderEpochs \cup {world.epoch})
      BY <1>1, <1>2 DEF ReaderEpochs
    <2>4. IsFiniteSet(ReaderEpochs')
      BY <2>3, ReadersAre, FS_AddElement, FS_Subset
    <2>5. Readers'.addresses = ReaderAddresses' /\ Readers'.epochs = ReaderEpochs'
      BY DEF Readers
    <2>6. StoreFits(Here) /\ CountsFit(Here)
      BY <1>3 DEF StoredFits, AllFit
    <2>7. OthersFit(Here, Readers')
      BY <2>1, <2>2, <2>4, <2>5, HereIs DEF OthersFit
    <2> QED
      BY <2>6, <2>7 DEF AllFit
  <1>8. StoredFits'
    BY <1>1, <1>3, <1>6, <1>7 DEF StoredFits
  <1> QED
    BY <1>1, <1>4, <1>5, <1>8, KeepsOthers

LEMMA LetGoKeeps ==
  ASSUME GeometryInv, LetGo
  PROVE  GeometryInv'
  <1>1. /\ observed' = None /\ snapshot' = None
        /\ heap' = Only(heap, Addresses(world))
        /\ UNCHANGED <<world, prepared, checkpoint, cells>>
    BY DEF LetGo
  <1>2. ~Some(observed') /\ ~Some(snapshot')
    BY <1>1 DEF Some
  <1>3. SnapshotFits' /\ ObservedFits'
    BY <1>2 DEF SnapshotFits, ObservedFits
  <1>4. ReaderAddresses' = {} /\ ReaderEpochs' = {}
    BY <1>2 DEF ReaderAddresses, ReaderEpochs
  <1>5. Readers'.addresses = {} /\ Readers'.epochs = {}
    BY <1>4 DEF Readers
  <1>6. StoredFits
    BY InvParts
  <1>7. Here'.mem = Only(heap, Addresses(world)) /\ Here'.store = world
    BY <1>1 DEF Here
  <1>8. Addresses(world) \subseteq DOMAIN heap /\ IsFiniteSet(DOMAIN heap)
    BY <1>6, StoresWhatIsHeld
  <1> DEFINE t == Here'
             kept == Addresses(world)
  <1>9. \A c \in DOMAIN world.chunks : world.chunks[c] \in kept
    BY DEF Addresses
  <1> HIDE DEF kept
  <1>10. DOMAIN t.mem = kept /\ \A a \in kept : t.mem[a] = heap[a]
    BY <1>7, <1>8 DEF Only, kept
  <1>11. t.store = world
    BY <1>7
  <1> HIDE DEF t
  <1>12. IsFiniteSet(DOMAIN t.mem)
    BY <1>8, <1>10, FS_Subset DEF kept
  <1>13. StoreFits(t)
    <2>1. StoreFits(Here)
      BY <1>6 DEF StoredFits, AllFit
    <2> QED
      BY <1>9, <1>10, <1>11, <1>12, <2>1, HereIs DEF StoreFits
  <1>14. \A p \in Positions : CellAt(t.mem, t.store, p) = CellAt(heap, world, p)
    BY <1>9, <1>10, <1>11 DEF CellAt
  <1>15. Contents(t.mem, t.store) = Contents(heap, world)
    BY <1>14 DEF Contents
  <1>16. CountsFit(t)
    BY <1>6, <1>11, <1>15, HereIs DEF StoredFits, AllFit, CountsFit
  <1>17. OthersFit(t, Readers')
    BY <1>5, FS_EmptySet DEF OthersFit
  <1>18. \A p \in Positions : InPlace(t, p) = cells[p]
    BY <1>6, <1>14, HereIs DEF StoredFits, InPlace
  <1>19. StoredFits'
    BY <1>1, <1>6, <1>13, <1>16, <1>17, <1>18 DEF StoredFits, AllFit, t
  <1> QED
    BY <1>1, <1>3, <1>19, KeepsOthers

(* A copy of every chunk, where nothing was.                               *)
LEMMA RehousedFits ==
  ASSUME StoredFits, ObservedFits, NEW at \in Injection(DOMAIN world.chunks, Spare)
  PROVE  /\ AllFit(Rehoused(at), Readers)
         /\ \A p \in Positions : InPlace(Rehoused(at), p) = cells[p]
         /\ \A a \in ReaderAddresses : Rehoused(at).mem[a] = heap[a]
         /\ Some(observed) => /\ Watched(observed, Rehoused(at).store)
                              /\ Gone(observed, Rehoused(at).store)
  <1> DEFINE D == DOMAIN world.chunks
             t == Rehoused(at)
             Origin(a) == CHOOSE c \in D : at[c] = a
  <1>1. /\ at \in [D -> Spare] /\ DOMAIN at = D
        /\ \A c, d \in D : at[c] = at[d] => c = d
    BY DEF Injection, IsInjective
  <1>2. /\ t.mem = [a \in DOMAIN heap \cup Range(at) |->
                      IF a \in DOMAIN heap THEN heap[a] ELSE heap[world.chunks[Origin(a)]]]
        /\ t.store.chunks = at /\ t.store.epoch = NewEpoch(world, Readers)
        /\ t.store.solid = world.solid /\ t.store.hash = world.hash
    BY <1>1 DEF Rehoused
  <1>3. Spare \cap DOMAIN heap = {}
    BY DEF Spare
  <1>4. /\ IsFiniteSet(DOMAIN heap) /\ ReaderAddresses \subseteq DOMAIN heap
    BY StoresWhatIsHeld
  <1>5. \A c \in D : Origin(at[c]) = c
    BY <1>1
  <1> HIDE DEF t, Origin
  <1>6. \A c \in D : at[c] \in Range(at) /\ at[c] \notin DOMAIN heap
    BY <1>1, <1>3 DEF Range
  <1>7. \A c \in D : at[c] \in DOMAIN t.mem /\ t.mem[at[c]] = heap[world.chunks[c]]
    BY <1>2, <1>5, <1>6
  <1>8. \A a \in DOMAIN heap : a \in DOMAIN t.mem /\ t.mem[a] = heap[a]
    BY <1>2
  <1>9. IsFiniteSet(DOMAIN t.mem)
    <2>1. Range(at) \in SUBSET Spare
      BY <1>1 DEF Range
    <2>2. IsFiniteSet(Spare)
      <3> DEFINE top == Cardinality(DOMAIN heap) + Cardinality(DOMAIN world.chunks) - 1
      <3>1. Spare \in SUBSET (0..top)
        BY DEF Spare
      <3>2. IsFiniteSet(0..top)
        <4> DEFINE f == [c \in D |-> world.chunks[c]]
        <4>1. f \in Injection(D, DOMAIN heap)
          BY HereIs DEF Injection, IsInjective, StoredFits, AllFit, StoreFits
        <4> HIDE DEF f
        <4>2. IsFiniteSet(D)
          BY <1>4, <4>1, FS_Injection
        <4>3. Cardinality(D) \in Nat /\ Cardinality(DOMAIN heap) \in Nat
          BY <1>4, <4>2, FS_CardinalityType
        <4>4. 0 \in Int /\ top \in Int
          BY <4>3
        <4> QED
          BY <4>4, FS_Interval
      <3> QED
        BY <3>1, <3>2, FS_Subset
    <2>3. IsFiniteSet(Range(at))
      BY <2>1, <2>2, FS_Subset
    <2>4. DOMAIN t.mem = DOMAIN heap \cup Range(at)
      BY <1>2
    <2> QED
      BY <1>4, <2>3, <2>4, FS_Union
  <1>10. StoreFits(Here) /\ CountsFit(Here)
    BY DEF StoredFits, AllFit
  <1>11. StoreFits(t)
    <2>1. \A c \in D : /\ Counted(heap[world.chunks[c]]) /\ heap[world.chunks[c]].solid > 0
                        /\ Placed(heap[world.chunks[c]], c)
      BY <1>10, HereIs DEF StoreFits
    <2> QED
      BY <1>1, <1>2, <1>7, <1>9, <2>1 DEF StoreFits
  <1>12. \A p \in Positions : CellAt(t.mem, t.store, p) = CellAt(heap, world, p)
    BY <1>1, <1>2, <1>7 DEF CellAt
  <1>13. Contents(t.mem, t.store) = Contents(heap, world)
    BY <1>12 DEF Contents
  <1>14. CountsFit(t)
    BY <1>2, <1>10, <1>13, HereIs DEF CountsFit
  <1>15. OthersFit(t, Readers)
    BY <1>4, <1>8, ReadersAre DEF OthersFit
  <1>16. AllFit(t, Readers)
    BY <1>11, <1>14, <1>15 DEF AllFit
  <1>17. \A p \in Positions : InPlace(t, p) = cells[p]
    BY <1>12, HereIs DEF StoredFits, InPlace
  <1>18. \A a \in ReaderAddresses : t.mem[a] = heap[a]
    BY <1>4, <1>8
  <1>19. Some(observed) => Watched(observed, t.store) /\ Gone(observed, t.store)
    <2> SUFFICES ASSUME Some(observed) PROVE Watched(observed, t.store) /\ Gone(observed, t.store)
      OBVIOUS
    <2>1. IsObservation(observed) /\ Seen(observed, Readers)
      BY ObservedIsSeen DEF ObservedFits
    <2>2. CASE observed.occupied
      <3>1. observed.token \in DOMAIN heap
        BY <1>4, <2>1, <2>2, ReadersAre DEF Seen
      <3> QED
        BY <1>1, <1>2, <1>6, <2>2, <3>1 DEF Watched, Gone
    <2>3. CASE ~observed.occupied
      <3>1. observed.token \in ReaderEpochs
        BY <2>1, <2>3, ReadersAre DEF Seen
      <3>2. IsFiniteSet(ReaderEpochs \cup {world.epoch})
        BY ReadersAre, FS_AddElement
      <3>3. NewEpoch(world, Readers) # observed.token
        BY <3>1, <3>2, ReadersAre, FreshIsFree DEF NewEpoch
      <3> QED
        BY <1>2, <2>3, <3>3 DEF Watched, Gone
    <2> QED
      BY <2>2, <2>3
  <1> QED
    BY <1>16, <1>17, <1>18, <1>19 DEF t

LEMMA RehouseKeeps ==
  ASSUME GeometryInv, Rehouse, UNCHANGED <<snapshot, observed, prepared, checkpoint, cells>>
  PROVE  GeometryInv'
  <1>1. PICK at \in Injection(DOMAIN world.chunks, Spare) : Commits(Housed(Rehoused(at)))
    BY DEF Rehouse
  <1>2. StoredFits /\ ObservedFits /\ cells \in [Positions -> Cell]
    BY InvParts
  <1> DEFINE u == Rehoused(at)
             t == Housed(u)
  <1>3. /\ AllFit(u, Readers)
        /\ \A p \in Positions : InPlace(u, p) = cells[p]
        /\ \A a \in ReaderAddresses : u.mem[a] = heap[a]
        /\ Some(observed) => Watched(observed, u.store) /\ Gone(observed, u.store)
    BY <1>2, RehousedFits
  <1> HIDE DEF u
  <1>4. /\ AllFit(t, Readers) /\ t.store = u.store
        /\ \A p \in Positions : InPlace(t, p) = InPlace(u, p)
        /\ \A a \in ReaderAddresses : t.mem[a] = u.mem[a]
    BY <1>3, ReadersAre, HousedFits
  <1>5. heap' = t.mem /\ world' = t.store
    BY <1>1 DEF Commits, u
  <1> HIDE DEF t
  <1>6. observed' = IF Some(observed) THEN [observed EXCEPT !.touched = @ \/ FALSE] ELSE observed
    <2>1. CASE Some(observed)
      <3>1. PICK c, k : \E b, w \in BOOLEAN :
              observed = [chunk |-> c, occupied |-> b, token |-> k, touched |-> w]
        BY <1>2, <2>1 DEF ObservedFits, IsObservation
      <3>2. PICK b \in BOOLEAN, w \in BOOLEAN :
              observed = [chunk |-> c, occupied |-> b, token |-> k, touched |-> w]
        BY <3>1
      <3>3. [observed EXCEPT !.touched = @ \/ FALSE] = observed
        BY <3>2
      <3> QED
        BY <2>1, <3>3
    <2>2. CASE ~Some(observed)
      BY <2>2
    <2> QED
      BY <2>1, <2>2
  <1>7. Replaces(t, FALSE)
    BY <1>2, <1>3, <1>4, <1>5, <1>6 DEF Replaces
  <1>8. FALSE \in BOOLEAN
    OBVIOUS
  <1> QED
    BY <1>7, <1>8, KeepsInv

LEMMA PrepareKeeps ==
  ASSUME GeometryInv, Prepare
  PROVE  GeometryInv'
  <1>0. PICK order \in Orders : \E after \in [DOMAIN order -> Cell] :
          LET changes == ChangesAt(order, [i \in DOMAIN order |-> cells[order[i]]], after)
          IN prepared' = [sequence |-> next, before |-> world.hash, after |-> HashAfter(changes),
                          changes |-> changes, cells |-> cells]
    BY DEF Prepare
  <1>1. PICK after \in [DOMAIN order -> Cell] :
          prepared' = [sequence |-> next, before |-> world.hash,
                       after |-> HashAfter(ChangesAt(order, [i \in DOMAIN order |-> cells[order[i]]], after)),
                       changes |-> ChangesAt(order, [i \in DOMAIN order |-> cells[order[i]]], after),
                       cells |-> cells]
    BY <1>0
  <1>2. UNCHANGED <<heap, world, snapshot, observed, checkpoint, cells>>
    BY DEF Prepare
  <1>3. StoredFits /\ SnapshotFits /\ ObservedFits /\ CheckpointFits
    BY InvParts
  <1>4. (StoredFits /\ SnapshotFits /\ ObservedFits /\ CheckpointFits)'
    BY <1>2, <1>3 DEF StoredFits, SnapshotFits, ObservedFits, CheckpointFits, Here, Readers,
                      ReaderAddresses, ReaderEpochs
  <1> DEFINE before == [i \in DOMAIN order |-> cells[order[i]]]
  <1>5. cells \in [Positions -> Cell]
    BY InvParts
  <1>6. before \in [DOMAIN order -> Cell]
    BY <1>5, OrderIsDistinct
  <1> HIDE DEF before
  <1>7. ChangesFit(ChangesAt(order, before, after))
    BY <1>6, ChangesAreFit
  <1>8. /\ prepared'.changes = ChangesAt(order, before, after)
        /\ prepared'.cells = cells /\ prepared'.before = world.hash
    BY <1>1 DEF before
  <1>9. PreparedFits'
    BY <1>3, <1>5, <1>7, <1>8, HashIsTokens DEF PreparedFits
  <1> QED
    BY <1>4, <1>9 DEF GeometryInv

(* What others hold while a candidate is made.                             *)
LEMMA FitsForCandidates ==
  ASSUME StoredFits
  PROVE  /\ WithSelf.addresses = ReaderAddresses \cup Addresses(world)
         /\ OthersFit(Here, WithSelf) /\ AllFit(Here, WithSelf)
         /\ \A o : Seen(o, Readers) => Seen(o, WithSelf)
  <1>1. /\ WithSelf.addresses = ReaderAddresses \cup Addresses(world)
        /\ WithSelf.epochs = ReaderEpochs \cup {world.epoch}
    BY DEF WithSelf
  <1>2. IsFiniteSet(WithSelf.epochs)
    BY <1>1, ReadersAre, FS_AddElement
  <1>3. OthersFit(Here, WithSelf)
    BY <1>1, <1>2, HereIs, StoresWhatIsHeld DEF OthersFit
  <1>4. StoreFits(Here) /\ CountsFit(Here)
    BY DEF StoredFits, AllFit
  <1>5. \A o : Seen(o, Readers) => Seen(o, WithSelf)
    BY <1>1, ReadersAre DEF Seen
  <1> QED
    BY <1>1, <1>3, <1>4, <1>5 DEF AllFit

(* Fingerprints with no collisions: tokens determine what is there.        *)
LEMMA TokensTellContents ==
  ASSUME NEW f \in [Positions -> Cell], NEW g \in [Positions -> Cell],
         TokensOf(f) = TokensOf(g)
  PROVE  f = g
  <1>1. \A x : x \in TokensOf(f) <=> \E q \in Positions : f[q] # Void /\ x = <<q, f[q]>>
    BY DEF TokensOf, Token
  <1>2. \A x : x \in TokensOf(g) <=> \E q \in Positions : g[q] # Void /\ x = <<q, g[q]>>
    BY DEF TokensOf, Token
  <1> SUFFICES ASSUME NEW p \in Positions PROVE f[p] = g[p]
    OBVIOUS
  <1>3. CASE f[p] # Void
    <2>1. <<p, f[p]>> \in TokensOf(g)
      BY <1>1, <1>3
    <2> QED
      BY <1>2, <2>1
  <1>4. CASE g[p] # Void
    <2>1. <<p, g[p]>> \in TokensOf(f)
      BY <1>2, <1>4
    <2> QED
      BY <1>1, <2>1
  <1> QED
    BY <1>3, <1>4

(* apply_changes: real changes, removed and then inserted, make the state  *)
(* that all the changes ask for.                                           *)
LEMMA CandidateLeads ==
  ASSUME NEW others, AllFit(Here, others), NEW changes, ChangesFit(changes), BeforeHolds(changes),
         NEW t, t = AllWritten(AllWritten(Here, others, Removal(Real(changes))), others,
                               Forth(Real(changes)))
  PROVE  Leads(Here, t, others, changes)
  <1> DEFINE real == Real(changes)
             away == Removal(real)
             u == AllWritten(Here, others, away)
  <1>1. IsReal(real, changes)
    BY RealIsReal
  <1> HIDE DEF real
  <1>2. ChangesFit(real)
    BY <1>1 DEF IsReal
  <1>3. /\ WritesAt(away) /\ Len(away) = Len(real)
        /\ \A i \in 1..Len(real) : away[i][1] = real[i].at /\ away[i][2] = Void
    BY <1>2, RemovalWrites
  <1> HIDE DEF away
  <1>4. Lands(Here, u, others, away)
    BY <1>3, WritesLand
  <1>5. t = AllWritten(u, others, Forth(real))
    BY DEF real, away
  <1> HIDE DEF u
  <1>6. Sofar(Here, u, others, away, Len(real))
    BY <1>3, <1>4 DEF Lands
  <1>7. Leads(u, t, others, real)
    BY <1>2, <1>5, <1>6, ForthLeads DEF Sofar
  <1>8. \A i \in 1..Len(changes) : InPlace(Here, changes[i].at) = changes[i].before
    BY TypesOfChanges DEF BeforeHolds, Here, InPlace
  <1>9. \A i \in 1..Len(real) : InPlace(u, real[i].at) = Void
    BY <1>3, <1>6 DEF Sofar
  <1>10. \A q \in Positions :
           (\A i \in 1..Len(real) : real[i].at # q) => InPlace(t, q) = InPlace(Here, q)
    <2> SUFFICES ASSUME NEW q \in Positions, \A i \in 1..Len(real) : real[i].at # q
                 PROVE  InPlace(t, q) = InPlace(Here, q)
      OBVIOUS
    <2>1. InPlace(u, q) = InPlace(Here, q)
      BY <1>3, <1>6 DEF Sofar
    <2>2. InPlace(t, q) = InPlace(u, q)
      BY <1>7 DEF Leads
    <2> QED
      BY <2>1, <2>2
  <1>11. \A j \in 1..Len(changes) : InPlace(t, changes[j].at) = changes[j].after
    <2> TAKE j \in 1..Len(changes)
    <2>1. CASE changes[j].before # changes[j].after
      <3>1. PICK i \in 1..Len(real) : real[i] = changes[j]
        BY <1>1, <2>1 DEF IsReal
      <3>2. InPlace(t, real[i].at) = real[i].after
        BY <1>7 DEF Leads
      <3> QED
        BY <3>1, <3>2
    <2>2. CASE changes[j].before = changes[j].after
      <3>1. \A i \in 1..Len(real) : real[i].at # changes[j].at
        <4> SUFFICES ASSUME NEW i \in 1..Len(real), real[i].at = changes[j].at
                     PROVE  FALSE
          OBVIOUS
        <4>1. PICK k \in 1..Len(changes) :
                real[i] = changes[k] /\ changes[k].before # changes[k].after
          BY <1>1 DEF IsReal
        <4>2. k = j
          BY <4>1 DEF ChangesFit
        <4> QED
          BY <2>2, <4>1, <4>2
      <3>2. changes[j].at \in Positions
        BY TypesOfChanges
      <3> QED
        BY <1>8, <1>10, <2>2, <3>1, <3>2
    <2> QED
      BY <2>1, <2>2
  <1>12. \A q \in Positions :
           (\A j \in 1..Len(changes) : changes[j].at # q) => InPlace(t, q) = InPlace(Here, q)
    <2> SUFFICES ASSUME NEW q \in Positions, \A j \in 1..Len(changes) : changes[j].at # q
                 PROVE  InPlace(t, q) = InPlace(Here, q)
      OBVIOUS
    <2>1. \A i \in 1..Len(real) : real[i].at # q
      BY <1>1 DEF IsReal
    <2> QED
      BY <1>10, <2>1
  <1>13. ASSUME NEW o, Seen(o, others), Watched(o, Here.store)
         PROVE  /\ Watched(o, t.store)
                /\ Gone(o, Here.store) => Gone(o, t.store)
                /\ \A j \in 1..Len(changes) :
                     ChunkOf(changes[j].at) = o.chunk
                     /\ InPlace(Here, changes[j].at) # changes[j].after
                       => Gone(o, t.store)
    <2>1. Aged(o, Here, u, away, Len(real))
      BY <1>3, <1>4, <1>13 DEF Lands
    <2>2. /\ Watched(o, u.store)
          /\ Gone(o, Here.store) => Gone(o, u.store)
          /\ \A i \in 1..Len(real) :
               ChunkOf(real[i].at) = o.chunk /\ InPlace(Here, real[i].at) # Void
                 => Gone(o, u.store)
      BY <1>3, <2>1 DEF Aged
    <2>3. /\ Watched(o, t.store)
          /\ Gone(o, u.store) => Gone(o, t.store)
          /\ \A i \in 1..Len(real) :
               ChunkOf(real[i].at) = o.chunk /\ InPlace(u, real[i].at) # real[i].after
                 => Gone(o, t.store)
      BY <1>7, <1>13, <2>2 DEF Leads
    <2>4. ASSUME NEW j \in 1..Len(changes), ChunkOf(changes[j].at) = o.chunk,
                 InPlace(Here, changes[j].at) # changes[j].after
          PROVE  Gone(o, t.store)
      <3>1. changes[j].before # changes[j].after /\ InPlace(Here, changes[j].at) = changes[j].before
        BY <1>8, <2>4
      <3>2. PICK i \in 1..Len(real) : real[i] = changes[j]
        BY <1>1, <3>1 DEF IsReal
      <3>3. CASE changes[j].before # Void
        BY <2>2, <2>3, <2>4, <3>1, <3>2, <3>3
      <3>4. CASE changes[j].before = Void
        BY <1>9, <2>3, <2>4, <3>1, <3>2, <3>4
      <3> QED
        BY <3>3, <3>4
    <2> QED
      BY <2>2, <2>3, <2>4
  <1>14. AllFit(t, others)
    BY <1>7 DEF Leads
  <1>15. \A a \in others.addresses : t.mem[a] = Here.mem[a]
    BY <1>6, <1>7 DEF Leads, Sofar
  <1> QED
    BY <1>11, <1>12, <1>13, <1>14, <1>15 DEF Leads

LEMMA ApplyKeeps ==
  ASSUME GeometryInv, Apply
  PROVE  GeometryInv'
  <1> DEFINE changes == prepared.changes
             u == Candidate(changes)
             t == Housed(u)
             written == \E q \in Sites(Real(changes)) : ChunkOf(q) = observed.chunk
  <1>1. /\ Some(prepared) /\ prepared.before = world.hash /\ BeforeHolds(changes)
        /\ heap' = t.mem /\ world' = t.store
        /\ observed' = IF Some(observed)
                       THEN [observed EXCEPT !.touched = @ \/ written] ELSE observed
        /\ cells' = Changed(prepared.cells, changes)
        /\ UNCHANGED <<snapshot, prepared, checkpoint>>
    <2>1. /\ Some(prepared) /\ prepared.before = world.hash /\ Validates(changes)
          /\ Commits(t) /\ Touches(Sites(Real(changes)))
          /\ cells' = Changed(prepared.cells, changes)
          /\ UNCHANGED <<snapshot, prepared, checkpoint>>
      BY DEF Apply
    <2> HIDE DEF changes, u, t
    <2> QED
      BY <2>1 DEF Commits, Touches, Validates
  <1>2. /\ ChangesFit(changes) /\ prepared.cells \in [Positions -> Cell]
        /\ prepared.before = TokensOf(prepared.cells)
    BY <1>1, InvParts DEF PreparedFits
  <1>3. /\ StoredFits /\ cells \in [Positions -> Cell]
        /\ \A q \in Positions : InPlace(Here, q) = cells[q]
    BY InvParts
  <1>4. prepared.cells = cells
    BY <1>1, <1>2, <1>3, HashIsTokens, TokensTellContents
  <1>5. /\ WithSelf.addresses = ReaderAddresses \cup Addresses(world)
        /\ AllFit(Here, WithSelf)
        /\ \A o : Seen(o, Readers) => Seen(o, WithSelf)
    BY <1>3, FitsForCandidates
  <1>6. u = AllWritten(AllWritten(Here, WithSelf, Removal(Real(changes))), WithSelf,
                       Forth(Real(changes)))
    BY DEF Candidate
  <1> HIDE DEF u
  <1>7. Leads(Here, u, WithSelf, changes)
    BY <1>1, <1>2, <1>5, <1>6, CandidateLeads
  <1>8. AllFit(u, WithSelf) /\ ReaderAddresses \subseteq WithSelf.addresses
    BY <1>5, <1>7 DEF Leads
  <1>9. /\ AllFit(t, Readers) /\ t.store = u.store
        /\ \A q \in Positions : InPlace(t, q) = InPlace(u, q)
        /\ \A a \in ReaderAddresses : t.mem[a] = u.mem[a]
    BY <1>8, HousedFits
  <1> HIDE DEF t
  <1>10. \A a \in ReaderAddresses : t.mem[a] = heap[a]
    BY <1>7, <1>8, <1>9, HereIs DEF Leads
  <1>11. /\ Changed(cells, changes) \in [Positions -> Cell]
         /\ \A i \in 1..Len(changes) : Changed(cells, changes)[changes[i].at] = changes[i].after
         /\ \A q \in Positions :
              (\A i \in 1..Len(changes) : changes[i].at # q) => Changed(cells, changes)[q] = cells[q]
    BY <1>2, <1>3, ChangedIs
  <1>12. \A q \in Positions : InPlace(t, q) = cells'[q]
    <2> TAKE q \in Positions
    <2>1. InPlace(t, q) = InPlace(u, q) /\ cells'[q] = Changed(cells, changes)[q]
      BY <1>1, <1>4, <1>9
    <2>2. CASE \E i \in 1..Len(changes) : changes[i].at = q
      BY <1>7, <1>11, <2>1, <2>2 DEF Leads
    <2>3. CASE \A i \in 1..Len(changes) : changes[i].at # q
      BY <1>3, <1>7, <1>11, <2>1, <2>3 DEF Leads
    <2> QED
      BY <2>2, <2>3
  <1>13. \A i \in 1..Len(changes) : InPlace(Here, changes[i].at) = changes[i].before
    BY <1>1, <1>2, TypesOfChanges DEF BeforeHolds, Here, InPlace
  <1>14. Some(observed) => /\ Watched(observed, t.store)
                           /\ observed.touched \/ written => Gone(observed, t.store)
    <2> SUFFICES ASSUME Some(observed)
                 PROVE  /\ Watched(observed, t.store)
                        /\ observed.touched \/ written => Gone(observed, t.store)
      OBVIOUS
    <2>1. /\ Seen(observed, WithSelf) /\ Watched(observed, Here.store)
          /\ observed.touched => Gone(observed, Here.store)
      BY <1>5, InvParts
    <2>2. written => \E i \in 1..Len(changes) :
                       /\ ChunkOf(changes[i].at) = observed.chunk
                       /\ InPlace(Here, changes[i].at) # changes[i].after
      BY <1>2, <1>13, SitesChange
    <2> HIDE DEF written
    <2>3. /\ Watched(observed, u.store)
          /\ observed.touched \/ written => Gone(observed, u.store)
      BY <1>7, <2>1, <2>2 DEF Leads
    <2> QED
      BY <1>9, <2>3
  <1>15. written \in BOOLEAN
    OBVIOUS
  <1> HIDE DEF written
  <1>16. Replaces(t, written)
    BY <1>1, <1>4, <1>9, <1>10, <1>11, <1>12, <1>14 DEF Replaces
  <1> QED
    BY <1>1, <1>15, <1>16, KeepsInv

-----------------------------------------------------------------------------
(* A finite set of positions can be put in order.                          *)

LEMMA GreatestExists ==
  ASSUME NEW S, S \subseteq Int, IsFiniteSet(S), S # {}
  PROVE  \E m \in S : \A j \in S : j <= m
  <1> DEFINE Bad == {n \in Nat : \E T \in SUBSET Int :
                       /\ IsFiniteSet(T) /\ Cardinality(T) = n /\ T # {}
                       /\ ~\E m \in T : \A j \in T : j <= m}
  <1>1. Bad = {}
    <2> SUFFICES ASSUME Bad # {} PROVE FALSE
      OBVIOUS
    <2>1. Bad \subseteq Nat
      OBVIOUS
    <2> HIDE DEF Bad
    <2>2. PICK n \in Bad : \A k \in Bad : n <= k
      BY <2>1, LeastOfNaturals
    <2>3. PICK T \in SUBSET Int : /\ IsFiniteSet(T) /\ Cardinality(T) = n /\ T # {}
                                  /\ ~\E m \in T : \A j \in T : j <= m
      BY <2>2 DEF Bad
    <2>4. PICK x \in T : TRUE
      BY <2>3
    <2> DEFINE R == T \ {x}
    <2>5. IsFiniteSet(R) /\ Cardinality(R) = n - 1 /\ n \in Nat
      BY <2>3, <2>4, FS_RemoveElement, FS_CardinalityType
    <2>6. R \in SUBSET Int /\ x \in Int
      BY <2>3, <2>4
    <2>7. R # {}
      BY <2>3, <2>4, <2>6
    <2>8. Cardinality(R) \in Nat /\ ~(n <= Cardinality(R))
      BY <2>5, FS_CardinalityType
    <2>9. \E m \in R : \A j \in R : j <= m
      BY <2>2, <2>5, <2>6, <2>7, <2>8 DEF Bad
    <2>10. PICK m \in R : \A j \in R : j <= m
      BY <2>9
    <2>11. m \in T /\ m \in Int /\ \A j \in T : j = x \/ j \in R
      BY <2>6, <2>10
    <2> HIDE DEF R
    <2>12. CASE m <= x
      <3>1. \A j \in T : j <= x
        BY <2>3, <2>6, <2>10, <2>11, <2>12
      <3> QED
        BY <2>3, <2>4, <3>1
    <2>13. CASE x <= m
      <3>1. \A j \in T : j <= m
        BY <2>10, <2>11, <2>13
      <3> QED
        BY <2>3, <2>11, <3>1
    <2> QED
      BY <2>6, <2>11, <2>12, <2>13
  <1>2. Cardinality(S) \in Nat
    BY FS_CardinalityType
  <1> QED
    BY <1>1, <1>2

Listed(q, S) ==
  /\ q \in [1..Cardinality(S) -> S]
  /\ \A i, j \in 1..Cardinality(S) : i < j => q[i] < q[j]
  /\ \A p \in S : \E i \in 1..Cardinality(S) : q[i] = p

LEMMA ListExists ==
  ASSUME NEW S, S \subseteq Int, IsFiniteSet(S)
  PROVE  \E q : Listed(q, S)
  <1> DEFINE Bad == {n \in Nat : \E T \in SUBSET Int :
                       IsFiniteSet(T) /\ Cardinality(T) = n /\ ~\E q : Listed(q, T)}
  <1>1. Bad = {}
    <2> SUFFICES ASSUME Bad # {} PROVE FALSE
      OBVIOUS
    <2>1. Bad \subseteq Nat
      OBVIOUS
    <2> HIDE DEF Bad
    <2>2. PICK n \in Bad : \A k \in Bad : n <= k
      BY <2>1, LeastOfNaturals
    <2>3. PICK T \in SUBSET Int :
            IsFiniteSet(T) /\ Cardinality(T) = n /\ ~\E q : Listed(q, T)
      BY <2>2 DEF Bad
    <2>4. T # {}
      <3> SUFFICES ASSUME T = {} PROVE FALSE
        OBVIOUS
      <3>1. Cardinality(T) = 0 /\ 1..0 = {}
        BY FS_EmptySet
      <3> DEFINE q == [i \in {} |-> 0]
      <3>2. q \in [1..Cardinality(T) -> T]
        BY <3>1
      <3> HIDE DEF q
      <3>3. Listed(q, T)
        BY <3>1, <3>2 DEF Listed
      <3> QED
        BY <2>3, <3>3
    <2>5. PICK m \in T : \A j \in T : j <= m
      BY <2>3, <2>4, GreatestExists
    <2> DEFINE R == T \ {m}
    <2>6. IsFiniteSet(R) /\ Cardinality(R) = n - 1 /\ n \in Nat /\ Cardinality(R) \in Nat
      BY <2>3, <2>5, FS_RemoveElement, FS_CardinalityType
    <2>7. R \in SUBSET Int /\ m \in Int /\ \A j \in R : j \in T /\ j < m
      BY <2>3, <2>5
    <2>8. \A j \in T : j = m \/ j \in R
      OBVIOUS
    <2>9. ~(n <= Cardinality(R))
      BY <2>6
    <2>10. \E q : Listed(q, R)
      BY <2>2, <2>6, <2>7, <2>9 DEF Bad
    <2>11. PICK r : Listed(r, R)
      BY <2>10
    <2> HIDE DEF R
    <2> DEFINE q == [i \in 1..n |-> IF i = n THEN m ELSE r[i]]
    <2>12. \A i \in 1..n : i = n \/ (i \in 1..Cardinality(R) /\ i # n)
      BY <2>6
    <2>13. n \in 1..n /\ \A i \in 1..Cardinality(R) : i \in 1..n /\ i # n
      BY <2>6, <2>9
    <2>14. q[n] = m /\ \A i \in 1..Cardinality(R) : q[i] = r[i] /\ r[i] \in R
      BY <2>11, <2>13 DEF Listed
    <2>15. \A i \in 1..n : q[i] \in T
      BY <2>5, <2>7, <2>12, <2>14
    <2>16. q \in [1..n -> T]
      BY <2>15
    <2> HIDE DEF q
    <2>17. \A i, j \in 1..n : i < j => q[i] < q[j]
      <3> SUFFICES ASSUME NEW i \in 1..n, NEW j \in 1..n, i < j PROVE q[i] < q[j]
        OBVIOUS
      <3>1. i \in 1..Cardinality(R)
        BY <2>6, <2>12
      <3>2. CASE j = n
        BY <2>7, <2>14, <3>1, <3>2
      <3>3. CASE j \in 1..Cardinality(R)
        BY <2>11, <2>14, <3>1, <3>3 DEF Listed
      <3> QED
        BY <2>12, <3>2, <3>3
    <2>18. \A p \in T : \E i \in 1..n : q[i] = p
      <3> TAKE p \in T
      <3>1. CASE p = m
        BY <2>13, <2>14, <3>1
      <3>2. CASE p \in R
        <4>1. PICK i \in 1..Cardinality(R) : r[i] = p
          BY <2>11, <3>2 DEF Listed
        <4> QED
          BY <2>13, <2>14, <4>1
      <3> QED
        BY <2>8, <3>1, <3>2
    <2>19. Listed(q, T)
      BY <2>3, <2>16, <2>17, <2>18 DEF Listed
    <2> QED
      BY <2>3, <2>19
  <1>2. Cardinality(S) \in Nat
    BY FS_CardinalityType
  <1> QED
    BY <1>1, <1>2

LEMMA OrderExists ==
  ASSUME NEW S \in SUBSET Positions
  PROVE  \E q \in Orders : Range(q) = S
  <1>1. IsFiniteSet(S) /\ S \subseteq Int /\ Cardinality(S) \in Nat
        /\ Cardinality(Positions) \in Nat /\ Cardinality(S) <= Cardinality(Positions)
    BY Sizes, FS_Subset, FS_CardinalityType
  <1>2. PICK q : Listed(q, S)
    BY <1>1, ListExists
  <1>3. q \in [1..Cardinality(S) -> Positions] /\ DOMAIN q = 1..Cardinality(S)
    BY <1>2 DEF Listed
  <1>4. Cardinality(S) \in 0..Cardinality(Positions)
    BY <1>1
  <1>5. q \in SeqOf(Positions, Cardinality(Positions))
    BY <1>3, <1>4 DEF SeqOf
  <1>6. q \in Orders
    BY <1>2, <1>3, <1>5 DEF Orders, Listed
  <1>7. Range(q) = S
    BY <1>2, <1>3 DEF Range, Listed
  <1> QED
    BY <1>6, <1>7

-----------------------------------------------------------------------------
(* What is recorded of a state makes its cells.                            *)
LEMMA RecordsMake ==
  ASSUME StoredFits
  PROVE  Makes(Records, cells)
  <1>2. cells \in [Positions -> Cell] /\ \A q \in Positions : InPlace(Here, q) = cells[q]
    BY DEF StoredFits
  <1> DEFINE order == CHOOSE q \in Orders : Range(q) = CellsOf(world)
             m == Len(order)
  <1>5. order \in Orders /\ Range(order) = CellsOf(world)
    <2>1. CellsOf(world) \in SUBSET Positions
      BY DEF CellsOf
    <2> QED
      BY <2>1, OrderExists
  <1>6. Records = [i \in DOMAIN order |-> <<order[i], CellAt(heap, world, order[i])>>]
    BY DEF Records
  <1> HIDE DEF order
  <1>7. /\ m \in Nat /\ DOMAIN order = 1..m /\ order \in [1..m -> Positions]
        /\ \A i, j \in 1..m : order[i] = order[j] => i = j
    BY <1>5, OrderIsDistinct
  <1> HIDE DEF m
  <1>8. \A i \in 1..m : order[i] \in Positions /\ CellAt(heap, world, order[i]) = cells[order[i]]
    BY <1>2, <1>7, HereIs DEF InPlace
  <1> DEFINE listed == Records
  <1>9. listed = [i \in 1..m |-> <<order[i], cells[order[i]]>>]
    BY <1>6, <1>7, <1>8
  <1> HIDE DEF listed
  <1>10. listed \in [1..m -> Positions \X Cell]
    BY <1>2, <1>8, <1>9
  <1>11. listed \in Seq(Positions \X Cell) /\ Len(listed) = m
    BY <1>7, <1>10
  <1>12. \A i \in 1..m : listed[i][1] = order[i] /\ listed[i][2] = cells[order[i]]
    BY <1>9
  <1>13. WritesAt(listed)
    BY <1>2, <1>7, <1>8, <1>11, <1>12 DEF WritesAt
  <1>14. \A i \in 1..m : cells[listed[i][1]] = listed[i][2]
    BY <1>12
  <1>15. \A q \in Positions : (\A i \in 1..m : listed[i][1] # q) => cells[q] = Void
    <2> SUFFICES ASSUME NEW q \in Positions, cells[q] # Void
                 PROVE  \E i \in 1..m : listed[i][1] = q
      OBVIOUS
    <2>1. q \in CellsOf(world)
      BY <1>2, HereIs DEF CellsOf, InPlace
    <2>2. PICK i \in 1..m : order[i] = q
      BY <1>5, <1>7, <2>1 DEF Range
    <2> QED
      BY <1>12, <2>2
  <1> QED
    BY <1>2, <1>11, <1>13, <1>14, <1>15 DEF Makes, listed

LEMMA EncodeCheckpointKeeps ==
  ASSUME GeometryInv, EncodeCheckpoint
  PROVE  GeometryInv'
  <1>1. /\ checkpoint'.records = Records /\ checkpoint'.cells = cells
        /\ UNCHANGED <<heap, world, snapshot, observed, prepared, cells>>
    BY DEF EncodeCheckpoint
  <1>2. StoredFits /\ SnapshotFits /\ ObservedFits /\ PreparedFits
    BY InvParts
  <1>3. (StoredFits /\ SnapshotFits /\ ObservedFits /\ PreparedFits)'
    BY <1>1, <1>2 DEF StoredFits, SnapshotFits, ObservedFits, PreparedFits, Here, Readers,
                      ReaderAddresses, ReaderEpochs
  <1>4. Makes(Records, cells)
    BY <1>2, RecordsMake
  <1>5. CheckpointFits'
    BY <1>1, <1>4 DEF CheckpointFits
  <1> QED
    BY <1>3, <1>5 DEF GeometryInv

(* A world without a chunk.                                                *)
LEMMA EmptyFits ==
  ASSUME NEW s, NEW others, DOMAIN s.store.chunks = {}, s.store.solid = 0, s.store.hash = {},
         IsFiniteSet(DOMAIN s.mem), OthersFit(s, others)
  PROVE  AllFit(s, others) /\ \A p \in Positions : InPlace(s, p) = Void
  <1>1. \A p \in Positions : InPlace(s, p) = Void
    BY DEF InPlace, CellAt
  <1>2. \A p \in Positions : Contents(s.mem, s.store)[p] = Void
    BY <1>1 DEF InPlace, Contents
  <1>3. SolidsAmong(Positions, Contents(s.mem, s.store)) = {}
    BY <1>2 DEF SolidsAmong
  <1>4. TokensOf(Contents(s.mem, s.store)) = {}
    BY <1>2 DEF TokensOf, Token
  <1>5. CountsFit(s)
    BY <1>3, <1>4, FS_EmptySet DEF CountsFit
  <1>6. StoreFits(s)
    BY DEF StoreFits
  <1> QED
    BY <1>1, <1>5, <1>6 DEF AllFit

(* What is read back beside a state is what was recorded.                  *)
Blank == [mem |-> heap, store |-> [EmptyStore EXCEPT !.epoch = NewEpoch(world, Readers)]]

ReadBack(listed, filled) ==
  /\ AllFit(Decoded(listed), WithSelf)
  /\ Lands(Blank, Decoded(listed), WithSelf, listed)
  /\ \A q \in Positions : InPlace(Decoded(listed), q) = filled[q]
  /\ \A a \in ReaderAddresses : Decoded(listed).mem[a] = heap[a]

LEMMA BlankIs ==
  /\ Blank.mem = heap /\ DOMAIN Blank.store.chunks = {}
  /\ Blank.store.solid = 0 /\ Blank.store.hash = {}
  /\ Blank.store.epoch = NewEpoch(world, Readers)
  BY DEF EmptyStore, Blank

LEMMA RecordsAreReadBack ==
  ASSUME StoredFits, NEW listed, NEW filled, Makes(listed, filled)
  PROVE  ReadBack(listed, filled)
  <1> DEFINE s == Blank
             u == Decoded(listed)
  <1>1. WithSelf.addresses = ReaderAddresses \cup Addresses(world) /\ OthersFit(Here, WithSelf)
    BY FitsForCandidates
  <1>2. u = AllWritten(s, WithSelf, listed)
    BY DEF Decoded, Blank
  <1>3. /\ s.mem = heap /\ DOMAIN s.store.chunks = {}
        /\ s.store.solid = 0 /\ s.store.hash = {}
    BY BlankIs
  <1> HIDE DEF u, s
  <1>4. AllFit(s, WithSelf) /\ \A p \in Positions : InPlace(s, p) = Void
    <2>1. OthersFit(s, WithSelf) /\ IsFiniteSet(DOMAIN s.mem)
      BY <1>1, <1>3, HereIs, StoresWhatIsHeld DEF OthersFit
    <2> QED
      BY <1>3, <2>1, EmptyFits
  <1>5. Lands(s, u, WithSelf, listed)
    BY <1>2, <1>4, WritesLand DEF Makes
  <1>6. Sofar(s, u, WithSelf, listed, Len(listed))
    BY <1>5 DEF Lands
  <1>7. AllFit(u, WithSelf) /\ \A a \in ReaderAddresses : u.mem[a] = heap[a]
    BY <1>1, <1>3, <1>6 DEF Sofar
  <1>8. \A q \in Positions : InPlace(u, q) = filled[q]
    <2> TAKE q \in Positions
    <2>1. CASE \E i \in 1..Len(listed) : listed[i][1] = q
      BY <1>6, <2>1 DEF Sofar, Makes
    <2>2. CASE \A i \in 1..Len(listed) : listed[i][1] # q
      BY <1>4, <1>6, <2>2 DEF Sofar, Makes
    <2> QED
      BY <2>1, <2>2
  <1> QED
    BY <1>5, <1>7, <1>8 DEF ReadBack, u, s

LEMMA RestoreKeeps ==
  ASSUME GeometryInv, Restore
  PROVE  GeometryInv'
  <1> DEFINE listed == checkpoint.records
             u == Decoded(listed)
             t == Housed(u)
             written == \E q \in Positions : ChunkOf(q) = observed.chunk
  <1>1. /\ Some(checkpoint)
        /\ heap' = t.mem /\ world' = t.store
        /\ observed' = IF Some(observed)
                       THEN [observed EXCEPT !.touched = @ \/ written] ELSE observed
        /\ cells' = checkpoint.cells
        /\ UNCHANGED <<snapshot, prepared, checkpoint>>
    BY DEF Restore, Commits, Touches
  <1>2. StoredFits /\ Makes(listed, checkpoint.cells)
    BY <1>1, InvParts DEF CheckpointFits
  <1>3. /\ WithSelf.addresses = ReaderAddresses \cup Addresses(world)
        /\ \A o : Seen(o, Readers) => Seen(o, WithSelf)
    BY <1>2, FitsForCandidates
  <1> HIDE DEF listed
  <1>4. ReadBack(listed, checkpoint.cells)
    BY <1>2, RecordsAreReadBack
  <1>5. /\ AllFit(u, WithSelf) /\ ReaderAddresses \subseteq WithSelf.addresses
        /\ Lands(Blank, u, WithSelf, listed)
        /\ \A q \in Positions : InPlace(u, q) = checkpoint.cells[q]
        /\ \A a \in ReaderAddresses : u.mem[a] = heap[a]
    BY <1>3, <1>4 DEF ReadBack
  <1> HIDE DEF u
  <1>6. /\ AllFit(t, Readers) /\ t.store = u.store
        /\ \A q \in Positions : InPlace(t, q) = InPlace(u, q)
        /\ \A a \in ReaderAddresses : t.mem[a] = u.mem[a]
    BY <1>5, HousedFits
  <1> HIDE DEF t
  <1>7. Some(observed) => Watched(observed, t.store) /\ Gone(observed, t.store)
    <2> SUFFICES ASSUME Some(observed) PROVE Watched(observed, t.store) /\ Gone(observed, t.store)
      OBVIOUS
    <2>1. Seen(observed, Readers) /\ Seen(observed, WithSelf)
      BY <1>3, InvParts
    <2>2. Watched(observed, Blank.store) /\ Gone(observed, Blank.store)
      <3>1. CASE observed.occupied
        BY <3>1, BlankIs DEF Watched, Gone
      <3>2. CASE ~observed.occupied
        <4>1. observed.token \in ReaderEpochs
          BY <2>1, <3>2, ReadersAre DEF Seen
        <4>2. IsFiniteSet(ReaderEpochs \cup {world.epoch})
          BY ReadersAre, FS_AddElement
        <4>3. NewEpoch(world, Readers) # observed.token
          BY <4>1, <4>2, ReadersAre, FreshIsFree DEF NewEpoch
        <4> QED
          BY <3>2, <4>3, BlankIs DEF Watched, Gone
      <3> QED
        BY <3>1, <3>2
    <2>3. Aged(observed, Blank, u, listed, Len(listed))
      BY <1>5, <2>1, <2>2 DEF Lands
    <2> QED
      BY <1>6, <2>2, <2>3 DEF Aged
  <1>8. written \in BOOLEAN
    OBVIOUS
  <1> HIDE DEF written
  <1>9. Replaces(t, written)
    BY <1>1, <1>2, <1>5, <1>6, <1>7 DEF Replaces, Makes
  <1> QED
    BY <1>1, <1>8, <1>9, KeepsInv

LEMMA InitFits ==
  ASSUME GeometryInit
  PROVE  GeometryInv
  <1>1. /\ heap = <<>> /\ world = EmptyStore
        /\ ~Some(snapshot) /\ ~Some(observed) /\ ~Some(prepared) /\ ~Some(checkpoint)
        /\ cells = [p \in Positions |-> Void]
    BY DEF GeometryInit, Some
  <1>2. /\ DOMAIN Here.store.chunks = {} /\ Here.store.solid = 0 /\ Here.store.hash = {}
        /\ DOMAIN Here.mem = {}
    BY <1>1, HereIs DEF EmptyStore
  <1>3. IsFiniteSet(DOMAIN Here.mem)
    BY <1>2, FS_EmptySet
  <1>4. ReaderAddresses = {}
    BY <1>1 DEF ReaderAddresses
  <1>5. OthersFit(Here, Readers)
    BY <1>4, ReadersAre DEF OthersFit
  <1>6. AllFit(Here, Readers) /\ \A p \in Positions : InPlace(Here, p) = Void
    BY <1>2, <1>3, <1>5, EmptyFits
  <1>7. cells \in [Positions -> Cell] /\ \A p \in Positions : cells[p] = Void
    BY <1>1, Sizes
  <1>8. StoredFits
    BY <1>6, <1>7 DEF StoredFits
  <1> QED
    BY <1>1, <1>8 DEF GeometryInv, SnapshotFits, ObservedFits, PreparedFits, CheckpointFits

LEMMA StepKeeps ==
  ASSUME GeometryInv, [GeometryNext]_GeometryVars
  PROVE  GeometryInv'
  <1>1. CASE UNCHANGED GeometryVars
    BY <1>1 DEF GeometryVars, GeometryInv, StoredFits, SnapshotFits, ObservedFits, PreparedFits,
                CheckpointFits, Here, Readers, ReaderAddresses, ReaderEpochs
  <1>2. CASE Promote \/ Demote
    <2>1. Rehouse /\ UNCHANGED <<snapshot, observed, prepared, checkpoint, cells>>
      BY <1>2 DEF Promote, Demote
    <2> QED
      BY <2>1, RehouseKeeps
  <1> QED
    BY <1>1, <1>2, SetVoxelKeeps, ApplyCheckedKeeps, ObserveChunkKeeps, TakeSnapshotKeeps,
       LetGoKeeps, PrepareKeeps, ApplyKeeps, EncodeCheckpointKeeps, RestoreKeeps
    DEF GeometryNext

LEMMA ReadersFollow ==
  ASSUME GeometryInv
  PROVE  ReadersKeepWhatTheyTook
  <1>1. SnapshotFits /\ ObservedFits
    BY InvParts
  <1>2. Some(observed) /\ Matches => ~observed.touched
    <2> SUFFICES ASSUME Some(observed), Matches, observed.touched PROVE FALSE
      OBVIOUS
    <2>1. Gone(observed, world)
      BY <1>1 DEF ObservedFits
    <2> QED
      BY <2>1 DEF Gone, Matches
  <1> QED
    BY <1>1, <1>2 DEF SnapshotFits, ReadersKeepWhatTheyTook

LEMMA StorageFollows ==
  ASSUME GeometryInv
  PROVE  StorageIsExact
  <1>1. StoredFits
    BY InvParts
  <1>2. \A p \in Positions : CellAt(heap, world, p) = cells[p]
    BY <1>1, HereIs DEF StoredFits, InPlace
  <1>3. Contents(heap, world) = cells /\ world.hash = TokensOf(cells)
    BY <1>1, HashIsTokens
  <1>4. world.solid = Cardinality(SolidsAmong(Positions, cells))
    BY <1>1, <1>3, HereIs DEF StoredFits, AllFit, CountsFit
  <1>5. \A c \in DOMAIN world.chunks :
          Counted(heap[world.chunks[c]]) /\ heap[world.chunks[c]].solid > 0
    BY <1>1, HereIs DEF StoredFits, AllFit, StoreFits
  <1>6. ASSUME NEW chunk, Counted(chunk)
        PROVE  /\ chunk.solid = Cardinality({l \in DOMAIN chunk.cell : chunk.cell[l] # Void})
               /\ chunk.leaves = LeavesOf(chunk.cell)
    <2>1. DOMAIN chunk.cell = Locals
      BY <1>6 DEF Counted
    <2> QED
      BY <1>6, <2>1 DEF Counted, SolidsAmong
  <1> QED
    BY <1>2, <1>3, <1>4, <1>5, <1>6 DEF StorageIsExact, SolidsAmong, TokensOf

-----------------------------------------------------------------------------
(* A snapshot keeps the cells it was taken with, and an observation        *)
(* matches only while its chunk was never written, whatever is written,    *)
(* taken back, promoted, applied or restored meanwhile (world.rs:          *)
(* set_voxel, apply_checked, ChunkObservation::matches).                   *)
THEOREM ReadersAreIsolated == GeometrySpec => []ReadersKeepWhatTheyTook
  <1>1. GeometryInit => GeometryInv
    BY InitFits
  <1>2. GeometryInv /\ [GeometryNext]_GeometryVars => GeometryInv'
    BY StepKeeps
  <1>3. GeometryInv => ReadersKeepWhatTheyTook
    BY ReadersFollow
  <1> QED
    BY <1>1, <1>2, <1>3, PTL DEF GeometrySpec

(* The world holds what was last written, applied or restored, its         *)
(* counters and fingerprint are those of its cells, and no chunk is empty  *)
(* (world.rs: set_voxel; geometry.rs: set_cell, apply_changes).            *)
THEOREM CountersAreExact == GeometrySpec => []StorageIsExact
  <1>1. GeometryInit => GeometryInv
    BY InitFits
  <1>2. GeometryInv /\ [GeometryNext]_GeometryVars => GeometryInv'
    BY StepKeeps
  <1>3. GeometryInv => StorageIsExact
    BY StorageFollows
  <1> QED
    BY <1>1, <1>2, <1>3, PTL DEF GeometrySpec

-----------------------------------------------------------------------------
(* The residency of a state is that of its cells.                          *)

StatsFor(filled) ==
  [chunks |-> Cardinality({ChunkOf(p) : p \in SolidsAmong(Positions, filled)}),
   occupied |-> Cardinality(SolidsAmong(Positions, filled)),
   pages |-> Total([p \in Positions |-> Paged(filled[p])]),
   leaves |-> Total([p \in Positions |-> LeavesIn(filled[p])])]

(* A count of cells that does not count those that are void.               *)
Counting(w) == w \in Weights(Cell) /\ w[Void] = 0

LEMMA CountingWeights ==
  /\ Counting([v \in Cell |-> Occupied(v)])
  /\ Counting([v \in Cell |-> Paged(v)])
  /\ Counting([v \in Cell |-> LeavesIn(v)])
  <1>1. Void \in Cell /\ Void \notin Refined
    BY Sizes, GeometryAssumption DEF GeometryAssumption
  <1>2. \A v \in Cell : Occupied(v) \in Nat /\ Paged(v) \in Nat /\ LeavesIn(v) \in Nat
    BY Sizes DEF Occupied, Paged
  <1>3. Occupied(Void) = 0 /\ Paged(Void) = 0 /\ LeavesIn(Void) = 0
    BY <1>1 DEF Occupied, Paged, LeavesIn
  <1> QED
    BY <1>1, <1>2, <1>3 DEF Counting, Weights

(* What the cells of a chunk come to.                                      *)
Row(chunk, w) == [l \in Locals |-> w[chunk.cell[l]]]
ChunkAt(s, c) == s.mem[s.store.chunks[c]]

LEMMA RowIs ==
  ASSUME NEW chunk, chunk.cell \in [Locals -> Cell], NEW w, Counting(w)
  PROVE  /\ Row(chunk, w) \in Weights(Locals) /\ DOMAIN Row(chunk, w) = Locals
         /\ \A l \in Locals : Row(chunk, w)[l] = w[chunk.cell[l]]
  BY DEF Row, Counting, Weights

LEMMA NestedPairs ==
  ASSUME NEW a, NEW b, NEW c, NEW d, NEW e, NEW f, <<a, <<b, c>>>> = <<d, <<e, f>>>>
  PROVE  a = d /\ b = e /\ c = f
  <1>1. a = d /\ <<b, c>> = <<e, f>>
    OBVIOUS
  <1> QED
    BY <1>1

(* Summed up chunk by chunk, or position by position.                      *)
LEMMA ChunksAddUp ==
  ASSUME NEW s, StoreFits(s), NEW D, D = DOMAIN s.store.chunks, IsFiniteSet(D),
         NEW w, Counting(w),
         NEW f, f = [c \in D |-> Total(Row(ChunkAt(s, c), w))],
         NEW g, g = [p \in Positions |-> w[InPlace(s, p)]]
  PROVE  Total(f) = Total(g)
  <1> DEFINE row == [c \in D |-> Row(ChunkAt(s, c), w)]
             A == [c \in D |-> Grains(row[c])]
             all == Glued(D, A)
  <1>1. w \in Weights(Cell) /\ w[Void] = 0 /\ \A v \in Cell : w[v] \in Nat
    BY DEF Counting, Weights
  <1>2. \A c \in D : /\ ChunkAt(s, c).cell \in [Locals -> Cell]
                     /\ Placed(ChunkAt(s, c), c)
    BY DEF StoreFits, Counted, ChunkAt
  <1>3. \A c \in D : /\ row[c] \in Weights(Locals) /\ DOMAIN row[c] = Locals
                     /\ \A l \in Locals : row[c][l] = w[ChunkAt(s, c).cell[l]]
    <2> TAKE c \in D
    <2>1. row[c] = Row(ChunkAt(s, c), w)
      OBVIOUS
    <2> QED
      BY <1>2, <2>1, RowIs
  <1>4. \A c \in D : Total(Row(ChunkAt(s, c), w)) = Total(row[c])
    OBVIOUS
  <1> HIDE DEF row
  <1>5. \A c \in D : IsFiniteSet(A[c]) /\ Total(row[c]) = Cardinality(A[c])
    BY <1>3, LocalsAreFinite, TotalIsNatural
  <1>6. \A c \in D : A[c] = Grains(row[c])
    OBVIOUS
  <1> HIDE DEF A
  <1>7. f = [c \in D |-> Cardinality(A[c])]
    BY <1>4, <1>5
  <1>8. Total(f) = Cardinality(all)
    <2>1. \A c \in D : IsFiniteSet(A[c])
      BY <1>5
    <2> HIDE DEF all
    <2>2. Total(f) = Cardinality(Glued(D, A))
      BY <2>1, <1>7, TotalOfSizes
    <2> QED
      BY <2>2 DEF all
  <1>9. /\ \A p \in Positions : InPlace(s, p) \in Cell /\ w[InPlace(s, p)] \in Nat
        /\ g \in Weights(Positions) /\ DOMAIN g = Positions
        /\ \A p \in Positions : g[p] = w[InPlace(s, p)]
    BY <1>1, InPlaceIsCell DEF Weights
  <1>10. IsFiniteSet(Grains(g)) /\ Total(g) = Cardinality(Grains(g))
    BY <1>9, Sizes, TotalIsNatural
  <1>11. \A y : y \in all <=> \E c \in D : \E z \in A[c] : y = <<c, z>>
    BY DEF Glued
  <1>12. \A c \in D : \A z : z \in A[c] <=> \E l \in Locals : \E n \in 1..row[c][l] : z = <<l, n>>
    <2> TAKE c \in D
    <2>1. DOMAIN row[c] = Locals
      BY <1>3
    <2> QED
      BY <1>6, <2>1, GrainsAre
  <1> DEFINE move == [y \in Grains(g) |-> <<ChunkOf(y[1]), <<LocalOf(y[1]), y[2]>>>>]
  <1>13. ASSUME NEW p \in Positions, NEW n \in 1..g[p]
         PROVE  <<p, n>> \in Grains(g) /\ move[<<p, n>>] = <<ChunkOf(p), <<LocalOf(p), n>>>>
    <2>1. <<p, n>> \in Grains(g)
      BY <1>9, GrainsAre
    <2> QED
      BY <2>1
  <1>14. move = [y \in Grains(g) |-> move[y]] /\ DOMAIN move = Grains(g)
    OBVIOUS
  <1>15. \A y \in Grains(g) : \E p \in Positions : \E n \in 1..g[p] : y = <<p, n>>
    BY <1>9, GrainsAre
  <1> HIDE DEF move, all
  <1>16. \A p \in Positions : ChunkOf(p) \in D =>
           LocalOf(p) \in Locals /\ g[p] = row[ChunkOf(p)][LocalOf(p)]
    <2> SUFFICES ASSUME NEW p \in Positions, ChunkOf(p) \in D
                 PROVE  LocalOf(p) \in Locals /\ g[p] = row[ChunkOf(p)][LocalOf(p)]
      OBVIOUS
    <2>1. LocalOf(p) \in Locals
      BY PlaceInChunk
    <2>2. InPlace(s, p) = ChunkAt(s, ChunkOf(p)).cell[LocalOf(p)]
      BY DEF InPlace, CellAt, ChunkAt
    <2> QED
      BY <1>3, <1>9, <2>1, <2>2
  <1>17. \A p \in Positions : ChunkOf(p) \notin D => g[p] = 0
    <2> SUFFICES ASSUME NEW p \in Positions, ChunkOf(p) \notin D PROVE g[p] = 0
      OBVIOUS
    <2>1. InPlace(s, p) = Void
      BY DEF InPlace, CellAt
    <2> QED
      BY <1>1, <1>9, <2>1
  <1>18. \A y \in Grains(g) : move[y] \in all
    <2> TAKE y \in Grains(g)
    <2>1. PICK p \in Positions : \E n \in 1..g[p] : y = <<p, n>>
      BY <1>15
    <2>2. PICK n \in 1..g[p] : y = <<p, n>>
      BY <2>1
    <2>3. g[p] # 0
      <3>1. 1..0 = {}
        OBVIOUS
      <3> QED
        BY <3>1
    <2>4. ChunkOf(p) \in D
      BY <1>17, <2>3
    <2>5. LocalOf(p) \in Locals /\ n \in 1..row[ChunkOf(p)][LocalOf(p)]
      BY <1>16, <2>4
    <2>6. <<LocalOf(p), n>> \in A[ChunkOf(p)]
      BY <1>12, <2>4, <2>5
    <2>7. <<ChunkOf(p), <<LocalOf(p), n>>>> \in all
      BY <1>11, <2>4, <2>6
    <2> QED
      BY <1>13, <2>2, <2>7
  <1>19. \A y, z \in Grains(g) : move[y] = move[z] => y = z
    <2> SUFFICES ASSUME NEW y \in Grains(g), NEW z \in Grains(g), move[y] = move[z]
                 PROVE  y = z
      OBVIOUS
    <2>1. PICK p \in Positions : \E n \in 1..g[p] : y = <<p, n>>
      BY <1>15
    <2>2. PICK n \in 1..g[p] : y = <<p, n>>
      BY <2>1
    <2>3. PICK q \in Positions : \E m \in 1..g[q] : z = <<q, m>>
      BY <1>15
    <2>4. PICK m \in 1..g[q] : z = <<q, m>>
      BY <2>3
    <2>5. move[y] = <<ChunkOf(p), <<LocalOf(p), n>>>>
      BY <1>13, <2>2
    <2>6. move[z] = <<ChunkOf(q), <<LocalOf(q), m>>>>
      BY <1>13, <2>4
    <2>7. ChunkOf(p) = ChunkOf(q) /\ LocalOf(p) = LocalOf(q) /\ n = m
      <3>1. <<ChunkOf(p), <<LocalOf(p), n>>>> = <<ChunkOf(q), <<LocalOf(q), m>>>>
        BY <2>5, <2>6
      <3> QED
        BY <3>1, NestedPairs
    <2>8. p = q
      BY <2>7, PlaceInChunk
    <2> QED
      BY <2>2, <2>4, <2>7, <2>8
  <1>20. \A z \in all : \E y \in Grains(g) : move[y] = z
    <2> TAKE z \in all
    <2>1. PICK c \in D : \E a \in A[c] : z = <<c, a>>
      BY <1>11
    <2>2. PICK a \in A[c] : z = <<c, a>>
      BY <2>1
    <2>3. PICK l \in Locals : \E n \in 1..row[c][l] : a = <<l, n>>
      BY <1>12
    <2>4. PICK n \in 1..row[c][l] : a = <<l, n>>
      BY <2>3
    <2>5. ChunkAt(s, c).cell[l] # Void
      <3>1. 1..0 = {}
        OBVIOUS
      <3> QED
        BY <1>1, <1>3, <2>4, <3>1
    <2>6. PICK p \in Positions : ChunkOf(p) = c /\ LocalOf(p) = l
      BY <1>2, <2>5 DEF Placed
    <2>7. n \in 1..g[p]
      BY <1>16, <2>4, <2>6
    <2>8. <<p, n>> \in Grains(g) /\ move[<<p, n>>] = <<c, <<l, n>>>>
      BY <1>13, <2>6, <2>7
    <2> QED
      BY <2>2, <2>4, <2>8
  <1>21. Cardinality(all) = Cardinality(Grains(g))
    BY <1>10, <1>14, <1>18, <1>19, <1>20, SameSize
  <1> QED
    BY <1>8, <1>10, <1>21

LEMMA ChunksAreFinite ==
  ASSUME NEW s, StoreFits(s)
  PROVE  IsFiniteSet(DOMAIN s.store.chunks)
  <1> DEFINE D == DOMAIN s.store.chunks
             f == [c \in D |-> s.store.chunks[c]]
  <1>1. f \in Injection(D, DOMAIN s.mem)
    BY DEF Injection, IsInjective, StoreFits
  <1>2. IsFiniteSet(DOMAIN s.mem)
    BY DEF StoreFits
  <1> HIDE DEF f
  <1> QED
    BY <1>1, <1>2, FS_Injection

(* There are chunks where there are cells.                                 *)
LEMMA ChunksAreWhereCellsAre ==
  ASSUME NEW s, StoreFits(s)
  PROVE  DOMAIN s.store.chunks
           = {ChunkOf(p) : p \in SolidsAmong(Positions, Contents(s.mem, s.store))}
  <1> DEFINE D == DOMAIN s.store.chunks
             S == SolidsAmong(Positions, Contents(s.mem, s.store))
  <1>1. \A p : p \in S <=> p \in Positions /\ InPlace(s, p) # Void
    BY InPlaceIsCell DEF SolidsAmong
  <1> HIDE DEF S
  <1>2. \A p \in S : ChunkOf(p) \in D
    BY <1>1 DEF InPlace, CellAt
  <1>3. ASSUME NEW c \in D
        PROVE  \E p \in S : ChunkOf(p) = c
    <2> DEFINE chunk == s.mem[s.store.chunks[c]]
    <2>1. Counted(chunk) /\ chunk.solid > 0 /\ Placed(chunk, c)
      BY DEF StoreFits
    <2>2. \A p \in Positions : ChunkOf(p) = c =>
            InPlace(s, p) = chunk.cell[LocalOf(p)]
      BY DEF InPlace, CellAt
    <2> HIDE DEF chunk
    <2>3. SolidsAmong(Locals, chunk.cell) # {}
      <3>1. chunk.solid # 0
        BY <2>1
      <3> QED
        BY <2>1, <3>1, FS_EmptySet DEF Counted
    <2>4. PICK l \in Locals : chunk.cell[l] # Void
      BY <2>3 DEF SolidsAmong
    <2>5. PICK p \in Positions : ChunkOf(p) = c /\ LocalOf(p) = l
      BY <2>1, <2>4 DEF Placed
    <2> QED
      BY <1>1, <2>2, <2>4, <2>5
  <1> QED
    BY <1>2, <1>3 DEF S

LEMMA StatsAre ==
  ASSUME NEW s, StoreFits(s), CountsFit(s)
  PROVE  StatsOf(s.mem, s.store) = StatsFor(Contents(s.mem, s.store))
  <1> DEFINE D == DOMAIN s.store.chunks
             filled == Contents(s.mem, s.store)
             paged == [v \in Cell |-> Paged(v)]
             leafed == [v \in Cell |-> LeavesIn(v)]
             pages == [c \in D |-> PagesIn(s.mem[s.store.chunks[c]])]
             leaves == [c \in D |-> s.mem[s.store.chunks[c]].leaves]
  <1>1. StatsOf(s.mem, s.store)
          = [chunks |-> Cardinality(D), occupied |-> s.store.solid,
             pages |-> Total(pages), leaves |-> Total(leaves)]
    BY DEF StatsOf
  <1>2. IsFiniteSet(D)
    BY ChunksAreFinite
  <1>3. \A p \in Positions : InPlace(s, p) \in Cell /\ filled[p] = InPlace(s, p)
    BY InPlaceIsCell
  <1>4. D = {ChunkOf(p) : p \in SolidsAmong(Positions, filled)}
    BY ChunksAreWhereCellsAre
  <1>5. s.store.solid = Cardinality(SolidsAmong(Positions, filled))
    BY DEF CountsFit
  <1> HIDE DEF filled
  <1>6. [p \in Positions |-> Paged(filled[p])] = [p \in Positions |-> paged[InPlace(s, p)]]
        /\ [p \in Positions |-> LeavesIn(filled[p])] = [p \in Positions |-> leafed[InPlace(s, p)]]
    BY <1>3
  <1>7. \A c \in D : Counted(ChunkAt(s, c)) /\ ChunkAt(s, c).cell \in [Locals -> Cell]
    BY DEF StoreFits, Counted, ChunkAt
  <1>8. Counting(paged) /\ Counting(leafed)
    BY CountingWeights
  <1>9. pages = [c \in D |-> Total(Row(ChunkAt(s, c), paged))]
    <2>1. ASSUME NEW c \in D
          PROVE  PagesIn(ChunkAt(s, c)) = Total(Row(ChunkAt(s, c), paged))
      <3> DEFINE cell == ChunkAt(s, c).cell
                 S == {l \in Locals : cell[l] \in Refined}
      <3>1. cell \in [Locals -> Cell]
        BY <1>7
      <3> HIDE DEF cell
      <3>2. Row(ChunkAt(s, c), paged) = [l \in Locals |-> IF l \in S THEN 1 ELSE 0]
        BY <3>1 DEF Row, Paged, cell
      <3>3. Total(Row(ChunkAt(s, c), paged)) = Cardinality(S)
        BY <3>2, LocalsAreFinite, TotalCounts
      <3>4. S = {l \in DOMAIN cell : cell[l] \in Refined}
        BY <3>1
      <3> QED
        BY <3>3, <3>4 DEF PagesIn, cell
    <2> QED
      BY <2>1 DEF ChunkAt
  <1>10. leaves = [c \in D |-> Total(Row(ChunkAt(s, c), leafed))]
    <2>1. ASSUME NEW c \in D
          PROVE  ChunkAt(s, c).leaves = Total(Row(ChunkAt(s, c), leafed))
      <3> DEFINE cell == ChunkAt(s, c).cell
      <3>1. cell \in [Locals -> Cell]
        BY <1>7
      <3>2. ChunkAt(s, c).leaves = LeavesOf(cell)
        BY <1>7 DEF Counted
      <3>3. Row(ChunkAt(s, c), leafed) = [l \in DOMAIN cell |-> LeavesIn(cell[l])]
        BY <3>1 DEF Row
      <3> QED
        BY <3>2, <3>3 DEF LeavesOf
    <2> QED
      BY <2>1 DEF ChunkAt
  <1> HIDE DEF pages, leaves, paged, leafed, D
  <1>11. Total(pages) = Total([p \in Positions |-> paged[InPlace(s, p)]])
    BY <1>2, <1>8, <1>9, ChunksAddUp DEF D
  <1>12. Total(leaves) = Total([p \in Positions |-> leafed[InPlace(s, p)]])
    BY <1>2, <1>8, <1>10, ChunksAddUp DEF D
  <1> QED
    BY <1>1, <1>4, <1>5, <1>6, <1>11, <1>12 DEF StatsFor, filled

-----------------------------------------------------------------------------
(* How the residency moves with changes.                                   *)

Leading(old, new, changes) ==
  /\ old \in [Positions -> Cell] /\ new \in [Positions -> Cell]
  /\ \A i \in DOMAIN changes : /\ old[changes[i].at] = changes[i].before
                               /\ new[changes[i].at] = changes[i].after
  /\ \A q \in Positions : (\A i \in DOMAIN changes : changes[i].at # q) => new[q] = old[q]

ChangesIn(changes, P) == {i \in DOMAIN changes : changes[i].at \in P}
PlacesOf(changes, I) == {changes[i].at : i \in I}
Follows(f, k, changes, I) == \A i \in I : f[changes[i].at] = k[i]

(* Of the positions that changes are at.                                   *)
LEMMA SitesAddUp ==
  ASSUME NEW changes, ChangesFit(changes), NEW P \in SUBSET Positions,
         NEW I, I = ChangesIn(changes, P), NEW S, S = PlacesOf(changes, I),
         NEW k \in Weights(I), NEW f \in Weights(S),
         Follows(f, k, changes, I)
  PROVE  Total(f) = Total(k)
  <1> DEFINE b == [i \in I |-> changes[i].at]
  <1>1. DOMAIN changes = 1..Len(changes) /\ Len(changes) \in Nat
    BY TypesOfChanges
  <1>2. IsFiniteSet(I)
    <2>1. 1 \in Int /\ Len(changes) \in Int
      BY <1>1
    <2>2. IsFiniteSet(1..Len(changes))
      BY <2>1, FS_Interval
    <2>3. I \in SUBSET (1..Len(changes))
      BY <1>1 DEF ChangesIn
    <2> QED
      BY <2>2, <2>3, FS_Subset
  <1>3. /\ b \in [I -> S]
        /\ \A i \in I : b[i] = changes[i].at
        /\ \A z \in S : \E i \in I : b[i] = z
    BY DEF PlacesOf
  <1> HIDE DEF b
  <1>4. \A i, j \in I : b[i] = b[j] => i = j
    BY <1>1, <1>3 DEF ChangesFit, ChangesIn
  <1>5. \A i \in I : f[b[i]] = k[i]
    BY <1>3 DEF Follows
  <1> QED
    BY <1>2, <1>3, <1>4, <1>5, TotalMapped

LEMMA ChangesAddUp ==
  ASSUME NEW changes, ChangesFit(changes), NEW old, NEW new, Leading(old, new, changes),
         NEW w, Counting(w), NEW P \in SUBSET Positions,
         NEW I, I = ChangesIn(changes, P),
         NEW f, f = [p \in P |-> w[new[p]]], NEW g, g = [p \in P |-> w[old[p]]],
         NEW a, a = [i \in I |-> w[changes[i].after]],
         NEW b, b = [i \in I |-> w[changes[i].before]]
  PROVE  /\ Total(f) = Total(g) + (Total(a) - Total(b))
         /\ Total(f) \in Nat /\ Total(g) \in Nat /\ Total(a) \in Nat /\ Total(b) \in Nat
  <1>0. PICK S : S = PlacesOf(changes, I)
    OBVIOUS
  <1>1. IsFiniteSet(P)
    BY Sizes, FS_Subset
  <1>2. \A v \in Cell : w[v] \in Nat
    BY DEF Counting, Weights
  <1>3. /\ \A p \in P : old[p] \in Cell /\ new[p] \in Cell
        /\ \A i \in I : /\ changes[i].at \in P
                       /\ old[changes[i].at] = changes[i].before
                       /\ new[changes[i].at] = changes[i].after
    BY DEF Leading, ChangesIn
  <1>4. f \in Weights(P) /\ g \in Weights(P)
    BY <1>2, <1>3 DEF Weights
  <1>5. S \in SUBSET P
    BY <1>0, <1>3 DEF PlacesOf
  <1>6. a \in Weights(I) /\ b \in Weights(I)
    BY <1>2, <1>3 DEF Weights
  <1>7. \A i \in I : changes[i].at \in S
    BY <1>0 DEF PlacesOf
  <1>8. Part(f, S) \in Weights(S) /\ Part(g, S) \in Weights(S)
    BY <1>4, <1>5 DEF Part, Weights
  <1>9. Follows(Part(f, S), a, changes, I) /\ Follows(Part(g, S), b, changes, I)
    BY <1>3, <1>7 DEF Part, Follows
  <1>10. Part(f, P \ S) = Part(g, P \ S)
    <2>1. \A p \in P \ S : f[p] = g[p]
      <3> TAKE p \in P \ S
      <3>1. \A i \in DOMAIN changes : changes[i].at # p
        BY <1>0 DEF ChangesIn, PlacesOf
      <3>2. new[p] = old[p]
        BY <3>1 DEF Leading
      <3> QED
        BY <3>2
    <2> QED
      BY <2>1 DEF Part
  <1> DEFINE Of(h) == Part(h, S)
             Off(h) == Part(h, P \ S)
  <1>11. Total(Of(f)) = Total(a) /\ Total(Of(g)) = Total(b)
    <2>1. Total(Part(f, S)) = Total(a)
      BY <1>0, <1>6, <1>8, <1>9, SitesAddUp
    <2>2. Total(Part(g, S)) = Total(b)
      BY <1>0, <1>6, <1>8, <1>9, SitesAddUp
    <2> QED
      BY <2>1, <2>2
  <1>12. /\ Total(f) = Total(Of(f)) + Total(Off(f))
         /\ Total(Of(f)) \in Nat /\ Total(Off(f)) \in Nat
    BY <1>1, <1>4, <1>5, TotalSplits
  <1>13. /\ Total(g) = Total(Of(g)) + Total(Off(g))
         /\ Total(Of(g)) \in Nat /\ Total(Off(g)) \in Nat
    BY <1>1, <1>4, <1>5, TotalSplits
  <1>14. Off(f) = Off(g)
    BY <1>10
  <1> HIDE DEF Of, Off
  <1> QED
    BY <1>11, <1>12, <1>13, <1>14

(* The cells of a chunk.                                                   *)
InChunk(c) == {p \in Positions : ChunkOf(p) = c}

LEMMA SolidOfChunk ==
  ASSUME NEW s, StoreFits(s), NEW filled, filled = Contents(s.mem, s.store), NEW c,
         NEW n, n = IF c \in DOMAIN s.store.chunks THEN s.mem[s.store.chunks[c]].solid ELSE 0
  PROVE  n = Cardinality(SolidsAmong(InChunk(c), filled)) /\ n \in Nat
  <1> DEFINE S == SolidsAmong(InChunk(c), filled)
  <1>1. \A p : p \in S <=> p \in Positions /\ ChunkOf(p) = c /\ InPlace(s, p) # Void
    BY InPlaceIsCell DEF SolidsAmong, InChunk
  <1>2. IsFiniteSet(S)
    <2>1. S \in SUBSET Positions
      BY DEF SolidsAmong, InChunk
    <2> QED
      BY <2>1, Sizes, FS_Subset
  <1> HIDE DEF S
  <1>3. CASE c \notin DOMAIN s.store.chunks
    <2>1. S = {}
      BY <1>1, <1>3 DEF InPlace, CellAt
    <2> QED
      BY <1>3, <2>1, FS_EmptySet DEF S
  <1>4. CASE c \in DOMAIN s.store.chunks
    <2> DEFINE chunk == s.mem[s.store.chunks[c]]
               T == SolidsAmong(Locals, chunk.cell)
               b == [p \in S |-> LocalOf(p)]
    <2>1. chunk.solid = Cardinality(T) /\ Placed(chunk, c)
      BY <1>4 DEF StoreFits, Counted
    <2>2. \A p \in Positions : ChunkOf(p) = c => InPlace(s, p) = chunk.cell[LocalOf(p)]
      BY <1>4 DEF InPlace, CellAt
    <2>3. n = chunk.solid
      BY <1>4
    <2> HIDE DEF chunk
    <2>4. \A l : l \in T <=> l \in Locals /\ chunk.cell[l] # Void
      BY DEF SolidsAmong
    <2> HIDE DEF T
    <2>5. DOMAIN b = S /\ b = [p \in S |-> b[p]] /\ \A p \in S : b[p] = LocalOf(p)
      OBVIOUS
    <2> HIDE DEF b
    <2>6. \A p \in S : b[p] \in T
      BY <1>1, <2>2, <2>4, <2>5, PlaceInChunk
    <2>7. \A p, q \in S : b[p] = b[q] => p = q
      BY <1>1, <2>5, PlaceInChunk
    <2>8. \A l \in T : \E p \in S : b[p] = l
      <3> TAKE l \in T
      <3>1. PICK p \in Positions : ChunkOf(p) = c /\ LocalOf(p) = l
        BY <2>1, <2>4 DEF Placed
      <3>2. p \in S
        BY <1>1, <2>2, <2>4, <3>1
      <3> QED
        BY <2>5, <3>1, <3>2
    <2>9. Cardinality(T) = Cardinality(S)
      BY <1>2, <2>5, <2>6, <2>7, <2>8, SameSize
    <2> QED
      BY <1>2, <2>1, <2>3, <2>9, FS_CardinalityType DEF S
  <1> QED
    BY <1>3, <1>4

(* The sum of what is occupied is a count.                                 *)
LEMMA OccupiedAddsUp ==
  ASSUME NEW filled \in [Positions -> Cell], NEW P \in SUBSET Positions,
         NEW f, f = [p \in P |-> Occupied(filled[p])]
  PROVE  Total(f) = Cardinality(SolidsAmong(P, filled))
  <1> DEFINE S == SolidsAmong(P, filled)
  <1>1. IsFiniteSet(P)
    BY Sizes, FS_Subset
  <1>2. S \in SUBSET P /\ f = [p \in P |-> IF p \in S THEN 1 ELSE 0]
    BY DEF SolidsAmong, Occupied
  <1> HIDE DEF S
  <1>3. Total(f) = Cardinality(S)
    BY <1>1, <1>2, TotalCounts
  <1> QED
    BY <1>3 DEF S

MoveUp(changes, I, P, old, new) ==
  /\ Cardinality(SolidsAmong(P, new))
       = Cardinality(SolidsAmong(P, old)) + Moved(changes, I, Occupied)
  /\ Total([p \in P |-> Paged(new[p])])
       = Total([p \in P |-> Paged(old[p])]) + Moved(changes, I, Paged)
  /\ Total([p \in P |-> LeavesIn(new[p])])
       = Total([p \in P |-> LeavesIn(old[p])]) + Moved(changes, I, LeavesIn)

LEMMA MovesAre ==
  ASSUME NEW changes, ChangesFit(changes), NEW old, NEW new, Leading(old, new, changes),
         NEW P \in SUBSET Positions, NEW I, I = ChangesIn(changes, P)
  PROVE  MoveUp(changes, I, P, old, new)
  <1> DEFINE occupied == [v \in Cell |-> Occupied(v)]
             paged == [v \in Cell |-> Paged(v)]
             leafed == [v \in Cell |-> LeavesIn(v)]
  <1>1. Counting(occupied) /\ Counting(paged) /\ Counting(leafed)
    BY CountingWeights
  <1>2. /\ old \in [Positions -> Cell] /\ new \in [Positions -> Cell]
        /\ \A p \in P : old[p] \in Cell /\ new[p] \in Cell
    BY DEF Leading
  <1>3. \A i \in I : changes[i].before \in Cell /\ changes[i].after \in Cell
    BY TypesOfChanges DEF ChangesIn
  <1>4. \A v \in Cell : occupied[v] = Occupied(v) /\ paged[v] = Paged(v) /\ leafed[v] = LeavesIn(v)
    OBVIOUS
  <1> HIDE DEF occupied, paged, leafed
  <1>5. Cardinality(SolidsAmong(P, new))
          = Cardinality(SolidsAmong(P, old)) + Moved(changes, I, Occupied)
    <2> DEFINE w == occupied
               f == [p \in P |-> w[new[p]]]
               g == [p \in P |-> w[old[p]]]
               a == [i \in I |-> w[changes[i].after]]
               b == [i \in I |-> w[changes[i].before]]
    <2>1. Total(f) = Total(g) + (Total(a) - Total(b))
      BY <1>1, ChangesAddUp
    <2>2. f = [p \in P |-> Occupied(new[p])] /\ g = [p \in P |-> Occupied(old[p])]
      BY <1>2, <1>4
    <2>3. /\ a = [i \in I |-> Occupied(changes[i].after)]
          /\ b = [i \in I |-> Occupied(changes[i].before)]
      BY <1>3, <1>4
    <2> HIDE DEF f, g, a, b
    <2>4. Moved(changes, I, Occupied) = Total(a) - Total(b)
      BY <2>3 DEF Moved
    <2>5. Total(f) = Cardinality(SolidsAmong(P, new)) /\ Total(g) = Cardinality(SolidsAmong(P, old))
      BY <1>2, <2>2, OccupiedAddsUp
    <2> QED
      BY <2>1, <2>4, <2>5
  <1>6. Total([p \in P |-> Paged(new[p])])
          = Total([p \in P |-> Paged(old[p])]) + Moved(changes, I, Paged)
    <2> DEFINE w == paged
               f == [p \in P |-> w[new[p]]]
               g == [p \in P |-> w[old[p]]]
               a == [i \in I |-> w[changes[i].after]]
               b == [i \in I |-> w[changes[i].before]]
    <2>1. Total(f) = Total(g) + (Total(a) - Total(b))
      BY <1>1, ChangesAddUp
    <2>2. f = [p \in P |-> Paged(new[p])] /\ g = [p \in P |-> Paged(old[p])]
      BY <1>2, <1>4
    <2>3. /\ a = [i \in I |-> Paged(changes[i].after)]
          /\ b = [i \in I |-> Paged(changes[i].before)]
      BY <1>3, <1>4
    <2> HIDE DEF f, g, a, b
    <2>4. Moved(changes, I, Paged) = Total(a) - Total(b)
      BY <2>3 DEF Moved
    <2> QED
      BY <2>1, <2>2, <2>4
  <1>7. Total([p \in P |-> LeavesIn(new[p])])
          = Total([p \in P |-> LeavesIn(old[p])]) + Moved(changes, I, LeavesIn)
    <2> DEFINE w == leafed
               f == [p \in P |-> w[new[p]]]
               g == [p \in P |-> w[old[p]]]
               a == [i \in I |-> w[changes[i].after]]
               b == [i \in I |-> w[changes[i].before]]
    <2>1. Total(f) = Total(g) + (Total(a) - Total(b))
      BY <1>1, ChangesAddUp
    <2>2. f = [p \in P |-> LeavesIn(new[p])] /\ g = [p \in P |-> LeavesIn(old[p])]
      BY <1>2, <1>4
    <2>3. /\ a = [i \in I |-> LeavesIn(changes[i].after)]
          /\ b = [i \in I |-> LeavesIn(changes[i].before)]
      BY <1>3, <1>4
    <2> HIDE DEF f, g, a, b
    <2>4. Moved(changes, I, LeavesIn) = Total(a) - Total(b)
      BY <2>3 DEF Moved
    <2> QED
      BY <2>1, <2>2, <2>4
  <1> QED
    BY <1>5, <1>6, <1>7 DEF MoveUp

LEMMA StatsOfCells ==
  ASSUME StoredFits
  PROVE  /\ Stats = StatsFor(cells)
         /\ StoreFits(Here) /\ Contents(heap, world) = cells /\ cells \in [Positions -> Cell]
  <1>1. /\ StoreFits(Here) /\ CountsFit(Here) /\ cells \in [Positions -> Cell]
        /\ Contents(heap, world) = cells
    BY HashIsTokens DEF StoredFits, AllFit
  <1>2. Stats = StatsFor(cells)
    BY <1>1, StatsAre, HereIs DEF Stats
  <1> QED
    BY <1>1, <1>2

LEMMA ChangedLeads ==
  ASSUME StoredFits, NEW changes, ChangesFit(changes), BeforeHolds(changes)
  PROVE  Leading(cells, Changed(cells, changes), changes)
  <1> DEFINE new == Changed(cells, changes)
  <1>1. cells \in [Positions -> Cell] /\ \A p \in Positions : CellAt(heap, world, p) = cells[p]
    BY HereIs DEF StoredFits, InPlace
  <1>2. /\ new \in [Positions -> Cell]
        /\ \A i \in 1..Len(changes) : new[changes[i].at] = changes[i].after
        /\ \A q \in Positions : (\A i \in 1..Len(changes) : changes[i].at # q) => new[q] = cells[q]
    BY <1>1, ChangedIs
  <1>3. DOMAIN changes = 1..Len(changes) /\ \A i \in DOMAIN changes : changes[i].at \in Positions
    BY TypesOfChanges
  <1>4. \A i \in DOMAIN changes : cells[changes[i].at] = changes[i].before
    BY <1>1, <1>3 DEF BeforeHolds
  <1> HIDE DEF new
  <1>5. Leading(cells, new, changes)
    BY <1>1, <1>2, <1>3, <1>4 DEF Leading
  <1> QED
    BY <1>5 DEF new

(* What a transaction is accepted for is what it leads to.                 *)
LEMMA StatsLead ==
  ASSUME StoredFits, NEW changes, ChangesFit(changes), BeforeHolds(changes)
  PROVE  StatsAfter(changes) = StatsFor(Changed(cells, changes))
  <1> DEFINE new == Changed(cells, changes)
             D == DOMAIN world.chunks
  <1>1. Leading(cells, new, changes)
    BY ChangedLeads
  <1>2. Stats = StatsFor(cells) /\ StoreFits(Here) /\ Contents(heap, world) = cells
    BY StatsOfCells
  <1>3. DOMAIN changes = 1..Len(changes) /\ \A i \in DOMAIN changes : changes[i].at \in Positions
    BY TypesOfChanges
  <1> HIDE DEF new
  <1>4. DOMAIN changes = ChangesIn(changes, Positions)
    BY <1>3 DEF ChangesIn
  <1>5. /\ Cardinality(SolidsAmong(Positions, new)) = Stats.occupied + Moved(changes, DOMAIN changes, Occupied)
        /\ Total([p \in Positions |-> Paged(new[p])]) = Stats.pages + Moved(changes, DOMAIN changes, Paged)
        /\ Total([p \in Positions |-> LeavesIn(new[p])])
             = Stats.leaves + Moved(changes, DOMAIN changes, LeavesIn)
    <2> DEFINE I == DOMAIN changes
    <2>1. I = ChangesIn(changes, Positions) /\ Positions \in SUBSET Positions
      BY <1>4
    <2>2. /\ Stats.occupied = Cardinality(SolidsAmong(Positions, cells))
          /\ Stats.pages = Total([p \in Positions |-> Paged(cells[p])])
          /\ Stats.leaves = Total([p \in Positions |-> LeavesIn(cells[p])])
      BY <1>2 DEF StatsFor
    <2> HIDE DEF I
    <2>3. MoveUp(changes, I, Positions, cells, new)
      BY <1>1, <2>1, MovesAre
    <2> QED
      BY <2>2, <2>3 DEF I, MoveUp
  <1>6. ASSUME NEW c
        PROVE  SolidAfter(changes, c) = Cardinality(SolidsAmong(InChunk(c), new))
    <2> DEFINE I == {i \in DOMAIN changes : ChunkOf(changes[i].at) = c}
               n == IF c \in D THEN heap[world.chunks[c]].solid ELSE 0
    <2>1. I = ChangesIn(changes, InChunk(c)) /\ InChunk(c) \in SUBSET Positions
      BY <1>3 DEF ChangesIn, InChunk
    <2>2. n = Cardinality(SolidsAmong(InChunk(c), cells))
      BY <1>2, SolidOfChunk, HereIs
    <2>3. SolidAfter(changes, c) = n + Moved(changes, I, Occupied)
      BY DEF SolidAfter
    <2> HIDE DEF I, n
    <2>4. MoveUp(changes, I, InChunk(c), cells, new)
      BY <1>1, <2>1, MovesAre
    <2> QED
      BY <2>2, <2>3, <2>4 DEF MoveUp
  <1>7. \A c : SolidAfter(changes, c) # 0
               <=> \E p \in Positions : ChunkOf(p) = c /\ new[p] # Void
    <2> TAKE c
    <2> DEFINE S == SolidsAmong(InChunk(c), new)
    <2>1. IsFiniteSet(S)
      <3>1. S \in SUBSET Positions
        BY DEF SolidsAmong, InChunk
      <3> QED
        BY <3>1, Sizes, FS_Subset
    <2>2. Cardinality(S) = 0 <=> S = {}
      BY <2>1, FS_EmptySet
    <2>3. S # {} <=> \E p \in Positions : ChunkOf(p) = c /\ new[p] # Void
      BY DEF SolidsAmong, InChunk
    <2>4. SolidAfter(changes, c) = Cardinality(S)
      BY <1>6
    <2> QED
      BY <2>2, <2>3, <2>4
  <1>8. {c \in D \cup {ChunkOf(p) : p \in Sites(changes)} : SolidAfter(changes, c) # 0}
          = {ChunkOf(p) : p \in SolidsAmong(Positions, new)}
    <2>1. \A p \in Positions : new[p] # Void => ChunkOf(p) \in D \/ p \in Sites(changes)
      <3> SUFFICES ASSUME NEW p \in Positions, new[p] # Void, p \notin Sites(changes)
                   PROVE  ChunkOf(p) \in D
        OBVIOUS
      <3>1. new[p] = cells[p]
        BY <1>1 DEF Leading, Sites
      <3>2. CellAt(heap, world, p) # Void
        BY <1>2, <3>1 DEF Contents
      <3> QED
        BY <3>2 DEF CellAt
    <2> HIDE DEF D
    <2> DEFINE A == {c \in D \cup {ChunkOf(p) : p \in Sites(changes)} : SolidAfter(changes, c) # 0}
               B == {ChunkOf(p) : p \in SolidsAmong(Positions, new)}
    <2>2. \A c : c \in B <=> \E p \in Positions : ChunkOf(p) = c /\ new[p] # Void
      BY DEF SolidsAmong
    <2>3. \A c : c \in A <=> c \in D \cup {ChunkOf(p) : p \in Sites(changes)} /\ SolidAfter(changes, c) # 0
      OBVIOUS
    <2> HIDE DEF A, B
    <2>4. \A c : c \in A => c \in B
      BY <1>7, <2>2, <2>3
    <2>5. \A c : c \in B => c \in A
      <3> SUFFICES ASSUME NEW c, c \in B PROVE c \in A
        OBVIOUS
      <3>1. PICK p \in Positions : ChunkOf(p) = c /\ new[p] # Void
        BY <2>2
      <3>2. c \in D \cup {ChunkOf(q) : q \in Sites(changes)}
        BY <2>1, <3>1
      <3>3. SolidAfter(changes, c) # 0
        BY <1>7, <3>1
      <3> QED
        BY <2>3, <3>2, <3>3
    <2>6. A = B
      BY <2>4, <2>5
    <2> QED
      BY <2>6 DEF A, B
  <1> QED
    BY <1>5, <1>8 DEF StatsAfter, StatsFor, new

-----------------------------------------------------------------------------
(* The size of a checkpoint is the one the limits are checked with.        *)

LEMMA TotalOfEightfold ==
  ASSUME NEW D, IsFiniteSet(D), NEW f \in Weights(D), NEW g, g = [x \in D |-> 8 * f[x]]
  PROVE  g \in Weights(D) /\ Total(g) = 8 * Total(f) /\ Total(f) \in Nat
  <1> DEFINE two == [x \in D |-> f[x] + f[x]]
             four == [x \in D |-> two[x] + two[x]]
             eight == [x \in D |-> four[x] + four[x]]
  <1>1. \A x \in D : f[x] \in Nat
    BY DEF Weights
  <1>2. g = eight
    <2>1. \A x \in D : 8 * f[x] = eight[x]
      <3> TAKE x \in D
      <3>1. two[x] = f[x] + f[x] /\ four[x] = two[x] + two[x] /\ eight[x] = four[x] + four[x]
        OBVIOUS
      <3> HIDE DEF two, four, eight
      <3> QED
        BY <1>1, <3>1
    <2>2. eight = [x \in D |-> eight[x]]
      OBVIOUS
    <2> HIDE DEF eight
    <2> QED
      BY <2>1, <2>2
  <1>3. two \in Weights(D) /\ Total(two) = Total(f) + Total(f) /\ Total(f) \in Nat
    BY TotalAdds
  <1> HIDE DEF two
  <1>4. four \in Weights(D) /\ Total(four) = Total(two) + Total(two)
    BY <1>3, TotalAdds
  <1> HIDE DEF four
  <1>5. eight \in Weights(D) /\ Total(eight) = Total(four) + Total(four)
    BY <1>4, TotalAdds
  <1> HIDE DEF eight
  <1>6. Total(eight) = 8 * Total(f)
    BY <1>3, <1>4, <1>5
  <1> QED
    BY <1>2, <1>3, <1>5, <1>6

LEMMA SizeOfRecord ==
  ASSUME NEW v \in Cell, v # Void
  PROVE  RecordBytes(v) = 15 + (11 * Paged(v) + 8 * LeavesIn(v))
  <1>1. CASE v \in Refined
    <2>1. LeavesIn(v) = PageLeaves[v] /\ LeavesIn(v) \in Nat /\ Paged(v) = 1
      BY <1>1, Sizes DEF LeavesIn, Paged
    <2>2. RecordBytes(v) = 17 + (9 + 8 * LeavesIn(v))
      BY <1>1, <2>1 DEF RecordBytes, VolumeBytes
    <2> QED
      BY <2>1, <2>2
  <1>2. CASE v \notin Refined
    BY <1>2 DEF RecordBytes, Paged, LeavesIn
  <1> QED
    BY <1>1, <1>2

LEMMA SizeOfState ==
  ASSUME StoredFits
  PROVE  EncodedBytes = 41 + 15 * Stats.occupied + 11 * Stats.pages + 8 * Stats.leaves
  <1> DEFINE S == SolidsAmong(Positions, cells)
             T == {p \in S : cells[p] \in Refined}
             size == [p \in S |-> RecordBytes(cells[p])]
             base == [p \in S |-> 15]
             sheet == [p \in S |-> 11 * Paged(cells[p])]
             eight == [p \in S |-> 8 * LeavesIn(cells[p])]
             more == [p \in S |-> sheet[p] + eight[p]]
             paged == [p \in Positions |-> Paged(cells[p])]
             leafed == [p \in Positions |-> LeavesIn(cells[p])]
  <1>1. /\ Stats = StatsFor(cells) /\ cells \in [Positions -> Cell]
        /\ \A p \in Positions : CellAt(heap, world, p) = cells[p]
    BY StatsOfCells, HereIs DEF StoredFits, InPlace
  <1>2. /\ Stats.occupied = Cardinality(S)
        /\ Stats.pages = Total(paged) /\ Stats.leaves = Total(leafed)
    BY <1>1 DEF StatsFor
  <1>3. CellsOf(world) = S
    BY <1>1 DEF CellsOf, SolidsAmong
  <1>4. \A p \in S : p \in Positions /\ cells[p] \in Cell /\ cells[p] # Void
    BY <1>1 DEF SolidsAmong
  <1>5. /\ IsFiniteSet(S) /\ Cardinality(S) \in Nat
        /\ IsFiniteSet(T) /\ Cardinality(T) \in Nat
        /\ T \in SUBSET S /\ T \in SUBSET Positions /\ S \in SUBSET Positions
    <2>1. S \in SUBSET Positions /\ T \in SUBSET Positions /\ T \in SUBSET S
      BY <1>4
    <2> HIDE DEF S, T
    <2> QED
      BY <2>1, Sizes, FS_Subset, FS_CardinalityType
  <1>6. \A p \in S : p \in T <=> cells[p] \in Refined
    OBVIOUS
  <1>7. \A p \in Positions : p \in T <=> cells[p] \in Refined
    <2> TAKE p \in Positions
    <2>1. Void \notin Refined
      BY GeometryAssumption DEF GeometryAssumption
    <2> QED
      BY <2>1 DEF SolidsAmong
  <1>8. \A p \in Positions \ S : cells[p] = Void
    BY DEF SolidsAmong
  <1> HIDE DEF S, T
  <1>9. EncodedBytes = 41 + Total(size)
    <2>1. [p \in CellsOf(world) |-> RecordBytes(CellAt(heap, world, p))] = size
      BY <1>1, <1>3, <1>4
    <2> QED
      BY <2>1 DEF EncodedBytes
  <1>10. /\ base \in Weights(S) /\ Total(base) = 15 * Cardinality(S)
    BY <1>5, TotalOfEqual DEF Weights
  <1>11. sheet \in Weights(S) /\ Total(sheet) = 11 * Stats.pages
    <2>1. sheet \in Weights(S) /\ \A p \in S \ T : sheet[p] = 0
      BY <1>6 DEF Paged, Weights
    <2>2. Part(sheet, T) = [p \in T |-> 11]
      <3>1. \A p \in T : sheet[p] = 11
        BY <1>5, <1>6 DEF Paged
      <3> QED
        BY <3>1 DEF Part
    <2> HIDE DEF sheet
    <2>3. Total(sheet) = Total(Part(sheet, T))
      BY <1>5, <2>1, TotalOfSome
    <2>4. Total([p \in T |-> 11]) = 11 * Cardinality(T)
      BY <1>5, TotalOfEqual
    <2>5. paged = [p \in Positions |-> IF p \in T THEN 1 ELSE 0]
      BY <1>7 DEF Paged
    <2> HIDE DEF paged
    <2>6. Total(paged) = Cardinality(T)
      BY <1>5, <2>5, Sizes, TotalCounts
    <2> QED
      BY <1>2, <2>1, <2>2, <2>3, <2>4, <2>6
  <1>12. eight \in Weights(S) /\ Total(eight) = 8 * Stats.leaves /\ Stats.leaves \in Nat
    <2>1. leafed \in Weights(Positions)
      BY Sizes DEF Weights
    <2>2. \A p \in Positions \ S : leafed[p] = 0
      <3>1. LeavesIn(Void) = 0
        BY GeometryAssumption DEF GeometryAssumption, LeavesIn
      <3> QED
        BY <1>8, <3>1
    <2>3. \A p \in S : leafed[p] = LeavesIn(cells[p])
      BY <1>4
    <2>4. eight = [p \in S |-> 8 * Part(leafed, S)[p]]
      BY <2>3 DEF Part
    <2> HIDE DEF leafed, eight
    <2>5. Total(leafed) = Total(Part(leafed, S))
      BY <1>5, <2>1, <2>2, TotalOfSome
    <2>6. Part(leafed, S) \in Weights(S)
      BY <1>5, <2>1 DEF Part, Weights
    <2>7. eight \in Weights(S) /\ Total(eight) = 8 * Total(Part(leafed, S)) /\ Total(Part(leafed, S)) \in Nat
      BY <1>5, <2>4, <2>6, TotalOfEightfold
    <2> QED
      BY <1>2, <2>5, <2>7
  <1>13. \A p \in S : size[p] = base[p] + (sheet[p] + eight[p])
    BY <1>4, SizeOfRecord
  <1>14. size = [p \in S |-> base[p] + more[p]]
    BY <1>13
  <1> HIDE DEF base, sheet, eight, size
  <1>15. more \in Weights(S) /\ Total(more) = Total(sheet) + Total(eight)
    BY <1>5, <1>11, <1>12, TotalAdds
  <1> HIDE DEF more
  <1>16. Total(size) = Total(base) + Total(more)
    BY <1>5, <1>10, <1>14, <1>15, TotalAdds
  <1>17. Stats.pages \in Nat
    <2>1. paged \in Weights(Positions)
      BY DEF Paged, Weights
    <2> HIDE DEF paged
    <2> QED
      BY <1>2, <2>1, Sizes, TotalIsNatural
  <1> QED
    BY <1>2, <1>5, <1>9, <1>10, <1>11, <1>12, <1>15, <1>16, <1>17

-----------------------------------------------------------------------------
(* A refined state stays within the limits.                                *)

WithinLimits == refined => Allowed(StatsFor(cells))

LEMMA StatsReadBack ==
  ASSUME StoredFits, NEW listed, NEW filled, Makes(listed, filled),
         NEW back, back = Decoded(listed)
  PROVE  /\ StatsOf(back.mem, back.store) = StatsFor(filled)
         /\ back.store.solid = Cardinality(SolidsAmong(Positions, filled))
         /\ back.store.hash = TokensOf(filled)
         /\ \A p \in Positions : CellAt(back.mem, back.store, p) = filled[p]
  <1>1. ReadBack(listed, filled)
    BY RecordsAreReadBack
  <1>2. /\ StoreFits(back) /\ CountsFit(back)
        /\ \A p \in Positions : InPlace(back, p) = filled[p]
    BY <1>1 DEF ReadBack, AllFit
  <1>3. filled \in [Positions -> Cell]
    BY DEF Makes
  <1>4. Contents(back.mem, back.store) = filled
    BY <1>2, <1>3 DEF Contents, InPlace
  <1>5. StatsOf(back.mem, back.store) = StatsFor(filled)
    BY <1>2, <1>4, StatsAre
  <1>6. /\ back.store.solid = Cardinality(SolidsAmong(Positions, filled))
        /\ back.store.hash = TokensOf(filled)
    BY <1>2, <1>4 DEF CountsFit
  <1> QED
    BY <1>2, <1>5, <1>6 DEF InPlace

LEMMA LimitsAreKept ==
  ASSUME GeometryInv, WithinLimits, [GeometryNext]_GeometryVars
  PROVE  WithinLimits'
  <1>1. StoredFits /\ PreparedFits /\ CheckpointFits /\ Stats = StatsFor(cells)
    BY InvParts, StatsOfCells
  <1>2. CASE UNCHANGED <<refined, cells>>
    BY <1>2 DEF WithinLimits, StatsFor
  <1>3. CASE refined' = FALSE
    BY <1>3 DEF WithinLimits
  <1>4. CASE Promote
    <2>1. Allowed(StatsFor(cells)) /\ cells' = cells
      BY <1>1, <1>4 DEF Promote
    <2> QED
      BY <2>1 DEF WithinLimits
  <1>5. CASE Apply
    <2> DEFINE changes == prepared.changes
    <2>1. /\ Some(prepared) /\ prepared.before = world.hash
          /\ BeforeHolds(changes) /\ Allowed(StatsAfter(changes))
          /\ cells' = Changed(prepared.cells, changes)
      BY <1>5 DEF Apply, Validates
    <2>2. /\ ChangesFit(changes) /\ prepared.cells \in [Positions -> Cell]
          /\ prepared.before = TokensOf(prepared.cells)
      BY <1>1, <2>1 DEF PreparedFits
    <2> HIDE DEF changes
    <2>3. prepared.cells = cells
      BY <1>1, <2>1, <2>2, HashIsTokens, TokensTellContents DEF StoredFits
    <2>4. StatsAfter(changes) = StatsFor(Changed(cells, changes))
      BY <1>1, <2>1, <2>2, StatsLead
    <2>5. Allowed(StatsFor(Changed(cells, changes))) /\ cells' = Changed(cells, changes)
      BY <2>1, <2>3, <2>4
    <2> DEFINE new == Changed(cells, changes)
    <2>6. Allowed(StatsFor(new)) /\ cells' = new
      BY <2>5
    <2> HIDE DEF new
    <2> QED
      BY <2>6 DEF WithinLimits
  <1>6. CASE Restore
    <2> DEFINE listed == checkpoint.records
               back == Decoded(listed)
    <2>1. /\ Some(checkpoint) /\ Allowed(StatsOf(back.mem, back.store))
          /\ cells' = checkpoint.cells
      BY <1>6 DEF Restore
    <2>2. Makes(listed, checkpoint.cells)
      BY <1>1, <2>1 DEF CheckpointFits
    <2>3. StatsOf(back.mem, back.store) = StatsFor(checkpoint.cells)
      BY <1>1, <2>2, StatsReadBack
    <2> HIDE DEF listed, back
    <2> DEFINE new == checkpoint.cells
    <2>4. Allowed(StatsFor(new)) /\ cells' = new
      BY <2>1, <2>3
    <2> HIDE DEF new
    <2> QED
      BY <2>4 DEF WithinLimits
  <1>7. CASE SetVoxel \/ ApplyChecked
    <2>1. ~refined /\ refined' = refined
      BY <1>7 DEF SetVoxel, ApplyChecked
    <2> QED
      BY <2>1 DEF WithinLimits
  <1>8. CASE UNCHANGED GeometryVars
    BY <1>2, <1>8 DEF GeometryVars
  <1>9. CASE ObserveChunk \/ TakeSnapshot \/ LetGo \/ Prepare \/ EncodeCheckpoint
    BY <1>2, <1>9 DEF ObserveChunk, TakeSnapshot, LetGo, Prepare, EncodeCheckpoint
  <1>10. CASE Demote
    BY <1>3, <1>10 DEF Demote
  <1> QED
    BY <1>4, <1>5, <1>6, <1>7, <1>8, <1>9, <1>10 DEF GeometryNext

LEMMA StateIsSaved ==
  ASSUME GeometryInv, WithinLimits
  PROVE  EveryStateRestores
  <1> SUFFICES ASSUME refined PROVE EveryStateRestores
    BY DEF EveryStateRestores
  <1>1. StoredFits /\ Stats = StatsFor(cells) /\ Contents(heap, world) = cells
    BY InvParts, StatsOfCells
  <1>2. Allowed(Stats)
    BY <1>1 DEF WithinLimits
  <1>3. EncodedBytes <= MaxCheckpointBytes
    BY <1>1, <1>2, SizeOfState DEF Allowed, Checkpointable
  <1> DEFINE listed == Records
             back == Decoded(listed)
  <1>4. Makes(listed, cells)
    BY <1>1, RecordsMake
  <1> HIDE DEF listed
  <1>5. /\ StatsOf(back.mem, back.store) = StatsFor(cells)
        /\ back.store.solid = Cardinality(SolidsAmong(Positions, cells))
        /\ back.store.hash = TokensOf(cells)
        /\ \A p \in Positions : CellAt(back.mem, back.store, p) = cells[p]
    BY <1>1, <1>4, StatsReadBack
  <1>6. world.solid = Cardinality(SolidsAmong(Positions, cells)) /\ world.hash = TokensOf(cells)
    BY <1>1, HereIs, HashIsTokens DEF StoredFits, AllFit, CountsFit
  <1> HIDE DEF back
  <1>7. /\ Allowed(StatsOf(back.mem, back.store))
        /\ \A p \in Positions : CellAt(back.mem, back.store, p) = cells[p]
        /\ back.store.solid = world.solid /\ back.store.hash = world.hash
    BY <1>1, <1>2, <1>5, <1>6
  <1> QED
    BY <1>2, <1>3, <1>7 DEF EveryStateRestores, back, listed

(* A state that was accepted, whether promoted, changed or restored, is    *)
(* within the limits and fits in a checkpoint, and what is recorded of it  *)
(* is accepted when it is read back, and is that state (geometry.rs:       *)
(* GeometryStats::validate; wire.rs: encode_checkpoint,                    *)
(* decode_checkpoint).                                                     *)
THEOREM EveryStateIsSaved == GeometrySpec => []EveryStateRestores
  <1>1. GeometryInit => GeometryInv /\ WithinLimits
    BY InitFits DEF GeometryInit, WithinLimits
  <1>2. GeometryInv /\ WithinLimits /\ [GeometryNext]_GeometryVars
          => (GeometryInv /\ WithinLimits)'
    BY StepKeeps, LimitsAreKept
  <1>3. GeometryInv /\ WithinLimits => EveryStateRestores
    BY StateIsSaved
  <1> QED
    BY <1>1, <1>2, <1>3, PTL DEF GeometrySpec

-----------------------------------------------------------------------------
(* SchedulerUse.                                                           *)

FlagIsOfThisJob ==
  /\ ~dropped /\ scheduler.busy =>
       /\ submitted \in Jobs \ (presented \cup withdrawn)
       /\ scheduler.cancelled <=> submitted \in revoked
  /\ ~dropped /\ HasAnswer(scheduler) =>
       (Head(scheduler.completed).outcome = "cancelled" => submitted \in revoked)

DeadWorkerHoldsNothing ==
  ~scheduler.thread => scheduler.jobs = <<>> /\ scheduler.running = <<>>

IInv ==
  /\ TypeOK
  /\ CancellationIsExact
  /\ OneOutstandingJob
  /\ FlagIsOfThisJob
  /\ DeadWorkerHoldsNothing

-----------------------------------------------------------------------------
(* What a channel of capacity one holds.                                   *)

LEMMA EmptyOrOne ==
  ASSUME NEW S, NEW q \in AtMostOne(S)
  PROVE  \/ q = <<>>
         \/ /\ q # <<>> /\ Len(q) = 1
            /\ Head(q) \in S
            /\ Tail(q) = <<>>
  <1>1. q \in Seq(S) /\ Len(q) <= 1
    BY DEF AtMostOne
  <1> SUFFICES ASSUME q # <<>>
               PROVE  Len(q) = 1 /\ Head(q) \in S /\ Tail(q) = <<>>
    OBVIOUS
  <1>2. \A r \in Seq(S) : r # <<>> => Len(r) \in Nat \ {0}
    BY EmptySeq, Zenon
  <1>3. Len(q) = 1
    <2>1. Len(q) \in Nat \ {0}
      BY <1>1, <1>2, Zenon
    <2>2. \A n \in Nat \ {0} : n <= 1 => n = 1
      OBVIOUS
    <2> QED
      BY <1>1, <2>1, <2>2, Zenon
  <1>4. Head(q) \in S /\ Tail(q) \in Seq(S) /\ Len(Tail(q)) = Len(q) - 1
    BY <1>1, HeadTailProperties, Zenon
  <1>5. Len(Tail(q)) \notin Nat \ {0}
    BY <1>3, <1>4
  <1>6. Tail(q) = <<>>
    BY <1>2, <1>4, <1>5, Zenon
  <1> QED
    BY <1>3, <1>4, <1>6, Zenon

LEMMA HoldsOne ==
  ASSUME NEW S, NEW x \in S
  PROVE  /\ <<x>> \in AtMostOne(S) /\ <<x>> # <<>>
         /\ Len(<<x>>) = 1 /\ Head(<<x>>) = x /\ Append(<<>>, x) = <<x>>
  BY DEF AtMostOne

LEMMA HoldsNone ==
  ASSUME NEW S
  PROVE  <<>> \in AtMostOne(S) /\ Len(<<>>) = 0
  BY DEF AtMostOne

-----------------------------------------------------------------------------
(* What a change of one component leaves a scheduler.                      *)

LEMMA TypedFlag ==
  ASSUME NEW R, NEW A, NEW s \in Schedulers(R, A), NEW b \in BOOLEAN
  PROVE  /\ [s EXCEPT !.busy = b] \in Schedulers(R, A)
         /\ [s EXCEPT !.cancelled = b] \in Schedulers(R, A)
         /\ [s EXCEPT !.thread = b] \in Schedulers(R, A)
         /\ [s EXCEPT !.sender = b] \in Schedulers(R, A)
         /\ [s EXCEPT !.receiver = b] \in Schedulers(R, A)
  BY SMT DEF Schedulers

LEMMA TypedRequest ==
  ASSUME NEW R, NEW A, NEW s \in Schedulers(R, A), NEW q \in AtMostOne(R)
  PROVE  /\ [s EXCEPT !.jobs = q] \in Schedulers(R, A)
         /\ [s EXCEPT !.running = q] \in Schedulers(R, A)
  BY SMT DEF Schedulers

LEMMA TypedAnswer ==
  ASSUME NEW R, NEW A, NEW s \in Schedulers(R, A), NEW q \in AtMostOne(A)
  PROVE  [s EXCEPT !.completed = q] \in Schedulers(R, A)
  BY SMT DEF Schedulers

(* What each operation that changes several components makes of them.      *)

LEMMA SubmittedScheduler ==
  ASSUME NEW R, NEW A, NEW s \in Schedulers(R, A), NEW request \in R, s.jobs = <<>>
  PROVE  /\ Submitted(s, request) \in Schedulers(R, A)
         /\ Submitted(s, request).jobs # <<>>
         /\ Head(Submitted(s, request).jobs) = request
         /\ Submitted(s, request).running = s.running
         /\ Submitted(s, request).completed = s.completed
         /\ Submitted(s, request).thread = s.thread
         /\ Submitted(s, request).busy
         /\ ~Submitted(s, request).cancelled
  <1>1. /\ Append(s.jobs, request) \in AtMostOne(R)
        /\ Append(s.jobs, request) # <<>> /\ Head(Append(s.jobs, request)) = request
    BY HoldsOne
  <1>2. [s EXCEPT !.cancelled = FALSE] \in Schedulers(R, A)
    BY TypedFlag
  <1>3. [[s EXCEPT !.cancelled = FALSE] EXCEPT !.jobs = Append(s.jobs, request)]
          \in Schedulers(R, A)
    BY <1>1, <1>2, TypedRequest, Zenon
  <1>4. Submitted(s, request) \in Schedulers(R, A)
    BY <1>3, TypedFlag, Zenon DEF Submitted
  <1>5. Submitted(s, request).jobs = Append(s.jobs, request)
    BY Zenon DEF Schedulers, Submitted
  <1>6. /\ Submitted(s, request).running = s.running
        /\ Submitted(s, request).completed = s.completed
        /\ Submitted(s, request).thread = s.thread
        /\ Submitted(s, request).busy
        /\ ~Submitted(s, request).cancelled
    BY Zenon DEF Schedulers, Submitted
  <1> QED
    BY <1>1, <1>4, <1>5, <1>6, Zenon

LEMMA DrainedScheduler ==
  ASSUME NEW R, NEW A, NEW s \in Schedulers(R, A), HasAnswer(s)
  PROVE  /\ Drained(s) \in Schedulers(R, A)
         /\ Drained(s).completed = <<>>
         /\ Drained(s).jobs = s.jobs
         /\ Drained(s).running = s.running
         /\ ~Drained(s).busy
         /\ Drained(s).cancelled = s.cancelled
         /\ Drained(s).thread = s.thread
  <1>1. Tail(s.completed) = <<>> /\ <<>> \in AtMostOne(A)
    BY EmptyOrOne, HoldsNone DEF HasAnswer, Schedulers
  <1>2. [s EXCEPT !.completed = Tail(s.completed)] \in Schedulers(R, A)
    BY <1>1, TypedAnswer, Zenon
  <1>3. Drained(s) \in Schedulers(R, A)
    BY <1>2, TypedFlag, Zenon DEF Drained
  <1> QED
    BY <1>1, <1>3, Zenon DEF Schedulers, Drained

LEMMA ReceivedScheduler ==
  ASSUME NEW R, NEW A, NEW s \in Schedulers(R, A), CanReceive(s)
  PROVE  /\ Received(s) \in Schedulers(R, A)
         /\ Received(s).jobs = <<>>
         /\ Received(s).running = <<Head(s.jobs)>>
         /\ Received(s).completed = s.completed
         /\ Received(s).busy = s.busy
         /\ Received(s).cancelled = s.cancelled
         /\ Received(s).thread = s.thread
  <1>1. Tail(s.jobs) = <<>> /\ <<>> \in AtMostOne(R) /\ Head(s.jobs) \in R
    BY EmptyOrOne, HoldsNone DEF CanReceive, Schedulers
  <1>2. <<Head(s.jobs)>> \in AtMostOne(R)
    BY <1>1, HoldsOne
  <1>3. [s EXCEPT !.running = <<Head(s.jobs)>>] \in Schedulers(R, A)
    BY <1>2, TypedRequest, Zenon
  <1>4. Received(s) \in Schedulers(R, A)
    BY <1>1, <1>3, TypedRequest, Zenon DEF Received
  <1> QED
    BY <1>1, <1>4, Zenon DEF Schedulers, Received

LEMMA SentScheduler ==
  ASSUME NEW R, NEW A, NEW s \in Schedulers(R, A), NEW answer \in A
  PROVE  /\ Sent(s, answer) \in Schedulers(R, A)
         /\ Sent(s, answer).running = <<>>
         /\ Sent(s, answer).completed \in {s.completed, <<answer>>}
         /\ s.receiver \/ Sent(s, answer).completed = s.completed
         /\ Sent(s, answer).jobs = s.jobs
         /\ Sent(s, answer).busy = s.busy
         /\ Sent(s, answer).cancelled = s.cancelled
  <1>1. <<>> \in AtMostOne(R) /\ <<answer>> \in AtMostOne(A)
    BY HoldsOne, HoldsNone
  <1>2. [s EXCEPT !.running = <<>>] \in Schedulers(R, A)
    BY <1>1, TypedRequest, Zenon
  <1>3. CASE s.receiver
    <2>1. Sent(s, answer) \in Schedulers(R, A)
      BY <1>1, <1>2, <1>3, TypedAnswer, Zenon DEF Sent
    <2> QED
      BY <2>1, <1>3, Zenon DEF Schedulers, Sent
  <1>4. CASE ~s.receiver
    <2>1. Sent(s, answer) \in Schedulers(R, A)
      BY <1>2, <1>4, TypedFlag, Zenon DEF Sent
    <2> QED
      BY <2>1, <1>4, Zenon DEF Schedulers, Sent
  <1> QED
    BY <1>3, <1>4

LEMMA PanickedScheduler ==
  ASSUME NEW R, NEW A, NEW s \in Schedulers(R, A)
  PROVE  /\ Panicked(s) \in Schedulers(R, A)
         /\ Panicked(s).running = <<>>
         /\ Panicked(s).jobs = s.jobs
         /\ Panicked(s).completed = s.completed
         /\ Panicked(s).busy = s.busy
         /\ Panicked(s).cancelled = s.cancelled
  <1>1. <<>> \in AtMostOne(R)
    BY HoldsNone
  <1>2. [s EXCEPT !.running = <<>>] \in Schedulers(R, A)
    BY <1>1, TypedRequest, Zenon
  <1>3. Panicked(s) \in Schedulers(R, A)
    BY <1>2, TypedFlag, Zenon DEF Panicked
  <1> QED
    BY <1>3, Zenon DEF Schedulers, Panicked

LEMMA ReceiverClosedScheduler ==
  ASSUME NEW R, NEW A, NEW s \in Schedulers(R, A)
  PROVE  /\ ReceiverClosed(s) \in Schedulers(R, A)
         /\ ReceiverClosed(s).completed = <<>>
         /\ ReceiverClosed(s).jobs = s.jobs
         /\ ReceiverClosed(s).running = s.running
         /\ ReceiverClosed(s).busy = s.busy
         /\ ReceiverClosed(s).cancelled = s.cancelled
         /\ ReceiverClosed(s).thread = s.thread
  <1>1. <<>> \in AtMostOne(A)
    BY HoldsNone
  <1>2. [s EXCEPT !.receiver = FALSE] \in Schedulers(R, A)
    BY TypedFlag
  <1>3. ReceiverClosed(s) \in Schedulers(R, A)
    BY <1>1, <1>2, TypedAnswer, Zenon DEF ReceiverClosed
  <1> QED
    BY <1>3, Zenon DEF Schedulers, ReceiverClosed

-----------------------------------------------------------------------------
(* One outstanding job, said of which slots are occupied.                  *)

Slots ==
  /\ scheduler.jobs # <<>> => scheduler.running = <<>> /\ scheduler.completed = <<>>
  /\ scheduler.running # <<>> => scheduler.completed = <<>>
  /\ scheduler.jobs # <<>> => Head(scheduler.jobs) = submitted
  /\ scheduler.running # <<>> => Head(scheduler.running) = submitted
  /\ scheduler.completed # <<>> => Head(scheduler.completed).job = submitted
  /\ ~dropped /\ ~scheduler.busy =>
       /\ scheduler.jobs = <<>> /\ scheduler.running = <<>>
       /\ scheduler.completed = <<>>

LEMMA OneOccupied ==
  ASSUME NEW s \in Schedulers(Jobs, Results)
  PROVE  Len(s.jobs) + Len(s.running) + Len(s.completed) <= 1
           <=> /\ s.jobs # <<>> => s.running = <<>> /\ s.completed = <<>>
               /\ s.running # <<>> => s.completed = <<>>
  <1>1. /\ s.jobs \in AtMostOne(Jobs) /\ s.running \in AtMostOne(Jobs)
        /\ s.completed \in AtMostOne(Results)
    BY DEF Schedulers
  <1>2. /\ Len(s.jobs) = IF s.jobs = <<>> THEN 0 ELSE 1
        /\ Len(s.running) = IF s.running = <<>> THEN 0 ELSE 1
        /\ Len(s.completed) = IF s.completed = <<>> THEN 0 ELSE 1
    BY <1>1, EmptyOrOne, HoldsNone
  <1> QED
    BY <1>2

LEMMA SlotsAreOneJob ==
  /\ TypeOK => (OneOutstandingJob <=> Slots)
  /\ TypeOK' => (OneOutstandingJob <=> Slots)'
  BY OneOccupied DEF TypeOK, OneOutstandingJob, Slots

(* Numbers of jobs.                                                        *)
LEMMA JobNumbers ==
  ASSUME submitted \in 0..MaxJobs
  PROVE  /\ 1..submitted \subseteq Jobs
         /\ submitted < MaxJobs => /\ submitted + 1 \in Jobs
                                  /\ submitted + 1 \in 0..MaxJobs
                                  /\ submitted + 1 \notin 1..submitted
                                  /\ 1..submitted \subseteq 1..(submitted + 1)
         /\ submitted \in Jobs => submitted \in 1..submitted
  BY MaxJobsAssumption DEF Jobs

-----------------------------------------------------------------------------
(* The invariant holds at first, and every operation preserves it.         *)

LEMMA InitIInv == Init => IInv
  <1> SUFFICES ASSUME Init PROVE IInv
    OBVIOUS
  <1>1. scheduler \in Schedulers(Jobs, Results)
    BY HoldsNone DEF Init, NewScheduler, Schedulers
  <1>2. /\ scheduler.jobs = <<>> /\ scheduler.running = <<>>
        /\ scheduler.completed = <<>> /\ scheduler.busy = FALSE
    BY DEF Init, NewScheduler
  <1>3. TypeOK
    <2>1. submitted \in 0..MaxJobs
      BY MaxJobsAssumption DEF Init
    <2> QED
      BY <1>1, <2>1, Zenon DEF Init, TypeOK
  <1>4. OneOutstandingJob
    BY <1>2, <1>3, SlotsAreOneJob DEF Slots
  <1> QED
    BY <1>2, <1>3, <1>4
       DEF Init, IInv, CancellationIsExact, FlagIsOfThisJob, HasAnswer,
           DeadWorkerHoldsNothing

LEMMA SubmitKeepsIInv ==
  ASSUME IInv, Submit PROVE IInv'
  <1>1. /\ scheduler \in Schedulers(Jobs, Results) /\ Slots
        /\ submitted \in 0..MaxJobs
    BY SlotsAreOneJob DEF IInv, TypeOK
  <1>2. /\ scheduler.jobs = <<>> /\ scheduler.running = <<>>
        /\ scheduler.completed = <<>>
    BY <1>1 DEF Submit, Slots
  <1>3. PICK n \in Jobs : n = submitted + 1
    BY <1>1, JobNumbers DEF Submit
  <1>4. scheduler' = Submitted(scheduler, n)
    BY <1>3 DEF Submit
  <1>5. /\ scheduler' \in Schedulers(Jobs, Results)
        /\ scheduler'.jobs # <<>>
        /\ Head(scheduler'.jobs) = n
        /\ scheduler'.running = scheduler.running
        /\ scheduler'.completed = scheduler.completed
        /\ scheduler'.thread = scheduler.thread
        /\ scheduler'.busy
        /\ ~scheduler'.cancelled
    BY <1>1, <1>2, <1>3, <1>4, SubmittedScheduler
  <1>6. TypeOK'
    BY <1>1, <1>5, JobNumbers DEF Submit, IInv, TypeOK
  <1>7. Slots'
    BY <1>2, <1>3, <1>5 DEF Submit, Slots
  <1>8. OneOutstandingJob'
    BY <1>6, <1>7, SlotsAreOneJob
  <1>9. FlagIsOfThisJob'
    BY <1>1, <1>2, <1>3, <1>5, JobNumbers
       DEF Submit, IInv, TypeOK, FlagIsOfThisJob, HasAnswer
  <1>10. CancellationIsExact'
    BY DEF Submit, IInv, CancellationIsExact
  <1>11. DeadWorkerHoldsNothing'
    BY <1>5 DEF Submit, DeadWorkerHoldsNothing
  <1> QED
    BY <1>6, <1>8, <1>9, <1>10, <1>11 DEF IInv

LEMMA CancelKeepsIInv ==
  ASSUME IInv, Cancel PROVE IInv'
  <1> DEFINE t == CancelPending(scheduler)
  <1>1. scheduler \in Schedulers(Jobs, Results) /\ Slots
    BY SlotsAreOneJob DEF IInv, TypeOK
  <1>2. /\ scheduler.cancelled \/ scheduler.busy \in BOOLEAN
        /\ scheduler.busy = TRUE
    BY <1>1 DEF Schedulers, Cancel
  <1>3. /\ scheduler' = t /\ t \in Schedulers(Jobs, Results)
        /\ t.jobs = scheduler.jobs /\ t.running = scheduler.running
        /\ t.completed = scheduler.completed
        /\ t.busy = scheduler.busy /\ t.cancelled = TRUE
        /\ t.thread = scheduler.thread
    <2>1. scheduler' = t /\ t = [scheduler EXCEPT !.cancelled = TRUE]
      BY <1>1, <1>2 DEF Cancel, CancelPending
    <2> HIDE DEF t
    <2> QED
      BY <1>1, <2>1, TypedFlag, ZenonT(40) DEF Schedulers
  <1> HIDE DEF t
  <1>4. submitted \in Jobs \ (presented \cup withdrawn)
    BY <1>2 DEF Cancel, IInv, FlagIsOfThisJob
  <1>5. TypeOK'
    BY <1>3, <1>4, JobNumbers DEF Cancel, IInv, TypeOK
  <1>6. Slots'
    BY <1>1, <1>3 DEF Cancel, Slots
  <1>7. OneOutstandingJob'
    BY <1>5, <1>6, SlotsAreOneJob
  <1>8. FlagIsOfThisJob'
    BY <1>3, <1>4 DEF Cancel, IInv, FlagIsOfThisJob, HasAnswer
  <1>9. CancellationIsExact'
    BY <1>4 DEF Cancel, IInv, CancellationIsExact
  <1>10. DeadWorkerHoldsNothing'
    BY <1>3 DEF IInv, DeadWorkerHoldsNothing
  <1> QED
    BY <1>5, <1>7, <1>8, <1>9, <1>10 DEF IInv

(* What poll delivers: the answer of the last job, as cancelled exactly if *)
(* the job was revoked.                                                    *)
LEMMA PolledAnswer ==
  ASSUME IInv, ~dropped, HasAnswer(scheduler)
  PROVE  LET answer == Answer(scheduler)
         IN /\ answer.job = submitted
            /\ answer.outcome = "cancelled" <=> submitted \in revoked
            /\ submitted \in Jobs \ (presented \cup withdrawn)
            /\ scheduler.jobs = <<>> /\ scheduler.running = <<>>
  <1> DEFINE first == Head(scheduler.completed)
  <1>1. scheduler \in Schedulers(Jobs, Results) /\ Slots
    BY SlotsAreOneJob DEF IInv, TypeOK
  <1>2. first \in Results
    BY <1>1, EmptyOrOne DEF HasAnswer, Schedulers
  <1>3. first.job = submitted /\ scheduler.jobs = <<>> /\ scheduler.running = <<>>
    BY <1>1 DEF Slots, HasAnswer
  <1>4. scheduler.busy
    BY <1>1 DEF Slots, HasAnswer
  <1>5. /\ submitted \in Jobs \ (presented \cup withdrawn)
        /\ scheduler.cancelled <=> submitted \in revoked
        /\ first.outcome = "cancelled" => submitted \in revoked
    BY <1>4 DEF IInv, FlagIsOfThisJob
  <1>6. CASE scheduler.cancelled
    <2>1. Answer(scheduler) = [first EXCEPT !.outcome = "cancelled"]
      BY <1>6 DEF Answer
    <2> HIDE DEF first
    <2>2. Answer(scheduler).job = first.job /\ Answer(scheduler).outcome = "cancelled"
      BY <1>2, <2>1, Zenon DEF Results
    <2> QED
      BY <1>3, <1>5, <1>6, <2>2
  <1>7. CASE ~scheduler.cancelled
    BY <1>3, <1>5, <1>7 DEF Answer
  <1> QED
    BY <1>6, <1>7

LEMMA PollKeepsIInv ==
  ASSUME IInv, Poll PROVE IInv'
  <1> DEFINE t == Drained(scheduler)
             answer == Answer(scheduler)
  <1>1. scheduler \in Schedulers(Jobs, Results) /\ ~dropped /\ HasAnswer(scheduler)
    BY DEF IInv, TypeOK, Poll
  <1>2. /\ scheduler' = t /\ t \in Schedulers(Jobs, Results)
        /\ t.completed = <<>> /\ ~t.busy
        /\ t.jobs = scheduler.jobs /\ t.running = scheduler.running
        /\ t.thread = scheduler.thread
    BY <1>1, DrainedScheduler DEF Poll
  <1> HIDE DEF t
  <1>3. /\ answer.job = submitted
        /\ answer.outcome = "cancelled" <=> submitted \in revoked
        /\ submitted \in Jobs \ (presented \cup withdrawn)
        /\ scheduler.jobs = <<>> /\ scheduler.running = <<>>
    BY <1>1, PolledAnswer
  <1>4. /\ presented' = IF submitted \in revoked THEN presented
                        ELSE presented \cup {submitted}
        /\ withdrawn' = IF submitted \in revoked THEN withdrawn \cup {submitted}
                        ELSE withdrawn
        /\ UNCHANGED <<submitted, revoked, dropped>>
    BY <1>3 DEF Poll
  <1> HIDE DEF answer
  <1>5. TypeOK'
    BY <1>2, <1>3, <1>4, JobNumbers DEF IInv, TypeOK
  <1>6. Slots'
    BY <1>2, <1>3 DEF Slots
  <1>7. OneOutstandingJob'
    BY <1>5, <1>6, SlotsAreOneJob
  <1>8. FlagIsOfThisJob'
    BY <1>2 DEF FlagIsOfThisJob, HasAnswer
  <1>9. CancellationIsExact'
    BY <1>4 DEF IInv, CancellationIsExact
  <1>10. DeadWorkerHoldsNothing'
    BY <1>2 DEF IInv, DeadWorkerHoldsNothing
  <1> QED
    BY <1>5, <1>7, <1>8, <1>9, <1>10 DEF IInv

(* The steps that deliver no answer, submit nothing and revoke nothing.    *)
LEMMA QuietStep ==
  ASSUME IInv, scheduler' \in Schedulers(Jobs, Results), dropped' \in BOOLEAN,
         UNCHANGED <<submitted, revoked, presented, withdrawn>>,
         Slots', FlagIsOfThisJob', DeadWorkerHoldsNothing'
  PROVE  IInv'
  <1>1. TypeOK'
    BY DEF IInv, TypeOK
  <1>2. CancellationIsExact'
    BY DEF IInv, CancellationIsExact
  <1> QED
    BY <1>1, <1>2, SlotsAreOneJob DEF IInv

(* The parts of the invariant, as the steps below use them.                *)
LEMMA Parts ==
  ASSUME IInv
  PROVE  /\ scheduler \in Schedulers(Jobs, Results) /\ dropped \in BOOLEAN
         /\ Slots /\ FlagIsOfThisJob /\ DeadWorkerHoldsNothing
  BY SlotsAreOneJob DEF IInv, TypeOK

LEMMA SubmitToDeadWorkerKeepsIInv ==
  ASSUME IInv, SubmitToDeadWorker PROVE IInv'
  <1>1. /\ scheduler' = SubmitRefused(scheduler) /\ ~dropped /\ ~scheduler.busy
        /\ UNCHANGED <<submitted, revoked, presented, withdrawn, dropped>>
    BY DEF SubmitToDeadWorker, SchedulerStep
  <1>2. /\ scheduler' \in Schedulers(Jobs, Results)
        /\ scheduler'.jobs = scheduler.jobs
        /\ scheduler'.running = scheduler.running
        /\ scheduler'.completed = scheduler.completed
        /\ scheduler'.busy = scheduler.busy
        /\ scheduler'.thread = scheduler.thread
    BY <1>1, Parts, TypedFlag, ZenonT(40) DEF SubmitRefused, Schedulers
  <1>3. Slots' /\ DeadWorkerHoldsNothing'
    BY <1>1, <1>2, Parts DEF Slots, DeadWorkerHoldsNothing
  <1>4. FlagIsOfThisJob'
    BY <1>1, <1>2, Parts DEF Slots, FlagIsOfThisJob, HasAnswer
  <1> QED
    BY <1>1, <1>2, <1>3, <1>4, Parts, QuietStep

LEMMA PollDeadWorkerKeepsIInv ==
  ASSUME IInv, PollDeadWorker PROVE IInv'
  <1>1. /\ scheduler' = Abandoned(scheduler) /\ ~dropped
        /\ scheduler.completed = <<>> /\ ~scheduler.thread
        /\ UNCHANGED <<submitted, revoked, presented, withdrawn, dropped>>
    BY DEF PollDeadWorker, SchedulerStep, Disconnected
  <1>2. /\ scheduler' \in Schedulers(Jobs, Results)
        /\ scheduler'.jobs = scheduler.jobs
        /\ scheduler'.running = scheduler.running
        /\ scheduler'.completed = scheduler.completed
        /\ ~scheduler'.busy
        /\ scheduler'.thread = scheduler.thread
    BY <1>1, Parts, TypedFlag, ZenonT(40) DEF Abandoned, Schedulers
  <1>3. Slots' /\ DeadWorkerHoldsNothing'
    BY <1>1, <1>2, Parts DEF Slots, DeadWorkerHoldsNothing
  <1>4. FlagIsOfThisJob'
    BY <1>1, <1>2 DEF FlagIsOfThisJob, HasAnswer
  <1> QED
    BY <1>1, <1>2, <1>3, <1>4, Parts, QuietStep

LEMMA DropKeepsIInv ==
  ASSUME IInv, Drop PROVE IInv'
  <1>1. /\ scheduler' = Dropping(scheduler) /\ dropped' = TRUE
        /\ UNCHANGED <<submitted, revoked, presented, withdrawn>>
    BY DEF Drop
  <1>2. /\ scheduler' \in Schedulers(Jobs, Results)
        /\ scheduler'.jobs = scheduler.jobs
        /\ scheduler'.running = scheduler.running
        /\ scheduler'.completed = scheduler.completed
        /\ scheduler'.thread = scheduler.thread
    BY <1>1, Parts, TypedFlag, ZenonT(40) DEF Dropping, Schedulers
  <1>3. Slots' /\ DeadWorkerHoldsNothing'
    BY <1>1, <1>2, Parts DEF Slots, DeadWorkerHoldsNothing
  <1>4. FlagIsOfThisJob'
    BY <1>1 DEF FlagIsOfThisJob
  <1> QED
    BY <1>1, <1>2, <1>3, <1>4, QuietStep

LEMMA CloseSenderKeepsIInv ==
  ASSUME IInv, CloseSender PROVE IInv'
  <1>1. /\ scheduler' = SenderClosed(scheduler) /\ dropped
        /\ UNCHANGED <<submitted, revoked, presented, withdrawn, dropped>>
    BY DEF CloseSender, SchedulerStep
  <1>2. /\ scheduler' \in Schedulers(Jobs, Results)
        /\ scheduler'.jobs = scheduler.jobs
        /\ scheduler'.running = scheduler.running
        /\ scheduler'.completed = scheduler.completed
        /\ scheduler'.thread = scheduler.thread
    <2>1. scheduler' = [scheduler EXCEPT !.sender = FALSE]
      BY <1>1 DEF SenderClosed
    <2>2. scheduler' \in Schedulers(Jobs, Results)
      BY <2>1, Parts, TypedFlag
    <2> QED
      BY <2>1, <2>2, Parts DEF Schedulers
  <1>3. Slots' /\ DeadWorkerHoldsNothing'
    BY <1>1, <1>2, Parts DEF Slots, DeadWorkerHoldsNothing
  <1>4. FlagIsOfThisJob'
    BY <1>1 DEF FlagIsOfThisJob
  <1> QED
    BY <1>1, <1>2, <1>3, <1>4, Parts, QuietStep

LEMMA CloseReceiverKeepsIInv ==
  ASSUME IInv, CloseReceiver PROVE IInv'
  <1>1. /\ scheduler' = ReceiverClosed(scheduler) /\ dropped
        /\ UNCHANGED <<submitted, revoked, presented, withdrawn, dropped>>
    BY DEF CloseReceiver, SchedulerStep
  <1>2. /\ scheduler' \in Schedulers(Jobs, Results)
        /\ scheduler'.completed = <<>>
        /\ scheduler'.jobs = scheduler.jobs
        /\ scheduler'.running = scheduler.running
        /\ scheduler'.thread = scheduler.thread
    BY <1>1, Parts, ReceiverClosedScheduler
  <1>3. Slots' /\ DeadWorkerHoldsNothing'
    BY <1>1, <1>2, Parts DEF Slots, DeadWorkerHoldsNothing
  <1>4. FlagIsOfThisJob'
    BY <1>1, <1>2, Parts DEF Slots, FlagIsOfThisJob, HasAnswer
  <1> QED
    BY <1>1, <1>2, <1>3, <1>4, Parts, QuietStep

LEMMA ReceiveKeepsIInv ==
  ASSUME IInv, Receive PROVE IInv'
  <1>1. /\ scheduler' = Received(scheduler) /\ CanReceive(scheduler)
        /\ UNCHANGED <<submitted, revoked, presented, withdrawn, dropped>>
    BY DEF Receive, SchedulerStep
  <1>2. /\ scheduler' \in Schedulers(Jobs, Results)
        /\ scheduler'.jobs = <<>>
        /\ scheduler'.running = <<Head(scheduler.jobs)>>
        /\ scheduler'.completed = scheduler.completed
        /\ scheduler'.busy = scheduler.busy
        /\ scheduler'.cancelled = scheduler.cancelled
        /\ scheduler'.thread = scheduler.thread
    BY <1>1, Parts, ReceivedScheduler
  <1>3. /\ Head(scheduler'.running) = submitted /\ scheduler.thread
        /\ scheduler.completed = <<>> /\ (~dropped => scheduler.busy)
    BY <1>1, <1>2, Parts DEF Slots, CanReceive
  <1>4. Slots' /\ DeadWorkerHoldsNothing'
    BY <1>1, <1>2, <1>3 DEF Slots, DeadWorkerHoldsNothing
  <1>5. FlagIsOfThisJob'
    BY <1>1, <1>2, <1>3, Parts DEF FlagIsOfThisJob, HasAnswer
  <1> QED
    BY <1>1, <1>2, <1>4, <1>5, Parts, QuietStep

(* The worker answers for the last job, as cancelled only if the flag is   *)
(* up.                                                                     *)
LEMMA SendKeepsIInv ==
  ASSUME IInv, CanSend(scheduler),
         NEW outcome \in {"calculated", "cancelled"},
         outcome = "cancelled" => scheduler.cancelled,
         scheduler' = Sent(scheduler, [job |-> Head(scheduler.running),
                                       outcome |-> outcome]),
         UNCHANGED <<submitted, revoked, presented, withdrawn, dropped>>
  PROVE  IInv'
  <1> DEFINE answer == [job |-> Head(scheduler.running), outcome |-> outcome]
  <1>1. /\ Head(scheduler.running) = submitted /\ scheduler.running # <<>>
        /\ scheduler.jobs = <<>> /\ (~dropped => scheduler.busy)
    BY Parts DEF CanSend, Running, Slots
  <1>2. Head(scheduler.running) \in Jobs
    <2>1. scheduler.running \in AtMostOne(Jobs)
      BY Parts DEF Schedulers
    <2> QED
      BY <1>1, <2>1, EmptyOrOne
  <1>3. answer \in Results /\ answer.job = submitted /\ answer.outcome = outcome
    BY <1>1, <1>2 DEF Results
  <1> HIDE DEF answer
  <1>4. scheduler' = Sent(scheduler, answer)
    BY DEF answer
  <1>5. /\ scheduler' \in Schedulers(Jobs, Results)
        /\ scheduler'.running = <<>>
        /\ scheduler'.completed \in {scheduler.completed, <<answer>>}
        /\ scheduler'.jobs = scheduler.jobs
        /\ scheduler'.busy = scheduler.busy
        /\ scheduler'.cancelled = scheduler.cancelled
    BY <1>3, <1>4, Parts, SentScheduler
  <1>6. scheduler'.completed # <<>> =>
          /\ Head(scheduler'.completed).job = submitted
          /\ Head(scheduler'.completed).outcome = outcome
    <2>1. scheduler.completed = <<>>
      BY <1>1, Parts DEF Slots
    <2>2. Head(<<answer>>) = answer
      BY <1>3, HoldsOne
    <2> QED
      BY <1>3, <1>5, <2>1, <2>2, Zenon
  <1>7. Slots' /\ DeadWorkerHoldsNothing'
    BY <1>1, <1>5, <1>6 DEF Slots, DeadWorkerHoldsNothing
  <1>8. FlagIsOfThisJob'
    BY <1>1, <1>5, <1>6, Parts DEF FlagIsOfThisJob, HasAnswer
  <1> QED
    BY <1>5, <1>7, <1>8, Parts, QuietStep

LEMMA PanicKeepsIInv ==
  ASSUME IInv, Panic PROVE IInv'
  <1>1. /\ scheduler' = Panicked(scheduler) /\ scheduler.running # <<>>
        /\ UNCHANGED <<submitted, revoked, presented, withdrawn, dropped>>
    BY DEF Panic, SchedulerStep, Running
  <1>2. /\ scheduler' \in Schedulers(Jobs, Results)
        /\ scheduler'.running = <<>>
        /\ scheduler'.jobs = scheduler.jobs
        /\ scheduler'.completed = scheduler.completed
        /\ scheduler'.busy = scheduler.busy
        /\ scheduler'.cancelled = scheduler.cancelled
    BY <1>1, Parts, PanickedScheduler
  <1>3. Slots' /\ DeadWorkerHoldsNothing'
    BY <1>1, <1>2, Parts DEF Slots, DeadWorkerHoldsNothing
  <1>4. FlagIsOfThisJob'
    BY <1>1, <1>2, Parts DEF Slots, FlagIsOfThisJob, HasAnswer
  <1> QED
    BY <1>1, <1>2, <1>3, <1>4, Parts, QuietStep

LEMMA ExitKeepsIInv ==
  ASSUME IInv, Exit PROVE IInv'
  <1>1. /\ scheduler' = Exited(scheduler)
        /\ scheduler.jobs = <<>> /\ scheduler.running = <<>>
        /\ UNCHANGED <<submitted, revoked, presented, withdrawn, dropped>>
    BY DEF Exit, SchedulerStep, CanExit
  <1>2. /\ scheduler' \in Schedulers(Jobs, Results)
        /\ scheduler'.jobs = scheduler.jobs
        /\ scheduler'.running = scheduler.running
        /\ scheduler'.completed = scheduler.completed
        /\ scheduler'.busy = scheduler.busy
        /\ scheduler'.cancelled = scheduler.cancelled
    <2>1. scheduler' = [scheduler EXCEPT !.thread = FALSE]
      BY <1>1 DEF Exited
    <2>2. scheduler' \in Schedulers(Jobs, Results)
      BY <2>1, Parts, TypedFlag
    <2> QED
      BY <2>1, <2>2, Parts DEF Schedulers
  <1>3. Slots' /\ DeadWorkerHoldsNothing'
    BY <1>1, <1>2, Parts DEF Slots, DeadWorkerHoldsNothing
  <1>4. FlagIsOfThisJob'
    BY <1>1, <1>2, Parts DEF Slots, FlagIsOfThisJob, HasAnswer
  <1> QED
    BY <1>1, <1>2, <1>3, <1>4, Parts, QuietStep

LEMMA NextKeepsIInv ==
  ASSUME IInv, [Next]_vars PROVE IInv'
  <1>1. CASE Finish
    BY <1>1, SendKeepsIInv DEF Finish, SchedulerStep
  <1>2. CASE GiveUp
    BY <1>2, SendKeepsIInv DEF GiveUp, SchedulerStep
  <1>3. CASE UNCHANGED vars
    <2>1. UNCHANGED <<scheduler, submitted, revoked, presented, withdrawn, dropped>>
      BY <1>3 DEF vars
    <2>2. TypeOK' /\ CancellationIsExact'
      BY <2>1 DEF IInv, TypeOK, CancellationIsExact
    <2>3. OneOutstandingJob' /\ DeadWorkerHoldsNothing'
      BY <2>1 DEF IInv, OneOutstandingJob, DeadWorkerHoldsNothing
    <2>4. FlagIsOfThisJob'
      BY <2>1 DEF IInv, FlagIsOfThisJob, HasAnswer
    <2> QED
      BY <2>2, <2>3, <2>4 DEF IInv
  <1> QED
    BY <1>1, <1>2, <1>3, SubmitKeepsIInv, SubmitToDeadWorkerKeepsIInv,
       CancelKeepsIInv, PollKeepsIInv, PollDeadWorkerKeepsIInv, DropKeepsIInv,
       CloseSenderKeepsIInv, CloseReceiverKeepsIInv, ReceiveKeepsIInv,
       PanicKeepsIInv, ExitKeepsIInv
       DEF Next, Worker

-----------------------------------------------------------------------------
(* A scheduler keeps to its types, under any owner.                        *)
THEOREM SchedulerTypes == Spec => []TypeOK
  <1>1. IInv => TypeOK
    BY DEF IInv
  <1> QED
    BY <1>1, InitIInv, NextKeepsIInv, PTL DEF Spec

(* The single-outstanding discipline that submit's reuse of the shared     *)
(* flag rests on (structural_jobs.rs: submit): whatever the owner calls    *)
(* and whatever becomes of the worker, one job at most is in the channels  *)
(* or being calculated, and the owner is busy while it is.                 *)
THEOREM SchedulerHoldsOneJob == Spec => []OneOutstandingJob
  <1>1. IInv => OneOutstandingJob
    BY DEF IInv
  <1> QED
    BY <1>1, InitIInv, NextKeepsIInv, PTL DEF Spec

(* One flag serves every job in turn, and still no job the owner revoked   *)
(* is presented, and none is withdrawn that it did not revoke              *)
(* (structural_jobs.rs: submit, cancel_pending, poll).                     *)
THEOREM SchedulerCancelsExactly == Spec => []CancellationIsExact
  <1>1. IInv => CancellationIsExact
    BY DEF IInv
  <1> QED
    BY <1>1, InitIInv, NextKeepsIInv, PTL DEF Spec
=============================================================================
