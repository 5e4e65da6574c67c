---------------------------- MODULE QueueProofs -----------------------------
(***************************************************************************)
(* What stays in a queue that is thinned out.  The definition is recursive *)
(* in the length of the queue; the proofs follow it by the least length at *)
(* which a claim would fail.                                               *)
(***************************************************************************)
EXTENDS Queues, SequenceTheorems, WellFoundedInduction, TLAPS

(* A set of naturals that is not empty has a least element.                *)
LEMMA LeastOfNaturals ==
  ASSUME NEW S, S \subseteq Nat, S # {}
  PROVE  \E m \in S : \A j \in S : m <= j
  <1>1. PICK m \in S : \A j \in S : <<j, m>> \notin OpToRel(<, Nat)
    BY WFMin, NatLessThanWellFounded
  <1>2. \A j \in S : ~(j < m)
    BY <1>1 DEF OpToRel
  <1> QED
    BY <1>2

Extends(f, n, q, wanted) ==
  f[n] = IF q[n] \in wanted THEN Append(f[n - 1], q[n]) ELSE f[n - 1]

LEMMA ThinningExists ==
  ASSUME NEW S, NEW q \in Seq(S), NEW wanted, NEW m \in 0..Len(q)
  PROVE  \E f \in [0..m -> Seq(S)] :
           f[0] = <<>> /\ \A n \in 1..m : Extends(f, n, q, wanted)
  <1> DEFINE Good(k) ==
               \E f \in [0..k -> Seq(S)] :
                 f[0] = <<>> /\ \A n \in 1..k : Extends(f, n, q, wanted)
             Bad == {k \in 0..Len(q) : ~Good(k)}
  <1>1. Len(q) \in Nat
    OBVIOUS
  <1>2. SUFFICES ASSUME m \in Bad PROVE FALSE
    OBVIOUS
  <1>3. Bad \subseteq Nat
    BY <1>1
  <1> HIDE DEF Bad
  <1>4. PICK k \in Bad : \A j \in Bad : k <= j
    BY <1>2, <1>3, LeastOfNaturals
  <1>5. k \in 0..Len(q) /\ ~Good(k)
    BY <1>4 DEF Bad
  <1>6. CASE k = 0
    <2> DEFINE f == [n \in 0..0 |-> <<>>]
    <2>1. <<>> \in Seq(S)
      OBVIOUS
    <2>2. f \in [0..k -> Seq(S)] /\ 1..k = {} /\ f[0] = <<>>
      BY <1>6, <2>1
    <2> HIDE DEF f
    <2>3. Good(k)
      BY <2>2
    <2> QED
      BY <1>5, <2>3
  <1>7. CASE k # 0
    <2>1. k - 1 \in 0..Len(q) /\ ~(k <= k - 1)
      BY <1>5, <1>7
    <2>2. Good(k - 1)
      BY <1>4, <2>1 DEF Bad
    <2>3. PICK f \in [0..k - 1 -> Seq(S)] :
            f[0] = <<>> /\ \A n \in 1..k - 1 : Extends(f, n, q, wanted)
      BY <2>2
    <2> DEFINE last == IF q[k] \in wanted THEN Append(f[k - 1], q[k]) ELSE f[k - 1]
               g == [n \in 0..k |-> IF n = k THEN last ELSE f[n]]
    <2>4. k \in 1..Len(q) /\ k - 1 \in 0..k - 1
      BY <1>1, <1>5, <1>7
    <2>5. q[k] \in S
      BY <2>4, ElementOfSeq
    <2>6. f[k - 1] \in Seq(S)
      BY <2>4
    <2>7. last \in Seq(S)
      BY <2>5, <2>6
    <2> HIDE DEF last
    <2>8. g \in [0..k -> Seq(S)]
      BY <1>5, <1>7, <2>7
    <2>9. g[0] = <<>>
      BY <1>5, <1>7, <2>3
    <2>10. \A n \in 1..k - 1 : g[n] = f[n] /\ g[n - 1] = f[n - 1]
      BY <1>5, <1>7
    <2>11. g[k] = last /\ g[k - 1] = f[k - 1]
      BY <1>5, <1>7
    <2>12. \A n \in 1..k : n = k \/ n \in 1..k - 1
      BY <1>5
    <2> HIDE DEF g
    <2>13. \A n \in 1..k - 1 : Extends(g, n, q, wanted)
      BY <2>3, <2>10 DEF Extends
    <2>14. Extends(g, k, q, wanted)
      BY <2>11 DEF Extends, last
    <2>15. \A n \in 1..k : Extends(g, n, q, wanted)
      BY <2>12, <2>13, <2>14
    <2> QED
      BY <1>5, <2>8, <2>9, <2>15
  <1> QED
    BY <1>6, <1>7

(* What is known of the part that was kept of the first n elements.        *)
IsPart(part, n, S, q, wanted) ==
  /\ part \in Seq(S)
  /\ Len(part) <= n
  /\ \A i \in 1..Len(part) : part[i] \in wanted /\ \E j \in 1..n : part[i] = q[j]
  /\ \A j \in 1..n : q[j] \in wanted => \E i \in 1..Len(part) : part[i] = q[j]

LEMMA PartGrows ==
  ASSUME NEW S, NEW q \in Seq(S), NEW wanted, NEW n \in 1..Len(q),
         NEW part, IsPart(part, n - 1, S, q, wanted)
  PROVE  IsPart(IF q[n] \in wanted THEN Append(part, q[n]) ELSE part, n, S, q, wanted)
  <1>1. n \in Nat /\ n - 1 \in Nat /\ n \in 1..n /\ 1..n - 1 \subseteq 1..n
    BY SMT
  <1>2. q[n] \in S
    BY ElementOfSeq
  <1>3. part \in Seq(S) /\ Len(part) \in Nat /\ Len(part) <= n - 1
    BY DEF IsPart
  <1>4. \A j \in 1..n : j = n \/ j \in 1..n - 1
    BY <1>1
  <1>5. CASE q[n] \in wanted
    <2> DEFINE new == Append(part, q[n])
    <2>1. /\ new \in Seq(S)
          /\ Len(new) = Len(part) + 1
          /\ \A i \in 1..Len(part) : new[i] = part[i]
          /\ new[Len(part) + 1] = q[n]
      BY <1>2, <1>3, AppendProperties
    <2> HIDE DEF new
    <2>2. Len(new) <= n
      BY <1>1, <1>3, <2>1
    <2>3. \A i \in 1..Len(new) : i \in 1..Len(part) \/ i = Len(part) + 1
      BY <1>3, <2>1
    <2>4. \A i \in 1..Len(new) : new[i] \in wanted /\ \E j \in 1..n : new[i] = q[j]
      <3> SUFFICES ASSUME NEW i \in 1..Len(new)
                   PROVE  new[i] \in wanted /\ \E j \in 1..n : new[i] = q[j]
        OBVIOUS
      <3>1. CASE i = Len(part) + 1
        BY <3>1, <1>1, <1>5, <2>1
      <3>2. CASE i \in 1..Len(part)
        <4>1. part[i] \in wanted /\ \E j \in 1..n - 1 : part[i] = q[j]
          BY <3>2 DEF IsPart
        <4>2. new[i] = part[i]
          BY <3>2, <2>1
        <4> QED
          BY <4>1, <4>2, <1>1
      <3> QED
        BY <3>1, <3>2, <2>3
    <2>5. \A j \in 1..n : q[j] \in wanted => \E i \in 1..Len(new) : new[i] = q[j]
      <3> SUFFICES ASSUME NEW j \in 1..n, q[j] \in wanted
                   PROVE  \E i \in 1..Len(new) : new[i] = q[j]
        OBVIOUS
      <3>1. CASE j = n
        <4>1. Len(part) + 1 \in 1..Len(new)
          BY <1>3, <2>1
        <4> QED
          BY <3>1, <4>1, <2>1
      <3>2. CASE j \in 1..n - 1
        <4>1. PICK i \in 1..Len(part) : part[i] = q[j]
          BY <3>2 DEF IsPart
        <4>2. i \in 1..Len(new)
          BY <1>3, <2>1
        <4> QED
          BY <4>1, <4>2, <2>1
      <3> QED
        BY <3>1, <3>2, <1>4
    <2>6. IsPart(new, n, S, q, wanted)
      BY <2>1, <2>2, <2>4, <2>5 DEF IsPart
    <2> QED
      BY <1>5, <2>6 DEF new
  <1>6. CASE q[n] \notin wanted
    <2>1. IsPart(part, n, S, q, wanted)
      BY <1>1, <1>3, <1>4, <1>6 DEF IsPart
    <2> QED
      BY <1>6, <2>1
  <1> QED
    BY <1>5, <1>6

(* The parts of a queue that its thinning goes through.                    *)
Thinning(f, S, q, wanted) ==
  /\ f[0] = <<>>
  /\ \A n \in 1..Len(q) : f[n] = IF q[n] \in wanted THEN Append(f[n - 1], q[n]) ELSE f[n - 1]
  /\ \A n \in 0..Len(q) : IsPart(f[n], n, S, q, wanted)

LEMMA KeptIsThinned ==
  ASSUME NEW S, NEW q \in Seq(S), NEW wanted
  PROVE  \E f : Thinning(f, S, q, wanted) /\ Kept(q, wanted) = f[Len(q)]
  <1> DEFINE Rec(f) == [n \in 0..Len(q) |->
                          IF n = 0 THEN <<>>
                          ELSE IF q[n] \in wanted THEN Append(f[n - 1], q[n])
                          ELSE f[n - 1]]
             kept == CHOOSE f : f = Rec(f)
  <1>1. Len(q) \in Nat /\ Len(q) \in 0..Len(q)
    OBVIOUS
  <1>2. PICK f \in [0..Len(q) -> Seq(S)] :
          f[0] = <<>> /\ \A n \in 1..Len(q) : Extends(f, n, q, wanted)
    BY <1>1, ThinningExists
  <1>3. \A n \in 0..Len(q) : n = 0 \/ n \in 1..Len(q)
    BY <1>1
  <1>4. f = Rec(f)
    BY <1>2, <1>3 DEF Extends
  <1>5. kept = Rec(kept)
    BY <1>4
  <1>6. Kept(q, wanted) = kept[Len(q)]
    BY DEF Kept
  <1> HIDE DEF kept
  <1>7. kept[0] = <<>>
    BY <1>1, <1>5
  <1>8. \A n \in 1..Len(q) :
          kept[n] = IF q[n] \in wanted THEN Append(kept[n - 1], q[n]) ELSE kept[n - 1]
    <2> SUFFICES ASSUME NEW n \in 1..Len(q)
                 PROVE  kept[n] = IF q[n] \in wanted THEN Append(kept[n - 1], q[n])
                                  ELSE kept[n - 1]
      OBVIOUS
    <2>1. n \in 0..Len(q) /\ n # 0
      BY <1>1
    <2>2. kept[n] = Rec(kept)[n]
      BY <1>5
    <2> QED
      BY <2>1, <2>2
  <1> DEFINE Bad == {n \in 0..Len(q) : ~IsPart(kept[n], n, S, q, wanted)}
  <1>9. Bad = {}
    <2>1. SUFFICES ASSUME Bad # {} PROVE FALSE
      OBVIOUS
    <2>2. Bad \subseteq Nat
      BY <1>1
    <2> HIDE DEF Bad
    <2>3. PICK k \in Bad : \A j \in Bad : k <= j
      BY <2>1, <2>2, LeastOfNaturals
    <2>4. k \in 0..Len(q) /\ ~IsPart(kept[k], k, S, q, wanted)
      BY <2>3 DEF Bad
    <2>5. CASE k = 0
      <3>1. <<>> \in Seq(S) /\ Len(<<>>) = 0 /\ 1..0 = {}
        OBVIOUS
      <3>2. IsPart(<<>>, 0, S, q, wanted)
        BY <3>1 DEF IsPart
      <3> QED
        BY <2>4, <2>5, <3>2, <1>7
    <2>6. CASE k # 0
      <3>1. k \in 1..Len(q) /\ k - 1 \in 0..Len(q) /\ ~(k <= k - 1)
        BY <2>4, <2>6, <1>1
      <3>2. IsPart(kept[k - 1], k - 1, S, q, wanted)
        BY <3>1, <2>3 DEF Bad
      <3>3. IsPart(kept[k], k, S, q, wanted)
        BY <3>1, <3>2, <1>8, PartGrows
      <3> QED
        BY <2>4, <3>3
    <2> QED
      BY <2>5, <2>6
  <1>10. \A n \in 0..Len(q) : IsPart(kept[n], n, S, q, wanted)
    BY <1>9
  <1>11. Thinning(kept, S, q, wanted)
    BY <1>7, <1>8, <1>10 DEF Thinning
  <1> QED
    BY <1>6, <1>11

(* What stays in a thinned queue is what is wanted of it.                  *)
LEMMA KeptIsPart ==
  ASSUME NEW S, NEW q \in Seq(S), NEW wanted
  PROVE  IsPart(Kept(q, wanted), Len(q), S, q, wanted)
  <1>1. Len(q) \in Nat /\ Len(q) \in 0..Len(q)
    OBVIOUS
  <1> QED
    BY <1>1, KeptIsThinned DEF Thinning

Distinct(seq) == \A i, j \in 1..Len(seq) : seq[i] = seq[j] => i = j

LEMMA DistinctAppended ==
  ASSUME NEW S, NEW seq \in Seq(S), Distinct(seq), NEW e \in S,
         \A i \in 1..Len(seq) : seq[i] # e
  PROVE  Distinct(Append(seq, e))
  <1> DEFINE new == Append(seq, e)
  <1>1. /\ Len(seq) \in Nat /\ Len(new) = Len(seq) + 1
        /\ \A i \in 1..Len(seq) : new[i] = seq[i]
        /\ new[Len(seq) + 1] = e
    BY AppendProperties
  <1> HIDE DEF new
  <1>2. \A i \in 1..Len(new) : i \in 1..Len(seq) \/ i = Len(seq) + 1
    BY <1>1
  <1>3. SUFFICES ASSUME NEW i \in 1..Len(new), NEW j \in 1..Len(new), new[i] = new[j]
                 PROVE  i = j
    BY DEF Distinct, new
  <1>4. CASE i \in 1..Len(seq) /\ j \in 1..Len(seq)
    BY <1>1, <1>3, <1>4 DEF Distinct
  <1>5. CASE i = Len(seq) + 1 \/ j = Len(seq) + 1
    BY <1>1, <1>2, <1>3, <1>5
  <1> QED
    BY <1>2, <1>4, <1>5

(* Nothing is kept twice that was not in the queue twice.                  *)
LEMMA KeptDistinct ==
  ASSUME NEW S, NEW q \in Seq(S), Distinct(q), NEW wanted
  PROVE  Distinct(Kept(q, wanted))
  <1>1. PICK f : Thinning(f, S, q, wanted) /\ Kept(q, wanted) = f[Len(q)]
    BY KeptIsThinned
  <1>2. Len(q) \in Nat
    OBVIOUS
  <1> DEFINE Bad == {n \in 0..Len(q) : ~Distinct(f[n])}
  <1>3. Bad = {}
    <2>1. SUFFICES ASSUME Bad # {} PROVE FALSE
      OBVIOUS
    <2>2. Bad \subseteq Nat
      BY <1>2
    <2> HIDE DEF Bad
    <2>3. PICK k \in Bad : \A j \in Bad : k <= j
      BY <2>1, <2>2, LeastOfNaturals
    <2>4. k \in 0..Len(q) /\ ~Distinct(f[k])
      BY <2>3 DEF Bad
    <2>5. CASE k = 0
      <3>1. Distinct(<<>>)
        BY DEF Distinct
      <3> QED
        BY <1>1, <2>4, <2>5, <3>1 DEF Thinning
    <2>6. CASE k # 0
      <3>1. k \in 1..Len(q) /\ k - 1 \in 0..Len(q) /\ ~(k <= k - 1)
        BY <1>2, <2>4, <2>6
      <3>2. Distinct(f[k - 1])
        BY <3>1, <2>3 DEF Bad
      <3>3. IsPart(f[k - 1], k - 1, S, q, wanted)
        BY <1>1, <3>1 DEF Thinning
      <3>4. f[k - 1] \in Seq(S)
        BY <3>3 DEF IsPart
      <3>5. f[k] = IF q[k] \in wanted THEN Append(f[k - 1], q[k]) ELSE f[k - 1]
        BY <1>1, <3>1 DEF Thinning
      <3>6. \A i \in 1..Len(f[k - 1]) : f[k - 1][i] # q[k]
        <4>1. SUFFICES ASSUME NEW i \in 1..Len(f[k - 1]), f[k - 1][i] = q[k] PROVE FALSE
          OBVIOUS
        <4>2. PICK j \in 1..k - 1 : f[k - 1][i] = q[j]
          BY <3>3 DEF IsPart
        <4>3. j \in 1..Len(q) /\ j # k
          BY <1>2, <3>1
        <4> QED
          BY <3>1, <4>1, <4>2, <4>3 DEF Distinct
      <3>7. q[k] \in S
        BY <3>1, ElementOfSeq
      <3>8. Distinct(Append(f[k - 1], q[k]))
        BY <3>2, <3>4, <3>6, <3>7, DistinctAppended
      <3>9. Distinct(f[k])
        BY <3>2, <3>5, <3>8
      <3> QED
        BY <2>4, <3>9
    <2> QED
      BY <2>5, <2>6
  <1>4. Len(q) \in 0..Len(q)
    BY <1>2
  <1> QED
    BY <1>1, <1>3, <1>4
=============================================================================
