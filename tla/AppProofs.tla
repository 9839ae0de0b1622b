----------------------------- MODULE AppProofs -----------------------------
(***************************************************************************)
(* Proofs about the applications: the Combain location service, for every  *)
(* set of clients and any number of requests, the location sensor as one   *)
(* of its clients, and the SensorTag.                                      *)
(***************************************************************************)
EXTENDS MCQueue, SensorTag, FiniteSetTheorems, SequenceTheorems, WellFoundedInduction, TLAPS

-----------------------------------------------------------------------------
(* Places in a list *)

\* A set of numbers that is not empty has a least element.
LEMMA Least ==
    ASSUME NEW T, T \subseteq Nat, T # {}
    PROVE  \E x \in T : \A y \in T : x <= y
<1> DEFINE R == {ss \in Nat \X Nat : ss[1] < ss[2]}
<1>1. OpToRel(<, Nat) = R
  BY DEF OpToRel
<1>2. IsWellFoundedOn(R, Nat)
  BY <1>1, NatLessThanWellFounded
<1>3. \E x \in T : \A y \in T : ~ (<<y, x>> \in R)
  <2> HIDE DEF R
  <2> QED
    BY <1>2, WFMin
<1>4. PICK x \in T : \A y \in T : ~ (<<y, x>> \in R)
  BY <1>3
<1>5. ASSUME NEW y \in T PROVE x <= y
  <2>1. x \in Nat /\ y \in Nat
    OBVIOUS
  <2>2. <<y, x>> \notin R
    BY <1>4
  <2>3. ~ (y < x)
    BY <2>1, <2>2
  <2> QED
    BY <2>1, <2>3
<1> QED
  BY <1>5

\* The place of number i in set S, counted from 1.
Upto(S, i) == {j \in S : j <= i}
Rank(S, i) == Cardinality(Upto(S, i))

LEMMA RankType ==
    ASSUME NEW L \in Nat, NEW S, S \subseteq 1 .. L, NEW i \in Nat
    PROVE  /\ IsFiniteSet(S) /\ IsFiniteSet(Upto(S, i))
           /\ Rank(S, i) \in Nat /\ Rank(S, i) <= Cardinality(S) /\ Cardinality(S) \in Nat
<1>1. IsFiniteSet(1 .. L)
  BY FS_Interval
<1>2. IsFiniteSet(S)
  BY <1>1, FS_Subset
<1>3. Upto(S, i) \in SUBSET S
  BY DEF Upto
<1>4. IsFiniteSet(Upto(S, i)) /\ Cardinality(Upto(S, i)) <= Cardinality(S)
  BY <1>2, <1>3, FS_Subset
<1> QED
  BY <1>2, <1>4, FS_CardinalityType DEF Rank

\* From one number to the next the place grows by one, or not at all.
LEMMA RankNext ==
    ASSUME NEW L \in Nat, NEW S, S \subseteq 1 .. L, NEW i \in Nat
    PROVE  Rank(S, i + 1) = IF i + 1 \in S THEN Rank(S, i) + 1 ELSE Rank(S, i)
<1>1. IsFiniteSet(Upto(S, i))
  BY RankType
<1>2. CASE i + 1 \in S
  <2>0. ASSUME NEW j \in S PROVE j <= i + 1 <=> (j <= i \/ j = i + 1)
    <3>1. j \in Nat
      OBVIOUS
    <3> QED
      BY <3>1
  <2>1. Upto(S, i + 1) = Upto(S, i) \cup {i + 1}
    BY <1>2, <2>0 DEF Upto
  <2>2. i + 1 \notin Upto(S, i)
    BY DEF Upto
  <2> QED
    BY <1>1, <1>2, <2>1, <2>2, FS_AddElement DEF Rank
<1>3. CASE i + 1 \notin S
  <2>1. ASSUME NEW j \in S PROVE j <= i + 1 <=> j <= i
    BY <1>3
  <2>2. Upto(S, i + 1) = Upto(S, i)
    BY <2>1 DEF Upto
  <2> QED
    BY <1>3, <2>2 DEF Rank
<1> QED
  BY <1>2, <1>3

\* Later members have later places.
LEMMA RankMonotone ==
    ASSUME NEW L \in Nat, NEW S, S \subseteq 1 .. L, NEW i \in S, NEW j \in S, i < j
    PROVE  Rank(S, i) < Rank(S, j)
<1>0. i \in Nat /\ j \in Nat
  OBVIOUS
<1>1. /\ IsFiniteSet(Upto(S, i)) /\ IsFiniteSet(Upto(S, j))
      /\ Rank(S, i) \in Nat /\ Rank(S, j) \in Nat
  BY <1>0, RankType
<1>2. Upto(S, i) \in SUBSET Upto(S, j) /\ j \in Upto(S, j) /\ j \notin Upto(S, i)
  <2>1. ASSUME NEW k \in S, k <= i PROVE k <= j
    <3>1. k \in Nat
      OBVIOUS
    <3> QED
      BY <1>0, <2>1, <3>1
  <2>2. j <= j /\ ~ (j <= i)
    BY <1>0
  <2> QED
    BY <2>1, <2>2 DEF Upto
<1>3. /\ Rank(S, i) <= Rank(S, j)
      /\ Cardinality(Upto(S, j)) = Cardinality(Upto(S, i)) => Upto(S, j) = Upto(S, i)
  BY <1>1, <1>2, FS_Subset DEF Rank
<1>4. Rank(S, j) # Rank(S, i)
  BY <1>2, <1>3 DEF Rank
<1> QED
  BY <1>1, <1>3, <1>4

LEMMA RankInjective ==
    ASSUME NEW L \in Nat, NEW S, S \subseteq 1 .. L, NEW i \in S, NEW j \in S,
           Rank(S, i) = Rank(S, j)
    PROVE  i = j
<1>0. i \in Nat /\ j \in Nat
  OBVIOUS
<1>t. Rank(S, i) \in Nat /\ Rank(S, j) \in Nat
  BY <1>0, RankType
<1>1. ~ (i < j) /\ ~ (j < i)
  <2>1. i < j => Rank(S, i) < Rank(S, j)
    BY RankMonotone
  <2>2. j < i => Rank(S, j) < Rank(S, i)
    BY RankMonotone
  <2> QED
    BY <1>t, <2>1, <2>2
<1> QED
  BY <1>0, <1>1

\* Every place is some member's.
LEMMA RankOnto ==
    ASSUME NEW L \in Nat, NEW S, S \subseteq 1 .. L, NEW n \in 1 .. Cardinality(S)
    PROVE  \E i \in S : Rank(S, i) = n
<1> DEFINE T == {m \in Nat : Rank(S, m) >= n}
<1>c. Cardinality(S) \in Nat
  BY RankType
<1>0. Cardinality(S) \in Nat /\ n \in Nat /\ n > 0 /\ n <= Cardinality(S)
  BY <1>c
<1>e. \A j \in S : j \in Nat /\ j >= 1 /\ j <= L /\ ~ (j <= 0)
  OBVIOUS
<1>1. L \in T
  <2>1. Upto(S, L) = S
    BY <1>e DEF Upto
  <2> QED
    BY <1>0, <2>1 DEF Rank
<1>2. PICK m \in T : \A y \in T : m <= y
  <2> HIDE DEF T
  <2>1. T \subseteq Nat
    BY DEF T
  <2> QED
    BY <1>1, <2>1, Least
<1>3. m \in Nat /\ Rank(S, m) >= n
  OBVIOUS
<1>4. m # 0
  <2>1. Upto(S, 0) = {}
    BY <1>e DEF Upto
  <2>2. Rank(S, 0) = 0
    BY <2>1, FS_EmptySet DEF Rank
  <2> QED
    BY <1>0, <1>3, <2>2
<1>5. m - 1 \in Nat /\ (m - 1) + 1 = m
  BY <1>3, <1>4
<1>6. Rank(S, m - 1) \in Nat /\ ~ (Rank(S, m - 1) >= n)
  <2>1. Rank(S, m - 1) \in Nat
    BY <1>5, RankType
  <2>2. m - 1 \notin T
    BY <1>2, <1>3, <1>5
  <2> QED
    BY <1>5, <2>1, <2>2
<1>7. Rank(S, m) = IF m \in S THEN Rank(S, m - 1) + 1 ELSE Rank(S, m - 1)
  <2>1. Rank(S, (m - 1) + 1) = IF (m - 1) + 1 \in S THEN Rank(S, m - 1) + 1 ELSE Rank(S, m - 1)
    BY <1>5, RankNext
  <2> QED
    BY <1>5, <2>1
<1>8. m \in S /\ Rank(S, m) = n
  <2> HIDE DEF T
  <2> QED
    BY <1>0, <1>3, <1>6, <1>7
<1> QED
  BY <1>8

-----------------------------------------------------------------------------
(* std::remove_if *)

Records == [handle : Handles, client : Clients, request : {"null", "builder"},
            result : Outcomes \cup {"none"}]

Rest(L, M, f) == {i \in 1 .. L : i >= f} \ M

\* r is list s, of length L, after remove_if of the records at M: f is the first of them,
\* e the last place that is written, and k says which record it is written with.
Compacted(s, r, L, M, f, e, k) ==
    /\ f \in M /\ \A j \in M : f <= j
    /\ e \in Nat /\ e <= L
    /\ k \in [f .. e -> Rest(L, M, f)]
    /\ \A a, b \in f .. e : a < b => k[a] < k[b]
    /\ \A p \in Rest(L, M, f) : \E a \in f .. e : k[a] = p
    /\ r = [i \in 1 .. L |-> IF i < f THEN s[i] ELSE IF i <= e THEN s[k[i]]
                             ELSE IF i \in M THEN s[i] ELSE MovedFrom(s[i])]

LEMMA RemoveIfCompacts ==
    ASSUME NEW s, NEW L \in Nat, DOMAIN s = 1 .. L, NEW M, M \subseteq 1 .. L, M # {}
    PROVE  \E f, e, k : Compacted(s, RemoveIf(s, M), L, M, f, e, k)
<1> DEFINE f == CHOOSE i \in M : \A j \in M : i <= j
           R == Rest(L, M, f)
           kept(n) == CHOOSE i \in R : Rank(R, i) = n
           e == f - 1 + Cardinality(R)
           k == [i \in f .. e |-> kept(i - f + 1)]
<1>1. f \in M /\ \A j \in M : f <= j
  <2>1. M \subseteq Nat
    OBVIOUS
  <2>2. \E i \in M : \A j \in M : i <= j
    BY <2>1, Least
  <2> QED
    BY <2>2
<1>2. f \in Nat /\ f >= 1 /\ f <= L
  <2>1. f \in 1 .. L
    BY <1>1
  <2> HIDE DEF f
  <2> QED
    BY <2>1
<1>r. RemoveIf(s, M) = [i \in 1 .. L |-> IF i < f THEN s[i] ELSE IF i <= e THEN s[kept(i - f + 1)]
                             ELSE IF i \in M THEN s[i] ELSE MovedFrom(s[i])]
  BY DEF RemoveIf, Rest, Rank, Upto
<1> HIDE DEF f
<1>3. R \subseteq 1 .. L /\ R \subseteq f .. L
  BY <1>2 DEF Rest
<1>4. Cardinality(R) \in Nat /\ Cardinality(R) <= (L - f) + 1
  <2>1. Cardinality(R) \in Nat
    BY <1>3, RankType
  <2>2. IsFiniteSet(f .. L) /\ Cardinality(f .. L) = (L - f) + 1
    BY <1>2, FS_Interval
  <2>3. Cardinality(R) <= Cardinality(f .. L)
    BY <1>3, <2>2, FS_Subset
  <2> QED
    BY <2>1, <2>2, <2>3
<1>5. e \in Nat /\ e <= L /\ e = (f - 1) + Cardinality(R)
  BY <1>2, <1>4
<1>6. ASSUME NEW n \in 1 .. Cardinality(R) PROVE kept(n) \in R /\ Rank(R, kept(n)) = n
  <2>1. \E i \in R : Rank(R, i) = n
    BY <1>3, RankOnto
  <2> HIDE DEF R
  <2> QED
    BY <2>1
<1> HIDE DEF R, kept, e
<1>7. ASSUME NEW i \in f .. e
      PROVE  /\ i \in Nat /\ i - f + 1 \in 1 .. Cardinality(R) /\ k[i] = kept(i - f + 1)
             /\ k[i] \in R /\ Rank(R, k[i]) = (i - f) + 1
  <2>1. i \in Nat /\ i - f + 1 \in 1 .. Cardinality(R) /\ i - f + 1 = (i - f) + 1
    BY <1>2, <1>4, <1>5
  <2> QED
    BY <1>6, <2>1
<1>8. k \in [f .. e -> R]
  BY <1>7
<1>9. ASSUME NEW a \in f .. e, NEW b \in f .. e, a < b PROVE k[a] < k[b]
  <2>1. /\ a \in Nat /\ b \in Nat /\ k[a] \in R /\ k[b] \in R
        /\ Rank(R, k[a]) = (a - f) + 1 /\ Rank(R, k[b]) = (b - f) + 1
    BY <1>7
  <2>2. k[a] \in Nat /\ k[b] \in Nat
    <3>1. \A p \in R : p \in Nat
      BY <1>3
    <3> HIDE DEF k
    <3> QED
      BY <2>1, <3>1
  <2>3. k[b] < k[a] => Rank(R, k[b]) < Rank(R, k[a])
    BY <1>3, <2>1, RankMonotone
  <2>4. Rank(R, k[a]) < Rank(R, k[b])
    BY <1>2, <1>9, <2>1
  <2>5. ~ (k[b] < k[a]) /\ k[a] # k[b]
    <3>1. Rank(R, k[a]) \in Nat /\ Rank(R, k[b]) \in Nat
      BY <1>3, <2>2, RankType
    <3> QED
      BY <2>3, <2>4, <3>1
  <2> QED
    BY <2>2, <2>5
<1>10. ASSUME NEW p \in R PROVE \E a \in f .. e : k[a] = p
  <2> DEFINE n == Rank(R, p)
  <2>1. p \in Nat
    BY <1>3
  <2>2. n \in Nat /\ n <= Cardinality(R) /\ n # 0
    <3>1. n \in Nat /\ n <= Cardinality(R) /\ IsFiniteSet(Upto(R, p))
      BY <1>3, <2>1, RankType
    <3>2. p \in Upto(R, p)
      BY <2>1 DEF Upto
    <3> QED
      BY <3>1, <3>2, FS_EmptySet DEF Rank
  <2> HIDE DEF n
  <2>3. (f + n) - 1 \in f .. e /\ (((f + n) - 1) - f) + 1 = n
    BY <1>2, <1>4, <1>5, <2>2
  <2>4. k[(f + n) - 1] \in R /\ Rank(R, k[(f + n) - 1]) = n
    BY <1>7, <2>3
  <2>5. k[(f + n) - 1] = p
    BY <1>3, <2>4, RankInjective DEF n
  <2> QED
    BY <2>3, <2>5
<1>11. RemoveIf(s, M) = [i \in 1 .. L |-> IF i < f THEN s[i] ELSE IF i <= e THEN s[k[i]]
                             ELSE IF i \in M THEN s[i] ELSE MovedFrom(s[i])]
  <2>1. ASSUME NEW i \in 1 .. L, ~ (i < f), i <= e PROVE kept(i - f + 1) = k[i]
    <3>1. i \in f .. e
      BY <1>2, <1>5, <2>1
    <3> QED
      BY <1>7, <3>1
  <2> HIDE DEF k
  <2> QED
    BY <1>r, <2>1
<1>12. Compacted(s, RemoveIf(s, M), L, M, f, e, k)
  <2> HIDE DEF k
  <2> QED
    BY <1>1, <1>5, <1>8, <1>9, <1>10, <1>11 DEF Compacted, R
<1> QED
  BY <1>12

\* What a record of the new list was made of: only moved-from records may be made of one
\* that is elsewhere too.
MadeOf(s, r, L, src) ==
    /\ src \in [1 .. L -> 1 .. L]
    /\ \A i \in 1 .. L : r[i] = s[src[i]] \/ r[i] = MovedFrom(s[src[i]])
    /\ \A i, j \in 1 .. L : r[i].request = "builder" /\ r[j].request = "builder" /\ src[i] = src[j]
                              => i = j

LEMMA RemoveIfMoves ==
    ASSUME NEW s, NEW L \in Nat, s \in [1 .. L -> Records], NEW M, M \subseteq 1 .. L
    PROVE  /\ RemoveIf(s, M) \in [1 .. L -> Records]
           /\ \E src : MadeOf(s, RemoveIf(s, M), L, src)
<1>0. ASSUME NEW x \in Records PROVE MovedFrom(x) \in Records /\ MovedFrom(x).request = "null"
  BY DEF MovedFrom, Records
<1>1. CASE M = {}
  <2>1. RemoveIf(s, M) = s
    BY <1>1 DEF RemoveIf
  <2>2. MadeOf(s, s, L, [i \in 1 .. L |-> i])
    BY DEF MadeOf
  <2> QED
    BY <2>1, <2>2
<1>2. CASE M # {}
  <2> DEFINE r == RemoveIf(s, M)
  <2>1. PICK f, e, k : Compacted(s, r, L, M, f, e, k)
    BY <1>2, RemoveIfCompacts
  <2> HIDE DEF r
  <2> DEFINE R == Rest(L, M, f)
             src == [i \in 1 .. L |-> IF i < f \/ i > e THEN i ELSE k[i]]
  <2>2. /\ f \in Nat /\ e \in Nat /\ k \in [f .. e -> R] /\ f \in M
        /\ \A a, b \in f .. e : a < b => k[a] < k[b]
        /\ r = [i \in 1 .. L |-> IF i < f THEN s[i] ELSE IF i <= e THEN s[k[i]]
                                 ELSE IF i \in M THEN s[i] ELSE MovedFrom(s[i])]
    <3>1. f \in M
      BY <2>1 DEF Compacted
    <3>2. f \in Nat
      BY <3>1
    <3> QED
      BY <2>1, <3>1, <3>2 DEF Compacted
  <2>3. ASSUME NEW i \in 1 .. L, ~ (i < f \/ i > e)
        PROVE  i \in f .. e /\ k[i] \in R /\ k[i] \in 1 .. L /\ k[i] >= f /\ k[i] \notin M
    <3>1. i \in f .. e
      BY <2>2, <2>3
    <3>2. k[i] \in R
      BY <2>2, <3>1
    <3> QED
      BY <3>1, <3>2 DEF Rest
  <2>4. src \in [1 .. L -> 1 .. L]
    BY <2>3
  <2>5. ASSUME NEW i \in 1 .. L
        PROVE  /\ src[i] = IF i < f \/ i > e THEN i ELSE k[i]
               /\ src[i] \in 1 .. L /\ s[src[i]] \in Records
               /\ r[i] = IF i > e /\ ~ (i < f) /\ i \notin M THEN MovedFrom(s[src[i]]) ELSE s[src[i]]
    <3>1. src[i] = (IF i < f \/ i > e THEN i ELSE k[i]) /\ src[i] \in 1 .. L
      BY <2>4
    <3>2. r[i] = IF i < f THEN s[i] ELSE IF i <= e THEN s[k[i]]
                 ELSE IF i \in M THEN s[i] ELSE MovedFrom(s[i])
      BY <2>2
    <3> HIDE DEF src
    <3>3. s[src[i]] \in Records
      BY <3>1
    <3>4. i \in Nat /\ (i <= e <=> ~ (i > e))
      BY <2>2
    <3> QED
      BY <3>1, <3>2, <3>3, <3>4
  <2>6. r \in [1 .. L -> Records]
    <3>1. ASSUME NEW i \in 1 .. L PROVE r[i] \in Records
      <4> HIDE DEF src
      <4> QED
        BY <1>0, <2>5
    <3>2. r = [i \in 1 .. L |-> r[i]]
      BY <2>2
    <3> QED
      BY <3>1, <3>2
  <2>7. ASSUME NEW i \in 1 .. L, NEW j \in 1 .. L, r[i].request = "builder",
               r[j].request = "builder", src[i] = src[j]
        PROVE  i = j
    <3> HIDE DEF src
    <3>1. ~ (i > e /\ ~ (i < f) /\ i \notin M) /\ ~ (j > e /\ ~ (j < f) /\ j \notin M)
      BY <1>0, <2>5, <2>7
    <3>2. i \in Nat /\ j \in Nat
      OBVIOUS
    <3>3. CASE i < f \/ i > e
      <4>1. CASE j < f \/ j > e
        BY <2>5, <2>7, <3>3, <4>1
      <4>2. CASE ~ (j < f \/ j > e)
        <5>1. i = k[j] /\ k[j] >= f /\ k[j] \notin M
          BY <2>3, <2>5, <2>7, <3>3, <4>2
        <5> QED
          BY <2>2, <3>1, <3>2, <3>3, <5>1
      <4> QED
        BY <4>1, <4>2
    <3>4. CASE ~ (i < f \/ i > e)
      <4>0. i \in f .. e /\ k[i] \in 1 .. L /\ k[i] >= f /\ k[i] \notin M
        BY <2>3, <3>4
      <4>1. CASE j < f \/ j > e
        <5>1. j = k[i]
          BY <2>5, <2>7, <3>4, <4>1
        <5> QED
          BY <2>2, <3>1, <3>2, <4>0, <4>1, <5>1
      <4>2. CASE ~ (j < f \/ j > e)
        <5>1. k[i] = k[j] /\ j \in f .. e /\ k[i] \in Nat
          BY <2>3, <2>5, <2>7, <3>4, <4>0, <4>2
        <5>2. ~ (i < j) /\ ~ (j < i)
          <6>1. (i < j => k[i] < k[j]) /\ (j < i => k[j] < k[i])
            BY <2>2, <4>0, <5>1
          <6> QED
            BY <5>1, <6>1
        <5> QED
          BY <3>2, <5>2
      <4> QED
        BY <4>1, <4>2
    <3> QED
      BY <3>3, <3>4
  <2>8. MadeOf(s, r, L, src)
    <3> HIDE DEF src
    <3> QED
      BY <2>4, <2>5, <2>7 DEF MadeOf
  <2> QED
    BY <2>6, <2>8 DEF r
<1> QED
  BY <1>1, <1>2

\* None of the records at M is of handle h, the first record of which is at p.
FirstAt(s, L, M, h, p) ==
    /\ \A j \in M : s[j].handle # h
    /\ p \in 1 .. L /\ s[p].handle = h /\ \A j \in 1 .. (p - 1) : s[j].handle # h

\* The first record of a handle that is not removed stays its first record.
LEMMA RemoveIfKeepsFirst ==
    ASSUME NEW s, NEW L \in Nat, s \in [1 .. L -> Records], NEW M, M \subseteq 1 .. L,
           NEW h, NEW p, FirstAt(s, L, M, h, p)
    PROVE  \E q : q \in 1 .. L /\ RemoveIf(s, M)[q] = s[p] /\ FirstAt(RemoveIf(s, M), L, {}, h, q)
<1>p. p \in 1 .. L /\ s[p].handle = h /\ \A j \in 1 .. (p - 1) : s[j].handle # h
  BY DEF FirstAt
<1>m. \A j \in M : s[j].handle # h
  BY DEF FirstAt
<1>1. CASE M = {}
  <2>1. RemoveIf(s, M) = s
    BY <1>1 DEF RemoveIf
  <2> QED
    BY <1>p, <2>1 DEF FirstAt
<1>2. CASE M # {}
  <2> DEFINE r == RemoveIf(s, M)
  <2>1. PICK f, e, k : Compacted(s, r, L, M, f, e, k)
    BY <1>2, RemoveIfCompacts
  <2> HIDE DEF r
  <2>2. /\ f \in M /\ e \in Nat /\ e <= L /\ k \in [f .. e -> Rest(L, M, f)]
        /\ \A a, b \in f .. e : a < b => k[a] < k[b]
        /\ \A i \in Rest(L, M, f) : \E a \in f .. e : k[a] = i
    BY <2>1 DEF Compacted
  <2>r. r = [i \in 1 .. L |-> IF i < f THEN s[i] ELSE IF i <= e THEN s[k[i]]
                             ELSE IF i \in M THEN s[i] ELSE MovedFrom(s[i])]
    BY <2>1 DEF Compacted
  <2>3. f \in Nat /\ f >= 1 /\ p \in Nat
    <3>1. f \in 1 .. L
      BY <2>2
    <3> QED
      BY <1>p, <3>1
  <2>4. CASE p < f
    <3>1. ASSUME NEW j \in 1 .. p PROVE r[j] = s[j]
      <4>1. j \in 1 .. L /\ j < f
        BY <1>p, <2>3, <2>4
      <4> QED
        BY <2>r, <4>1
    <3>2. p \in 1 .. p /\ \A j \in 1 .. (p - 1) : j \in 1 .. p
      BY <1>p, <2>3
    <3>3. r[p] = s[p] /\ \A j \in 1 .. (p - 1) : r[j].handle # h
      BY <1>p, <3>1, <3>2
    <3>4. FirstAt(r, L, {}, h, p)
      BY <1>p, <3>3 DEF FirstAt
    <3> QED
      BY <1>p, <3>3, <3>4 DEF r
  <2>5. CASE ~ (p < f)
    <3>1. p \in Rest(L, M, f)
      BY <1>p, <1>m, <2>3, <2>5 DEF Rest
    <3>2. PICK q \in f .. e : k[q] = p
      BY <2>2, <3>1
    <3>3. q \in 1 .. L /\ q \in Nat /\ ~ (q < f) /\ q <= e
      BY <2>2, <2>3
    <3>4. r[q] = s[p]
      BY <2>r, <3>2, <3>3
    <3>5. ASSUME NEW j \in 1 .. (q - 1) PROVE r[j].handle # h
      <4>0. j \in 1 .. L /\ j \in Nat /\ j < q
        BY <3>3
      <4>1. CASE j < f
        <5>1. r[j] = s[j]
          BY <2>r, <4>0, <4>1
        <5>2. j \in 1 .. (p - 1)
          BY <2>3, <2>5, <4>0, <4>1
        <5> QED
          BY <1>p, <5>1, <5>2
      <4>2. CASE ~ (j < f)
        <5>1. j \in f .. e /\ j <= e
          BY <2>2, <2>3, <3>3, <4>0, <4>2
        <5>2. r[j] = s[k[j]]
          BY <2>r, <4>0, <4>2, <5>1
        <5>3. k[j] < p /\ k[j] \in Rest(L, M, f)
          BY <2>2, <3>2, <4>0, <5>1
        <5>4. k[j] \in 1 .. (p - 1)
          BY <2>3, <5>3 DEF Rest
        <5> QED
          BY <1>p, <5>2, <5>4
      <4> QED
        BY <4>1, <4>2
    <3>6. FirstAt(r, L, {}, h, q)
      BY <1>p, <3>3, <3>4, <3>5 DEF FirstAt
    <3> QED
      BY <3>3, <3>4, <3>6 DEF r
  <2> QED
    BY <2>4, <2>5
<1> QED
  BY <1>1, <1>2

-----------------------------------------------------------------------------
(* The requests under way, in order *)

HandlesOf(R) == [i \in DOMAIN R |-> R[i][1]]
AtWork(at, h) == IF at = "perform" THEN <<h>> ELSE << >>
Flow(a, R, w, Q) == a \o HandlesOf(R) \o (w \o Q)
Responses == Handles \X Answers

LEMMA SameInterval ==
    ASSUME NEW m \in Nat, NEW n \in Nat, 1 .. m = 1 .. n
    PROVE  m = n
<1>1. m # 0 => m \in 1 .. m
  OBVIOUS
<1>2. n # 0 => n \in 1 .. n
  OBVIOUS
<1>3. m # 0 => m <= n
  <2>1. ASSUME m # 0 PROVE m <= n
    <3>1. m \in 1 .. n
      BY <1>1, <2>1
    <3> QED
      BY <3>1
  <2> QED
    BY <2>1
<1>4. n # 0 => n <= m
  <2>1. ASSUME n # 0 PROVE n <= m
    <3>1. n \in 1 .. m
      BY <1>2, <2>1
    <3> QED
      BY <3>1
  <2> QED
    BY <2>1
<1> QED
  BY <1>3, <1>4

LEMMA HandlesOfType ==
    ASSUME NEW R \in Seq(Responses)
    PROVE  /\ HandlesOf(R) \in Seq(Handles) /\ Len(HandlesOf(R)) = Len(R)
           /\ \A i \in 1 .. Len(R) : HandlesOf(R)[i] = R[i][1]
<1> DEFINE n == Len(R)
<1>1. n \in Nat /\ DOMAIN R = 1 .. n /\ \A i \in 1 .. n : R[i] \in Responses
  BY LenProperties
<1>2. HandlesOf(R) \in [1 .. n -> Handles] /\ \A i \in 1 .. n : HandlesOf(R)[i] = R[i][1]
  BY <1>1 DEF HandlesOf, Responses
<1> HIDE DEF n
<1>3. HandlesOf(R) \in Seq(Handles)
  BY <1>1, <1>2, SeqDef
<1>4. Len(HandlesOf(R)) \in Nat /\ DOMAIN HandlesOf(R) = 1 .. Len(HandlesOf(R)) /\ DOMAIN HandlesOf(R) = 1 .. n
  BY <1>2, <1>3, LenProperties
<1>5. Len(HandlesOf(R)) = n
  BY <1>1, <1>4, SameInterval
<1> QED
  BY <1>2, <1>3, <1>5 DEF n

LEMMA HandlesOfAppend ==
    ASSUME NEW R \in Seq(Responses), NEW x \in Responses
    PROVE  HandlesOf(Append(R, x)) = HandlesOf(R) \o <<x[1]>>
<1> DEFINE T == Append(R, x)
<1>1. x[1] \in Handles
  BY DEF Responses
<1>2. /\ T \in Seq(Responses) /\ Len(T) = Len(R) + 1 /\ T[Len(R) + 1] = x
      /\ \A i \in 1 .. Len(R) : T[i] = R[i]
  BY AppendProperties
<1> HIDE DEF T
<1>3. /\ HandlesOf(T) \in Seq(Handles) /\ Len(HandlesOf(T)) = Len(R) + 1
      /\ \A i \in 1 .. (Len(R) + 1) : HandlesOf(T)[i] = T[i][1]
  BY <1>2, HandlesOfType
<1>4. /\ HandlesOf(R) \in Seq(Handles) /\ Len(HandlesOf(R)) = Len(R)
      /\ \A i \in 1 .. Len(R) : HandlesOf(R)[i] = R[i][1]
  BY HandlesOfType
<1> DEFINE U == Append(HandlesOf(R), x[1])
<1>5. /\ U \in Seq(Handles) /\ Len(U) = Len(R) + 1 /\ U[Len(R) + 1] = x[1]
      /\ \A i \in 1 .. Len(R) : U[i] = HandlesOf(R)[i]
  BY <1>1, <1>4, AppendProperties
<1>6. U = HandlesOf(R) \o <<x[1]>>
  BY <1>1, <1>4, AppendIsConcat
<1> HIDE DEF U
<1>n. Len(R) \in Nat
  BY LenProperties
<1>7. ASSUME NEW i \in 1 .. (Len(R) + 1) PROVE HandlesOf(T)[i] = U[i]
  <2>1. CASE i \in 1 .. Len(R)
    BY <1>2, <1>3, <1>4, <1>5, <2>1, SMTT(30)
  <2>2. CASE i = Len(R) + 1
    BY <1>2, <1>3, <1>5, <2>2
  <2> QED
    BY <1>n, <2>1, <2>2
<1>8. HandlesOf(T) = U
  BY <1>3, <1>5, <1>7, SeqEqual
<1> QED
  BY <1>6, <1>8 DEF T

\* A sequence is its head and its tail.
LEMMA HeadAndTail ==
    ASSUME NEW S, NEW s \in Seq(S), s # << >>
    PROVE  Head(s) \in S /\ Tail(s) \in Seq(S) /\ s = <<Head(s)>> \o Tail(s)
<1>1. /\ Head(s) \in S /\ Tail(s) \in Seq(S) /\ Len(Tail(s)) = Len(s) - 1
      /\ \A i \in 1 .. Len(Tail(s)) : Tail(s)[i] = s[i + 1]
  BY HeadTailProperties
<1>2. Len(s) \in Nat /\ Len(s) # 0
  BY EmptySeq
<1>3. <<Head(s)>> \in Seq(S) /\ Len(<<Head(s)>>) = 1 /\ <<Head(s)>>[1] = Head(s) /\ Head(s) = s[1]
  BY <1>1, <1>2
<1> DEFINE H == <<Head(s)>>
           T == Tail(s)
           C == H \o T
<1> HIDE DEF H, T
<1>4. /\ C \in Seq(S) /\ Len(C) = Len(H) + Len(T)
      /\ \A i \in 1 .. Len(H) + Len(T) : C[i] = IF i <= Len(H) THEN H[i] ELSE T[i - Len(H)]
  BY <1>1, <1>3, ConcatProperties DEF H, T
<1> HIDE DEF C
<1>5. Len(H) = 1 /\ Len(T) = Len(s) - 1 /\ H[1] = s[1] /\ \A i \in 1 .. Len(T) : T[i] = s[i + 1]
  BY <1>1, <1>3 DEF H, T
<1>6. ASSUME NEW i \in 1 .. Len(s) PROVE C[i] = s[i]
  <2>1. i \in 1 .. Len(H) + Len(T) /\ C[i] = IF i <= 1 THEN H[i] ELSE T[i - 1]
    BY <1>2, <1>4, <1>5
  <2>2. CASE i = 1
    BY <1>5, <2>1, <2>2
  <2>3. CASE i # 1
    <3>1. i - 1 \in 1 .. Len(T) /\ (i - 1) + 1 = i /\ ~ (i <= 1)
      BY <1>2, <1>5, <2>3
    <3>2. T[i - 1] = s[(i - 1) + 1]
      BY <1>5, <3>1
    <3> QED
      BY <2>1, <3>1, <3>2
  <2> QED
    BY <2>2, <2>3
<1>7. Len(C) = Len(s)
  BY <1>2, <1>4, <1>5
<1>8. C = s
  BY <1>4, <1>6, <1>7, SeqEqual
<1> QED
  BY <1>1, <1>8 DEF C, H, T

LEMMA HandlesOfTail ==
    ASSUME NEW R \in Seq(Responses), R # << >>
    PROVE  /\ Head(R)[1] \in Handles /\ Tail(R) \in Seq(Responses)
           /\ HandlesOf(R) = <<Head(R)[1]>> \o HandlesOf(Tail(R))
<1> DEFINE T == Tail(R)
<1>1. /\ Head(R) \in Responses /\ T \in Seq(Responses) /\ Len(T) = Len(R) - 1
      /\ \A i \in 1 .. Len(T) : T[i] = R[i + 1]
  BY HeadTailProperties
<1>2. Len(R) \in Nat /\ Len(R) # 0 /\ Head(R) = R[1] /\ Head(R)[1] \in Handles
  BY <1>1, EmptySeq DEF Responses
<1> HIDE DEF T
<1>3. /\ HandlesOf(R) \in Seq(Handles) /\ Len(HandlesOf(R)) = Len(R)
      /\ \A i \in 1 .. Len(R) : HandlesOf(R)[i] = R[i][1]
  BY HandlesOfType
<1>4. /\ HandlesOf(T) \in Seq(Handles) /\ Len(HandlesOf(T)) = Len(T)
      /\ \A i \in 1 .. Len(T) : HandlesOf(T)[i] = T[i][1]
  BY <1>1, HandlesOfType
<1>5. HandlesOf(R) # << >>
  BY <1>2, <1>3, EmptySeq
<1>6. /\ HandlesOf(R) = <<Head(HandlesOf(R))>> \o Tail(HandlesOf(R))
      /\ Tail(HandlesOf(R)) \in Seq(Handles)
  BY <1>3, <1>5, HeadAndTail
<1>7. Head(HandlesOf(R)) = Head(R)[1]
  <2>1. 1 \in 1 .. Len(R)
    BY <1>2
  <2> QED
    BY <1>2, <1>3, <2>1
<1>8. Tail(HandlesOf(R)) = HandlesOf(T)
  <2> DEFINE V == Tail(HandlesOf(R))
  <2>1. Len(V) = Len(R) - 1 /\ \A i \in 1 .. Len(V) : V[i] = HandlesOf(R)[i + 1]
    BY <1>3, <1>5, HeadTailProperties
  <2> HIDE DEF V
  <2>2. ASSUME NEW i \in 1 .. Len(V) PROVE V[i] = HandlesOf(T)[i]
    <3>1. i \in 1 .. Len(T) /\ i + 1 \in 1 .. Len(R)
      BY <1>1, <1>2, <2>1
    <3> QED
      BY <1>1, <1>3, <1>4, <2>1, <3>1
  <2>3. V \in Seq(Handles) /\ Len(V) = Len(HandlesOf(T))
    BY <1>1, <1>4, <1>6, <2>1 DEF V
  <2>4. V = HandlesOf(T)
    BY <1>4, <2>2, <2>3, SeqEqual
  <2> QED
    BY <2>4 DEF V
<1> QED
  BY <1>1, <1>2, <1>6, <1>7, <1>8 DEF T

\* A step of the service moves a handle from one part of the flow to the next.
LEMMA FlowSubmit ==
    ASSUME NEW a \in Seq(Handles), NEW R \in Seq(Responses), NEW w \in Seq(Handles),
           NEW Q \in Seq(Handles), NEW h \in Handles
    PROVE  Flow(a, R, w, Append(Q, h)) = Append(Flow(a, R, w, Q), h)
<1>1. HandlesOf(R) \in Seq(Handles)
  BY HandlesOfType
<1> DEFINE b == a \o HandlesOf(R)
           q == w \o Q
<1>2. b \in Seq(Handles) /\ q \in Seq(Handles)
  BY <1>1, ConcatProperties
<1>3. <<h>> \in Seq(Handles)
  OBVIOUS
<1>4. w \o Append(Q, h) = q \o <<h>>
  BY <1>3, AppendIsConcat, ConcatAssociative
<1> HIDE DEF b, q
<1>5. b \o (q \o <<h>>) = (b \o q) \o <<h>>
  BY <1>2, <1>3, ConcatAssociative
<1>6. (b \o q) \o <<h>> = Append(b \o q, h)
  <2>1. b \o q \in Seq(Handles)
    BY <1>2, ConcatProperties
  <2> QED
    BY <2>1, AppendIsConcat
<1>7. Flow(a, R, w, Append(Q, h)) = b \o (w \o Append(Q, h)) /\ Flow(a, R, w, Q) = b \o q
  BY DEF Flow, b, q
<1> QED
  BY <1>4, <1>5, <1>6, <1>7

LEMMA FlowDequeue ==
    ASSUME NEW a, NEW R, NEW Q \in Seq(Handles), Q # << >>
    PROVE  Flow(a, R, <<Head(Q)>>, Tail(Q)) = Flow(a, R, << >>, Q)
<1>1. <<Head(Q)>> \o Tail(Q) = Q
  BY HeadAndTail
<1>2. << >> \o Q = Q
  BY ConcatEmptySeq
<1> QED
  BY <1>1, <1>2 DEF Flow

LEMMA FlowPerform ==
    ASSUME NEW a \in Seq(Handles), NEW R \in Seq(Responses), NEW Q \in Seq(Handles),
           NEW x \in Responses
    PROVE  Flow(a, Append(R, x), << >>, Q) = Flow(a, R, <<x[1]>>, Q)
<1> DEFINE y == <<x[1]>>
           g == HandlesOf(R)
           c == a \o g
<1>1. y \in Seq(Handles)
  BY DEF Responses
<1>2. HandlesOf(Append(R, x)) = g \o y
  BY HandlesOfAppend
<1>3. << >> \o Q = Q
  BY ConcatEmptySeq
<1>4. Flow(a, Append(R, x), << >>, Q) = (a \o (g \o y)) \o Q
  BY <1>2, <1>3 DEF Flow
<1>5. Flow(a, R, y, Q) = c \o (y \o Q)
  BY DEF Flow
<1>6. g \in Seq(Handles)
  BY HandlesOfType
<1> HIDE DEF y, g
<1>7. c \o y = a \o (g \o y)
  BY <1>1, <1>6, ConcatAssociative, SMTT(60)
<1>8. c \in Seq(Handles)
  BY <1>6, ConcatProperties
<1> HIDE DEF c
<1>9. (c \o y) \o Q = c \o (y \o Q)
  BY <1>1, <1>8, ConcatAssociative, SMTT(60)
<1> QED
  BY <1>4, <1>5, <1>7, <1>9 DEF y

LEMMA FlowAnswer ==
    ASSUME NEW a \in Seq(Handles), NEW R \in Seq(Responses), NEW w, NEW Q, R # << >>
    PROVE  Flow(Append(a, Head(R)[1]), Tail(R), w, Q) = Flow(a, R, w, Q)
<1> DEFINE y == <<Head(R)[1]>>
           g == HandlesOf(Tail(R))
           q == w \o Q
<1>1. Head(R)[1] \in Handles /\ Tail(R) \in Seq(Responses) /\ HandlesOf(R) = y \o g
  BY HandlesOfTail
<1>2. y \in Seq(Handles)
  BY <1>1
<1>3. \A V \in Seq(Responses) : HandlesOf(V) \in Seq(Handles)
  BY HandlesOfType
<1>4. g \in Seq(Handles)
  BY <1>1, <1>3
<1>5. Append(a, Head(R)[1]) = a \o y
  BY <1>1, AppendIsConcat
<1>6. Flow(Append(a, Head(R)[1]), Tail(R), w, Q) = ((a \o y) \o g) \o q
  BY <1>5 DEF Flow
<1>7. Flow(a, R, w, Q) = (a \o (y \o g)) \o q
  BY <1>1 DEF Flow
<1> HIDE DEF y, g, q
<1>8. (a \o y) \o g = a \o (y \o g)
  BY <1>2, <1>4, ConcatAssociative
<1> QED
  BY <1>6, <1>7, <1>8

\* Where the elements of a concatenation come from.
LEMMA Joined ==
    ASSUME NEW S, NEW a \in Seq(S), NEW b \in Seq(S)
    PROVE  /\ a \o b \in Seq(S) /\ Len(a \o b) = Len(a) + Len(b)
           /\ \A i \in 1 .. Len(a) : (a \o b)[i] = a[i]
           /\ \A i \in 1 .. Len(b) : (a \o b)[Len(a) + i] = b[i]
<1> DEFINE c == a \o b
<1>1. /\ c \in Seq(S) /\ Len(c) = Len(a) + Len(b)
      /\ \A i \in 1 .. Len(a) + Len(b) : c[i] = IF i <= Len(a) THEN a[i] ELSE b[i - Len(a)]
  BY ConcatProperties
<1> HIDE DEF c
<1>2. Len(a) \in Nat /\ Len(b) \in Nat
  OBVIOUS
<1>3. ASSUME NEW i \in 1 .. Len(a) PROVE c[i] = a[i]
  <2>1. i \in 1 .. Len(a) + Len(b) /\ i <= Len(a)
    BY <1>2
  <2> QED
    BY <1>1, <2>1
<1>4. ASSUME NEW i \in 1 .. Len(b) PROVE c[Len(a) + i] = b[i]
  <2>1. Len(a) + i \in 1 .. Len(a) + Len(b) /\ ~ (Len(a) + i <= Len(a)) /\ (Len(a) + i) - Len(a) = i
    BY <1>2
  <2>2. c[Len(a) + i] = b[(Len(a) + i) - Len(a)]
    BY <1>1, <2>1
  <2> QED
    BY <2>1, <2>2
<1> QED
  BY <1>1, <1>3, <1>4 DEF c

\* What has been answered has been submitted, and the next answer is a new one.
LEMMA FlowContains ==
    ASSUME NEW a \in Seq(Handles), NEW R \in Seq(Responses), NEW w \in Seq(Handles),
           NEW Q \in Seq(Handles), NEW s, s = Flow(a, R, w, Q),
           \A i, j \in DOMAIN s : s[i] = s[j] => i = j
    PROVE  /\ \A h : Contains(a, h) => Contains(s, h)
           /\ R # << >> => Contains(s, Head(R)[1]) /\ ~ Contains(a, Head(R)[1])
<1> DEFINE g == HandlesOf(R)
           b == a \o g
           q == w \o Q
<1>1. g \in Seq(Handles) /\ Len(g) = Len(R) /\ \A i \in 1 .. Len(R) : g[i] = R[i][1]
  BY HandlesOfType
<1>j. \A t, u \in Seq(Handles) :
        /\ t \o u \in Seq(Handles) /\ Len(t \o u) = Len(t) + Len(u)
        /\ \A i \in 1 .. Len(t) : (t \o u)[i] = t[i]
        /\ \A i \in 1 .. Len(u) : (t \o u)[Len(t) + i] = u[i]
  BY Joined
<1>3. q \in Seq(Handles)
  BY <1>j
<1>4. s = b \o q
  BY DEF Flow
<1> HIDE DEF g, q
<1>2. /\ b \in Seq(Handles) /\ Len(b) = Len(a) + Len(g)
      /\ \A i \in 1 .. Len(a) : b[i] = a[i]
      /\ \A i \in 1 .. Len(g) : b[Len(a) + i] = g[i]
  BY <1>1, <1>j, ZenonT(60)
<1> HIDE DEF b
<1>5. /\ s \in Seq(Handles) /\ Len(s) = Len(b) + Len(q)
      /\ \A i \in 1 .. Len(b) : s[i] = b[i]
  <2>1. b \in Seq(Handles)
    BY <1>2
  <2>2. /\ b \o q \in Seq(Handles) /\ Len(b \o q) = Len(b) + Len(q)
        /\ \A i \in 1 .. Len(b) : (b \o q)[i] = b[i]
    BY <2>1, <1>3, <1>j
  <2> QED
    BY <1>4, <2>2
<1>6. /\ Len(a) \in Nat /\ Len(g) \in Nat /\ Len(b) \in Nat /\ Len(q) \in Nat /\ Len(s) \in Nat
      /\ DOMAIN s = 1 .. Len(s) /\ DOMAIN a = 1 .. Len(a)
  BY <1>1, <1>2, <1>3, <1>5, LenProperties
<1>7. ASSUME NEW i \in 1 .. Len(a) PROVE i \in DOMAIN s /\ s[i] = a[i]
  <2>1. i \in 1 .. Len(s) /\ i \in 1 .. Len(b)
    BY <1>2, <1>5, <1>6
  <2> QED
    BY <1>2, <1>5, <1>6, <2>1
<1>8. \A h : Contains(a, h) => Contains(s, h)
  BY <1>6, <1>7 DEF Contains
<1>9. ASSUME R # << >>
      PROVE  Contains(s, Head(R)[1]) /\ ~ Contains(a, Head(R)[1])
  <2>1. Len(R) # 0 /\ Len(R) \in Nat
    BY <1>9, EmptySeq
  <2>2. 1 \in 1 .. Len(g) /\ 1 \in 1 .. Len(R) /\ Head(R) = R[1]
    BY <1>1, <2>1
  <2>3. Len(a) + 1 \in 1 .. Len(s) /\ Len(a) + 1 \in 1 .. Len(b)
    BY <1>2, <1>5, <1>6, <2>2
  <2>4. s[Len(a) + 1] = Head(R)[1]
    <3>1. s[Len(a) + 1] = b[Len(a) + 1]
      BY <1>5, <2>3
    <3>2. b[Len(a) + 1] = g[1]
      BY <1>2, <2>2
    <3>3. g[1] = R[1][1]
      BY <1>1, <2>2
    <3> QED
      BY <2>2, <3>1, <3>2, <3>3
  <2>5. ASSUME NEW i \in 1 .. Len(a), a[i] = Head(R)[1] PROVE FALSE
    <3>1. i \in DOMAIN s /\ Len(a) + 1 \in DOMAIN s /\ s[i] = s[Len(a) + 1]
      BY <1>6, <1>7, <2>3, <2>4, <2>5
    <3>2. i = Len(a) + 1
      BY <3>1
    <3> QED
      BY <1>6, <3>2
  <2> QED
    BY <1>6, <2>3, <2>4, <2>5 DEF Contains
<1> QED
  BY <1>8, <1>9

-----------------------------------------------------------------------------
(* The invariant, of the values the variables have *)

Match(s, n, sub) ==
    /\ \A i, j \in DOMAIN s :
          s[i].handle = s[j].handle =>
            /\ s[i].client = s[j].client
            /\ s[i].request = "builder" /\ s[j].request = "builder" => i = j
    /\ \A i \in DOMAIN s :
          /\ s[i].handle <= n
          /\ s[i].request = "builder" => ~ Contains(sub, s[i].handle)
    /\ \A k \in DOMAIN sub : sub[k] <= n

Told(O, ib, ans) == \A c \in O : \A k \in DOMAIN ib[c] : Contains(ans, ib[c][k][1])

ToldRight(O, ib, h, c, r) ==
    \A d \in O : \A k \in DOMAIN ib[d] : ib[d][k][1] = h => c = d /\ r = ib[d][k][2]

\* r is what LiveRequestsIntact says of the record of handle h.
Right(r, h, O, ib, sub, ans) ==
    /\ r.handle = h /\ r.client \in O
    /\ r.request = "null" <=> Contains(sub, h)
    /\ r.result # "none" <=> Contains(ans, h)
    /\ ToldRight(O, ib, h, r.client, r.result)

Live(s, h, O, ib, sub, ans) ==
    \E i \in DOMAIN s : /\ Right(s[i], h, O, ib, sub, ans)
                        /\ \A j \in 1 .. (i - 1) : s[j].handle # h

AllLive(s, n, gn, O, ib, sub, ans) == \A h \in (1 .. n) \ gn : Live(s, h, O, ib, sub, ans)

Once(sub) == \A i, j \in DOMAIN sub : sub[i] = sub[j] => i = j

LEMMA ByValues ==
    /\ RecordsMatch <=> Match(Requests, next, submitted)
    /\ InboxIsAnswered <=> Told(open, inbox, answered)
    /\ LiveRecords <=> AllLive(Requests, next, gone, open, inbox, submitted, answered)
    /\ OnceAndInOrder <=>
         /\ Once(submitted)
         /\ submitted = Flow(answered, ResponseJson, AtWork(http.step, http.handle), RequestJson)
<1>1. RecordsMatch <=> Match(Requests, next, submitted)
  BY DEF RecordsMatch, Match
<1>2. InboxIsAnswered <=> Told(open, inbox, answered)
  BY DEF InboxIsAnswered, Told
<1>3. ASSUME NEW h, NEW i
      PROVE  LiveRecord(h, i) <=> /\ Right(Requests[i], h, open, inbox, submitted, answered)
                                  /\ \A j \in 1 .. (i - 1) : Requests[j].handle # h
  BY DEF LiveRecord, Right, ToldRight
<1>4. LiveRecords <=> AllLive(Requests, next, gone, open, inbox, submitted, answered)
  BY <1>3 DEF LiveRecords, AllLive, Live
<1>5. OnceAndInOrder <=>
         /\ Once(submitted)
         /\ submitted = Flow(answered, ResponseJson, AtWork(http.step, http.handle), RequestJson)
  BY DEF OnceAndInOrder, Once, Flow, AtWork, HandlesOf
<1> QED
  BY <1>1, <1>2, <1>4, <1>5

LEMMA ContainsAppend ==
    ASSUME NEW S, NEW s \in Seq(S), NEW x \in S, NEW h
    PROVE  Contains(Append(s, x), h) <=> (Contains(s, h) \/ h = x)
<1> DEFINE t == Append(s, x)
<1>1. Len(s) \in Nat /\ Len(t) = Len(s) + 1 /\ t[Len(s) + 1] = x /\ \A i \in 1 .. Len(s) : t[i] = s[i]
  BY AppendProperties
<1> HIDE DEF t
<1>2. ASSUME NEW i \in 1 .. Len(t), t[i] = h PROVE Contains(s, h) \/ h = x
  <2>1. i \in 1 .. Len(s) \/ i = Len(s) + 1
    BY <1>1
  <2> QED
    BY <1>1, <1>2, <2>1 DEF Contains
<1>3. ASSUME NEW i \in 1 .. Len(s), s[i] = h PROVE Contains(t, h)
  <2>1. i \in 1 .. Len(t)
    BY <1>1
  <2> QED
    BY <1>1, <1>3, <2>1 DEF Contains
<1>4. ASSUME h = x PROVE Contains(t, h)
  <2>1. Len(s) + 1 \in 1 .. Len(t)
    BY <1>1
  <2> QED
    BY <1>1, <1>4, <2>1 DEF Contains
<1>5. Contains(t, h) => Contains(s, h) \/ h = x
  BY <1>2 DEF Contains
<1>6. Contains(s, h) => Contains(t, h)
  BY <1>3 DEF Contains
<1> QED
  BY <1>4, <1>5, <1>6 DEF t

\* GetRequestRecordFromHandle finds the first of the records asked for.
LEMMA FoundFirst ==
    ASSUME NEW L \in Nat, DOMAIN Requests = 1 .. L, NEW h, NEW C
    PROVE  /\ Found(h, C) = 0 =>
                \A i \in 1 .. L : ~ (Requests[i].handle = h /\ Requests[i].client \in C)
           /\ Found(h, C) # 0 =>
                /\ Found(h, C) \in 1 .. L
                /\ Requests[Found(h, C)].handle = h /\ Requests[Found(h, C)].client \in C
                /\ \A i \in 1 .. L : Requests[i].handle = h /\ Requests[i].client \in C
                                       => Found(h, C) <= i
<1> DEFINE T == {i \in DOMAIN Requests : Requests[i].handle = h /\ Requests[i].client \in C}
           x == CHOOSE i \in T : \A j \in T : i <= j
<1>1. Found(h, C) = IF T = {} THEN 0 ELSE x
  BY DEF Found
<1>2. T \subseteq 1 .. L /\ T \subseteq Nat
  OBVIOUS
<1>3. ASSUME NEW i \in 1 .. L
      PROVE  i \in T <=> Requests[i].handle = h /\ Requests[i].client \in C
  OBVIOUS
<1> HIDE DEF T
<1>4. T # {} => \E i \in T : \A j \in T : i <= j
  BY <1>2, Least
<1>5. T # {} => x \in T /\ \A j \in T : x <= j
  BY <1>4
<1> HIDE DEF x
<1>6. CASE T = {}
  BY <1>1, <1>3, <1>6
<1>7. CASE T # {}
  <2>0. x \in T
    BY <1>5, <1>7
  <2>2. x \in 1 .. L
    BY <1>2, <2>0
  <2>1. x \in T /\ x \in 1 .. L /\ x # 0
    BY <2>0, <2>2
  <2> QED
    BY <1>1, <1>3, <1>5, <1>7, <2>1
<1> QED
  BY <1>6, <1>7

-----------------------------------------------------------------------------
(* What a step does to the records *)

LEMMA MatchMoved ==
    ASSUME NEW L \in Nat, NEW s \in [1 .. L -> Records], NEW n, NEW sub, Match(s, n, sub),
           NEW M, M \subseteq 1 .. L
    PROVE  Match(RemoveIf(s, M), n, sub)
<1> DEFINE r == RemoveIf(s, M)
<1>1. r \in [1 .. L -> Records]
  BY RemoveIfMoves
<1>2. PICK src : MadeOf(s, r, L, src)
  BY RemoveIfMoves
<1> HIDE DEF r
<1>3. ASSUME NEW i \in 1 .. L
      PROVE  /\ src[i] \in 1 .. L /\ r[i].handle = s[src[i]].handle
             /\ r[i].client = s[src[i]].client
             /\ r[i].request = "builder" => s[src[i]].request = "builder"
  <2>1. src[i] \in 1 .. L /\ (r[i] = s[src[i]] \/ r[i] = MovedFrom(s[src[i]]))
    BY <1>2 DEF MadeOf
  <2>2. s[src[i]] \in Records
    BY <2>1
  <2> QED
    BY <2>1, <2>2 DEF MovedFrom, Records
<1>4. ASSUME NEW i \in 1 .. L, NEW j \in 1 .. L, r[i].handle = r[j].handle
      PROVE  /\ r[i].client = r[j].client
             /\ r[i].request = "builder" /\ r[j].request = "builder" => i = j
  <2>1. src[i] \in 1 .. L /\ src[j] \in 1 .. L /\ s[src[i]].handle = s[src[j]].handle
    BY <1>3, <1>4
  <2>2. /\ s[src[i]].client = s[src[j]].client
        /\ s[src[i]].request = "builder" /\ s[src[j]].request = "builder" => src[i] = src[j]
    BY <2>1 DEF Match
  <2>3. r[i].client = r[j].client
    BY <1>3, <2>2
  <2>4. ASSUME r[i].request = "builder", r[j].request = "builder" PROVE i = j
    <3>1. src[i] = src[j]
      BY <1>3, <2>2, <2>4
    <3> QED
      BY <1>2, <2>4, <3>1 DEF MadeOf
  <2> QED
    BY <2>3, <2>4
<1>5. ASSUME NEW i \in 1 .. L
      PROVE  r[i].handle <= n /\ (r[i].request = "builder" => ~ Contains(sub, r[i].handle))
  <2>1. /\ s[src[i]].handle <= n
        /\ s[src[i]].request = "builder" => ~ Contains(sub, s[src[i]].handle)
    BY <1>3 DEF Match
  <2> QED
    BY <1>3, <2>1
<1>6. \A k \in DOMAIN sub : sub[k] <= n
  BY DEF Match
<1>7. DOMAIN r = 1 .. L
  BY <1>1
<1>8. Match(r, n, sub)
  BY <1>4, <1>5, <1>6, <1>7 DEF Match
<1> QED
  BY <1>8 DEF r

LEMMA LiveMoved ==
    ASSUME NEW L \in Nat, NEW s \in [1 .. L -> Records], NEW M, M \subseteq 1 .. L, NEW h,
           NEW O, NEW ib, NEW sub, NEW ans, Live(s, h, O, ib, sub, ans),
           \A j \in M : s[j].handle # h
    PROVE  Live(RemoveIf(s, M), h, O, ib, sub, ans)
<1>1. DOMAIN s = 1 .. L
  OBVIOUS
<1>2. PICK p \in 1 .. L : /\ Right(s[p], h, O, ib, sub, ans)
                         /\ \A j \in 1 .. (p - 1) : s[j].handle # h
  BY <1>1 DEF Live
<1>3. s[p].handle = h
  BY <1>2 DEF Right
<1> DEFINE r == RemoveIf(s, M)
<1>a. FirstAt(s, L, M, h, p)
  BY <1>2, <1>3 DEF FirstAt
<1>b. PICK q : q \in 1 .. L /\ r[q] = s[p] /\ FirstAt(r, L, {}, h, q)
  BY <1>a, RemoveIfKeepsFirst
<1>4. q \in 1 .. L /\ r[q] = s[p] /\ \A j \in 1 .. (q - 1) : r[j].handle # h
  BY <1>b DEF FirstAt
<1>5. DOMAIN r = 1 .. L
  BY RemoveIfMoves
<1> HIDE DEF r
<1>6. Live(r, h, O, ib, sub, ans)
  BY <1>2, <1>4, <1>5 DEF Live
<1> QED
  BY <1>6 DEF r

\* t is s with x added to it.
Grown(s, t, L, x) == /\ t \in [1 .. (L + 1) -> Records]
                     /\ t[L + 1] = x /\ \A i \in 1 .. L : t[i] = s[i]

\* A request is created.
LEMMA MatchCreated ==
    ASSUME NEW L \in Nat, NEW s \in [1 .. L -> Records], NEW n \in Nat, NEW sub \in Seq(Handles),
           Match(s, n, sub), NEW x \in Records, x.handle = n + 1,
           NEW t, Grown(s, t, L, x)
    PROVE  Match(t, n + 1, sub) /\ ~ Contains(sub, n + 1)
<1>g. /\ t \in [1 .. (L + 1) -> Records]
      /\ t[L + 1] = x /\ \A i \in 1 .. L : t[i] = s[i]
  BY DEF Grown
<1>0. DOMAIN s = 1 .. L /\ DOMAIN t = 1 .. (L + 1)
  BY <1>g
<1>h. \A i \in 1 .. L : s[i].handle \in Int /\ s[i].handle <= n /\ s[i].handle # n + 1
  <2>1. ASSUME NEW i \in 1 .. L PROVE s[i].handle \in Int /\ s[i].handle <= n /\ s[i].handle # n + 1
    <3>1. s[i].handle \in Handles
      BY DEF Records
    <3>2. s[i].handle \in Int
      BY <3>1 DEF Handles
    <3>3. s[i].handle <= n
      BY <1>0 DEF Match
    <3> QED
      BY <3>2, <3>3
  <2> QED
    BY <2>1
<1>k. \A k \in DOMAIN sub : sub[k] \in Int /\ sub[k] <= n /\ sub[k] <= n + 1 /\ sub[k] # n + 1
  <2>1. ASSUME NEW k \in DOMAIN sub
        PROVE  sub[k] \in Int /\ sub[k] <= n /\ sub[k] <= n + 1 /\ sub[k] # n + 1
    <3>1. sub[k] \in Handles
      BY LenProperties
    <3>2. sub[k] \in Int
      BY <3>1 DEF Handles
    <3>3. sub[k] <= n
      BY DEF Match
    <3> QED
      BY <3>2, <3>3
  <2> QED
    BY <2>1
<1>1. ~ Contains(sub, n + 1)
  <2>1. DOMAIN sub = 1 .. Len(sub)
    BY LenProperties
  <2> QED
    BY <1>k, <2>1 DEF Contains
<1>2. ASSUME NEW i \in 1 .. (L + 1) PROVE i \in 1 .. L \/ i = L + 1
  OBVIOUS
<1>3. ASSUME NEW i \in 1 .. (L + 1), NEW j \in 1 .. (L + 1), t[i].handle = t[j].handle
      PROVE  /\ t[i].client = t[j].client
             /\ t[i].request = "builder" /\ t[j].request = "builder" => i = j
  <2>1. CASE i \in 1 .. L /\ j \in 1 .. L
    <3>1. t[i] = s[i] /\ t[j] = s[j]
      BY <1>g, <2>1
    <3> QED
      BY <1>0, <1>3, <2>1, <3>1 DEF Match
  <2>2. CASE i = L + 1 /\ j = L + 1
    BY <2>2
  <2>3. CASE i = L + 1 /\ j \in 1 .. L
    <3>1. t[i].handle = n + 1 /\ t[j] = s[j]
      BY <1>g, <2>3
    <3> QED
      BY <1>3, <1>h, <2>3, <3>1
  <2>4. CASE i \in 1 .. L /\ j = L + 1
    <3>1. t[j].handle = n + 1 /\ t[i] = s[i]
      BY <1>g, <2>4
    <3> QED
      BY <1>3, <1>h, <2>4, <3>1
  <2> QED
    BY <1>2, <2>1, <2>2, <2>3, <2>4
<1>4. ASSUME NEW i \in 1 .. (L + 1)
      PROVE  t[i].handle <= n + 1 /\ (t[i].request = "builder" => ~ Contains(sub, t[i].handle))
  <2>1. CASE i \in 1 .. L
    <3>1. t[i] = s[i] /\ s[i].handle <= n + 1
      <4>1. s[i].handle \in Int /\ s[i].handle <= n
        BY <1>h, <2>1
      <4> QED
        BY <1>g, <2>1, <4>1
    <3> QED
      BY <1>0, <2>1, <3>1 DEF Match
  <2>2. CASE i = L + 1
    BY <1>1, <1>g, <2>2
  <2> QED
    BY <1>2, <2>1, <2>2
<1> QED
  BY <1>0, <1>1, <1>3, <1>4, <1>k DEF Match

LEMMA LiveCreated ==
    ASSUME NEW L \in Nat, NEW s \in [1 .. L -> Records], NEW x \in Records,
           NEW t, Grown(s, t, L, x), NEW h, NEW O, NEW ib, NEW sub, NEW ans
    PROVE  /\ Live(s, h, O, ib, sub, ans) => Live(t, h, O, ib, sub, ans)
           /\ Right(x, h, O, ib, sub, ans) /\ (\A i \in 1 .. L : s[i].handle # h)
                => Live(t, h, O, ib, sub, ans)
<1>g. /\ t \in [1 .. (L + 1) -> Records]
      /\ t[L + 1] = x /\ \A i \in 1 .. L : t[i] = s[i]
  BY DEF Grown
<1>0. DOMAIN s = 1 .. L /\ DOMAIN t = 1 .. (L + 1)
  BY <1>g
<1>1. ASSUME Live(s, h, O, ib, sub, ans) PROVE Live(t, h, O, ib, sub, ans)
  <2>1. PICK p \in 1 .. L : /\ Right(s[p], h, O, ib, sub, ans)
                           /\ \A j \in 1 .. (p - 1) : s[j].handle # h
    BY <1>0, <1>1 DEF Live
  <2>2. p \in 1 .. (L + 1) /\ t[p] = s[p]
    BY <1>g
  <2>3. ASSUME NEW j \in 1 .. (p - 1) PROVE t[j].handle # h
    <3>1. j \in 1 .. L
      OBVIOUS
    <3> QED
      BY <1>g, <2>1, <3>1
  <2> QED
    BY <1>0, <2>1, <2>2, <2>3 DEF Live
<1>2. ASSUME Right(x, h, O, ib, sub, ans), \A i \in 1 .. L : s[i].handle # h
      PROVE  Live(t, h, O, ib, sub, ans)
  <2>1. L + 1 \in 1 .. (L + 1) /\ (L + 1) - 1 = L
    OBVIOUS
  <2>2. \A j \in 1 .. ((L + 1) - 1) : t[j].handle # h
    BY <1>2, <1>g, <2>1
  <2> QED
    BY <1>0, <1>2, <1>g, <2>1, <2>2 DEF Live
<1> QED
  BY <1>1, <1>2

\* A request is submitted: record i loses its builder.
LEMMA MatchSubmitted ==
    ASSUME NEW L \in Nat, NEW s \in [1 .. L -> Records], NEW n, NEW sub \in Seq(Handles),
           Match(s, n, sub), NEW i \in 1 .. L, s[i].request = "builder",
           NEW t, t = [s EXCEPT ![i].request = "null"]
    PROVE  t \in [1 .. L -> Records] /\ Match(t, n, Append(sub, s[i].handle))
<1> DEFINE h == s[i].handle
           x == [s[i] EXCEPT !.request = "null"]
           sub2 == Append(sub, h)
<1>0. DOMAIN s = 1 .. L /\ s[i] \in Records /\ h \in Handles /\ h <= n
  BY DEF Records, Match
<1>1. /\ x \in Records /\ x.handle = h /\ x.client = s[i].client /\ x.request = "null"
      /\ x.result = s[i].result
  BY <1>0 DEF Records
<1> HIDE DEF x
<1>2. t \in [1 .. L -> Records] /\ DOMAIN t = 1 .. L
      /\ \A j \in 1 .. L : t[j] = IF j = i THEN x ELSE s[j]
  BY <1>1 DEF x
<1>3. ASSUME NEW j \in 1 .. L
      PROVE  /\ t[j].handle = s[j].handle /\ t[j].client = s[j].client
             /\ t[j].request = "builder" => s[j].request = "builder" /\ j # i
  BY <1>1, <1>2
<1>4. ASSUME NEW j \in 1 .. L, NEW k \in 1 .. L, t[j].handle = t[k].handle
      PROVE  /\ t[j].client = t[k].client
             /\ t[j].request = "builder" /\ t[k].request = "builder" => j = k
  <2>1. s[j].handle = s[k].handle
    BY <1>3, <1>4
  <2>2. /\ s[j].client = s[k].client
        /\ s[j].request = "builder" /\ s[k].request = "builder" => j = k
    BY <1>0, <2>1 DEF Match
  <2> QED
    BY <1>3, <2>2
<1>5. ASSUME NEW j \in 1 .. L
      PROVE  t[j].handle <= n /\ (t[j].request = "builder" => ~ Contains(sub2, t[j].handle))
  <2>1. s[j].handle <= n /\ (s[j].request = "builder" => ~ Contains(sub, s[j].handle))
    BY <1>0 DEF Match
  <2>2. ASSUME t[j].request = "builder" PROVE ~ Contains(sub2, s[j].handle)
    <3>1. s[j].request = "builder" /\ j # i
      BY <1>3, <2>2
    <3>2. s[j].handle # h
      BY <1>0, <3>1 DEF Match
    <3> QED
      BY <1>0, <2>1, <3>1, <3>2, ContainsAppend
  <2> QED
    BY <1>3, <2>1, <2>2
<1>6. ASSUME NEW k \in DOMAIN sub2 PROVE sub2[k] <= n
  <2>1. /\ Len(sub) \in Nat /\ Len(sub2) = Len(sub) + 1 /\ sub2[Len(sub) + 1] = h
        /\ \A j \in 1 .. Len(sub) : sub2[j] = sub[j]
        /\ DOMAIN sub2 = 1 .. Len(sub2) /\ DOMAIN sub = 1 .. Len(sub)
    BY <1>0, AppendProperties, LenProperties
  <2> HIDE DEF sub2, h
  <2>2. k \in 1 .. Len(sub) \/ k = Len(sub) + 1
    BY <2>1
  <2>3. \A j \in 1 .. Len(sub) : sub[j] <= n
    BY <2>1 DEF Match
  <2> QED
    BY <1>0, <2>1, <2>2, <2>3
<1>7. Match(t, n, sub2)
  <2> HIDE DEF sub2, h
  <2> QED
    BY <1>2, <1>4, <1>5, <1>6 DEF Match
<1> QED
  BY <1>2, <1>7

\* A record of the list is changed, but not its handle.
LEMMA LiveChanged ==
    ASSUME NEW L \in Nat, NEW s \in [1 .. L -> Records], NEW t \in [1 .. L -> Records],
           \A j \in 1 .. L : t[j].handle = s[j].handle,
           NEW h, NEW p, FirstAt(s, L, {}, h, p),
           NEW O, NEW ib, NEW sub, NEW ans, Right(t[p], h, O, ib, sub, ans)
    PROVE  Live(t, h, O, ib, sub, ans)
<1>1. p \in 1 .. L /\ \A j \in 1 .. (p - 1) : s[j].handle # h
  BY DEF FirstAt
<1>2. ASSUME NEW j \in 1 .. (p - 1) PROVE t[j].handle # h
  <2>1. j \in 1 .. L
    BY <1>1
  <2> QED
    BY <1>1, <2>1
<1>3. DOMAIN t = 1 .. L
  OBVIOUS
<1> QED
  BY <1>1, <1>2, <1>3 DEF Live

LEMMA LiveHasFirst ==
    ASSUME NEW L \in Nat, NEW s \in [1 .. L -> Records], NEW h, NEW O, NEW ib, NEW sub, NEW ans,
           Live(s, h, O, ib, sub, ans)
    PROVE  \E p : p \in 1 .. L /\ FirstAt(s, L, {}, h, p) /\ Right(s[p], h, O, ib, sub, ans)
<1>1. PICK p \in DOMAIN s : /\ Right(s[p], h, O, ib, sub, ans)
                            /\ \A j \in 1 .. (p - 1) : s[j].handle # h
  BY DEF Live
<1>2. p \in 1 .. L /\ s[p].handle = h
  BY <1>1 DEF Right
<1> QED
  BY <1>1, <1>2 DEF FirstAt

\* The sessions O2 have no call waiting that they had not.
Fewer(O2, ib2, O, ib) ==
    \A d \in O2 : d \in O /\ \A k \in DOMAIN ib2[d] : \E m \in DOMAIN ib[d] : ib2[d][k] = ib[d][m]

LEMMA FewerCalls ==
    ASSUME NEW O, NEW O2, NEW ib, NEW ib2, Fewer(O2, ib2, O, ib), NEW ans
    PROVE  /\ Told(O, ib, ans) => Told(O2, ib2, ans)
           /\ \A h, c, r : ToldRight(O, ib, h, c, r) => ToldRight(O2, ib2, h, c, r)
<1>1. Told(O, ib, ans) => Told(O2, ib2, ans)
  BY DEF Told, Fewer
<1>2. ASSUME NEW h, NEW c, NEW r, ToldRight(O, ib, h, c, r) PROVE ToldRight(O2, ib2, h, c, r)
  <2> SUFFICES ASSUME NEW d \in O2, NEW k \in DOMAIN ib2[d], ib2[d][k][1] = h
               PROVE  c = d /\ r = ib2[d][k][2]
    BY DEF ToldRight
  <2>1. d \in O /\ \E m \in DOMAIN ib[d] : ib2[d][k] = ib[d][m]
    BY DEF Fewer
  <2>2. PICK m \in DOMAIN ib[d] : ib2[d][k] = ib[d][m]
    BY <2>1
  <2> QED
    BY <1>2, <2>1, <2>2 DEF ToldRight
<1> QED
  BY <1>1, <1>2

-----------------------------------------------------------------------------
(* The steps *)

Flowing == Flow(answered, ResponseJson, AtWork(http.step, http.handle), RequestJson)

\* CombainIInv in the terms of the lemmas above.
Values ==
    /\ Requests \in Seq(Records)
    /\ next \in 0 .. MaxReqs /\ combainApiKeySet \in BOOLEAN
    /\ open \subseteq Clients /\ gone \subseteq Handles
    /\ inbox \in [Clients -> Seq(Handles \X Outcomes)]
    /\ Match(Requests, next, submitted)
    /\ Told(open, inbox, answered)
    /\ AllLive(Requests, next, gone, open, inbox, submitted, answered)

Queues ==
    /\ events \in Nat
    /\ RequestJson \in Seq(Handles) /\ ResponseJson \in Seq(Responses)
    /\ http \in [step : {"dequeue", "perform", "report"}, handle : 0 .. MaxReqs]
    /\ http.step = "perform" => http.handle \in Handles
    /\ Len(ResponseJson) = events + (IF http.step = "report" THEN 1 ELSE 0)
    /\ submitted \in Seq(Handles) /\ answered \in Seq(Handles)
    /\ Once(submitted) /\ submitted = Flowing

LEMMA ByValuesNext ==
    /\ RecordsMatch' <=> Match(Requests', next', submitted')
    /\ InboxIsAnswered' <=> Told(open', inbox', answered')
    /\ LiveRecords' <=> AllLive(Requests', next', gone', open', inbox', submitted', answered')
    /\ OnceAndInOrder' <=> Once(submitted') /\ submitted' = Flowing'
<1>1. RecordsMatch' <=> Match(Requests', next', submitted')
  BY DEF RecordsMatch, Match
<1>2. InboxIsAnswered' <=> Told(open', inbox', answered')
  BY DEF InboxIsAnswered, Told
<1>3. ASSUME NEW CONSTANT h, NEW CONSTANT i
      PROVE  LiveRecord(h, i)' <=> /\ Right(Requests'[i], h, open', inbox', submitted', answered')
                                   /\ \A j \in 1 .. (i - 1) : Requests'[j].handle # h
  BY DEF LiveRecord, Right, ToldRight
<1>4. LiveRecords' <=> AllLive(Requests', next', gone', open', inbox', submitted', answered')
  BY <1>3 DEF LiveRecords, AllLive, Live
<1>5. OnceAndInOrder' <=> Once(submitted') /\ submitted' = Flowing'
  BY DEF OnceAndInOrder, Once, Flowing, Flow, AtWork, HandlesOf
<1> QED
  BY <1>1, <1>2, <1>4, <1>5

LEMMA InvValues == CombainIInv <=> Values /\ Queues
<1>1. Queues => EventHasResponse
  <2>1. ASSUME Queues PROVE events \in Nat /\ Len(ResponseJson) = events + (IF http.step = "report" THEN 1 ELSE 0)
    BY <2>1 DEF Queues
  <2> QED
    BY <2>1 DEF EventHasResponse
<1>2. OnceAndInOrder <=> Once(submitted) /\ submitted = Flowing
  BY ByValues DEF Flowing
<1> QED
  BY <1>1, <1>2, ByValues
     DEF CombainIInv, AnswersSound, CombainTypeOK, QueuesMatch, Values, Queues, Records, Responses

LEMMA InvValuesNext == Values' /\ Queues' => CombainIInv'
<1>1. Queues' => EventHasResponse'
  <2>1. ASSUME Queues' PROVE events' \in Nat /\ Len(ResponseJson') = events' + (IF http.step' = "report" THEN 1 ELSE 0)
    BY <2>1 DEF Queues
  <2> QED
    BY <2>1 DEF EventHasResponse
<1> QED
  BY <1>1, ByValuesNext
     DEF CombainIInv, AnswersSound, CombainTypeOK, QueuesMatch, Values, Queues, Records, Responses

\* The list as a function.
LEMMA TheList ==
    ASSUME NEW s \in Seq(Records)
    PROVE  Len(s) \in Nat /\ s \in [1 .. Len(s) -> Records] /\ DOMAIN s = 1 .. Len(s)
  BY LenProperties

LEMMA AList ==
    ASSUME NEW n \in Nat, NEW s \in [1 .. n -> Records]
    PROVE  s \in Seq(Records)
  BY SeqDef

LEMMA InitCombain == CombainInit => CombainIInv
<1> SUFFICES ASSUME CombainInit PROVE Values /\ Queues
  BY InvValues
<1>0. MaxReqs \in Nat
  BY CombainAssumption
<1>1. << >> \in Seq(Handles) /\ << >> \in Seq(Responses) /\ << >> \in Seq(Records)
      /\ Len(<< >>) = 0 /\ DOMAIN << >> = {} /\ << >> \in Seq(Handles \X Outcomes)
  OBVIOUS
<1>2. Values
  <2>1. 1 .. 0 = {}
    OBVIOUS
  <2>2. 0 \in 0 .. MaxReqs
    BY <1>0
  <2>3. \A c \in Clients : inbox[c] = << >>
    BY DEF CombainInit
  <2>4. Told(open, inbox, answered)
    BY <1>1, <2>3 DEF CombainInit, Told
  <2>5. Match(Requests, next, submitted)
    BY <1>1 DEF CombainInit, Match
  <2>6. AllLive(Requests, next, gone, open, inbox, submitted, answered)
    BY <2>1 DEF CombainInit, AllLive
  <2>7. inbox \in [Clients -> Seq(Handles \X Outcomes)]
    BY <1>1 DEF CombainInit
  <2> QED
    BY <1>1, <2>2, <2>4, <2>5, <2>6, <2>7 DEF CombainInit, Values
<1>3. Queues
  <2>1. http = Nobody /\ http.step = "dequeue" /\ http \in [step : {"dequeue", "perform", "report"}, handle : 0 .. MaxReqs]
    BY <1>0 DEF CombainInit, Nobody
  <2>2. Flowing = << >>
    <3>1. HandlesOf(<< >>) = << >>
      BY <1>1, HandlesOfType, EmptySeq
    <3>2. << >> \o << >> = << >>
      OBVIOUS
    <3> QED
      BY <2>1, <3>1, <3>2 DEF CombainInit, Flowing, Flow, AtWork
  <2>3. Once(submitted)
    BY <1>1 DEF CombainInit, Once
  <2> QED
    BY <1>1, <2>1, <2>2, <2>3 DEF CombainInit, Queues
<1> QED
  BY <1>2, <1>3

\* What is answered, or waits to be, has been submitted; what waits is not answered.
LEMMA AnsweredIsSubmitted ==
    ASSUME Queues
    PROVE  /\ \A h : Contains(answered, h) => Contains(submitted, h)
           /\ ResponseJson # << >> => /\ Contains(submitted, Head(ResponseJson)[1])
                                      /\ ~ Contains(answered, Head(ResponseJson)[1])
           /\ AtWork(http.step, http.handle) \in Seq(Handles)
<1> DEFINE w == AtWork(http.step, http.handle)
<1>1. w \in Seq(Handles)
  <2>1. CASE http.step = "perform"
    <3>1. http.handle \in Handles /\ w = <<http.handle>>
      BY <2>1 DEF Queues, AtWork
    <3> QED
      BY <3>1
  <2>2. CASE http.step # "perform"
    <3>1. w = << >>
      BY <2>2 DEF AtWork
    <3> QED
      BY <3>1
  <2> QED
    BY <2>1, <2>2
<1>2. /\ answered \in Seq(Handles) /\ ResponseJson \in Seq(Responses)
      /\ RequestJson \in Seq(Handles) /\ submitted = Flow(answered, ResponseJson, w, RequestJson)
      /\ \A i, j \in DOMAIN submitted : submitted[i] = submitted[j] => i = j
  BY DEF Queues, Flowing, Once
<1> HIDE DEF w
<1>3. /\ \A h : Contains(answered, h) => Contains(submitted, h)
      /\ ResponseJson # << >> => /\ Contains(submitted, Head(ResponseJson)[1])
                                 /\ ~ Contains(answered, Head(ResponseJson)[1])
  BY <1>1, <1>2, FlowContains
<1> QED
  BY <1>1, <1>3 DEF w

LEMMA CreateKeeps ==
    ASSUME Values, Queues, NEW c \in Clients, CreateLocationRequest(c)
    PROVE  Values' /\ Queues'
<1> DEFINE L == Len(Requests)
           x == [handle |-> next + 1, client |-> c, request |-> "builder", result |-> "none"]
           t == Append(Requests, x)
<1>1. /\ Requests \in Seq(Records) /\ next \in Nat /\ next < MaxReqs /\ MaxReqs \in Nat
      /\ submitted \in Seq(Handles) /\ Match(Requests, next, submitted) /\ c \in open
      /\ answered \in Seq(Handles) /\ Told(open, inbox, answered)
  BY CombainAssumption DEF Values, Queues, CreateLocationRequest
<1>2. L \in Nat /\ Requests \in [1 .. L -> Records] /\ DOMAIN Requests = 1 .. L
  BY <1>1, TheList
<1>3. next + 1 \in Handles /\ next + 1 \in 0 .. MaxReqs
  BY <1>1 DEF Handles
<1>4. x \in Records /\ x.handle = next + 1 /\ x.client = c /\ x.request = "builder" /\ x.result = "none"
  BY <1>3 DEF Records
<1> HIDE DEF x
<1>5. t \in Seq(Records) /\ Len(t) = L + 1 /\ t[L + 1] = x /\ \A i \in 1 .. L : t[i] = Requests[i]
  BY <1>1, <1>4, AppendProperties
<1>6. Grown(Requests, t, L, x)
  <2> HIDE DEF t
  <2>1. t \in [1 .. (L + 1) -> Records]
    BY <1>5, TheList
  <2> QED
    BY <1>5, <2>1 DEF Grown
<1>7. /\ Requests' = t /\ next' = next + 1
      /\ UNCHANGED <<combainApiKeySet, open, inbox, gone, httpVars, submitted, answered>>
  BY DEF CreateLocationRequest, x
<1> HIDE DEF L, t
<1>8. Match(t, next + 1, submitted) /\ ~ Contains(submitted, next + 1)
  BY <1>1, <1>2, <1>4, <1>6, MatchCreated
<1>9. ~ Contains(answered, next + 1)
  <2>1. Contains(answered, next + 1) => Contains(submitted, next + 1)
    BY AnsweredIsSubmitted
  <2> QED
    BY <1>8, <2>1
<1>10. ToldRight(open, inbox, next + 1, c, "none")
  BY <1>1, <1>9 DEF Told, ToldRight
<1>11. Right(x, next + 1, open, inbox, submitted, answered)
  BY <1>1, <1>4, <1>8, <1>9, <1>10 DEF Right
<1>12. \A i \in 1 .. L : Requests[i].handle # next + 1
  <2>1. ASSUME NEW i \in 1 .. L PROVE Requests[i].handle # next + 1
    <3>1. Requests[i].handle \in Int
      BY <1>2 DEF Records, Handles
    <3>2. Requests[i].handle <= next
      BY <1>1, <1>2 DEF Match
    <3> QED
      BY <1>1, <3>1, <3>2
  <2> QED
    BY <2>1
<1>13. ASSUME NEW h \in (1 .. (next + 1)) \ gone
       PROVE  Live(t, h, open, inbox, submitted, answered)
  <2>1. CASE h = next + 1
    BY <1>2, <1>4, <1>6, <1>11, <1>12, <2>1, LiveCreated
  <2>2. CASE h # next + 1
    <3>1. h \in (1 .. next) \ gone
      BY <1>1, <2>2
    <3>2. Live(Requests, h, open, inbox, submitted, answered)
      BY <3>1 DEF Values, AllLive
    <3> QED
      BY <1>2, <1>4, <1>6, <3>2, LiveCreated
  <2> QED
    BY <2>1, <2>2
<1>14. AllLive(t, next + 1, gone, open, inbox, submitted, answered)
  BY <1>13 DEF AllLive
<1>15. Values'
  BY <1>3, <1>5, <1>7, <1>8, <1>14 DEF Values
<1>16. Queues'
  BY <1>7 DEF Queues, Flowing, httpVars
<1> QED
  BY <1>15, <1>16

LEMMA SubmitKeeps ==
    ASSUME Values, Queues, NEW c \in Clients, NEW h \in Handles, SubmitLocationRequest(c, h)
    PROVE  Values' /\ Queues'
<1> DEFINE L == Len(Requests)
           i == Found(h, {c})
           t == [Requests EXCEPT ![i].request = "null"]
           sub2 == Append(submitted, h)
<1>1. /\ Requests \in Seq(Records) /\ next \in 0 .. MaxReqs /\ submitted \in Seq(Handles)
      /\ Match(Requests, next, submitted)
  BY DEF Values, Queues
<1>2. L \in Nat /\ Requests \in [1 .. L -> Records] /\ DOMAIN Requests = 1 .. L
  BY <1>1, TheList
<1>3. i # 0 /\ Requests[i].request # "null"
  BY DEF SubmitLocationRequest, Accepts
<1>4. /\ i \in 1 .. L /\ Requests[i].handle = h /\ Requests[i].client = c
      /\ \A j \in 1 .. L : Requests[j].handle = h /\ Requests[j].client \in {c} => i <= j
  BY <1>2, <1>3, FoundFirst, ZenonT(60)
<1>5. /\ RequestJson' = Append(RequestJson, h) /\ Requests' = t /\ submitted' = sub2
      /\ UNCHANGED <<next, combainApiKeySet, open, inbox, gone, ResponseJson, events, http, answered>>
  BY DEF SubmitLocationRequest
<1> HIDE DEF i
<1>6. Requests[i] \in Records /\ Requests[i].request = "builder"
  BY <1>2, <1>3, <1>4 DEF Records
<1>7. t \in [1 .. L -> Records] /\ Match(t, next, sub2)
  BY <1>1, <1>2, <1>4, <1>6, MatchSubmitted
<1>8. /\ t[i] = [Requests[i] EXCEPT !.request = "null"]
      /\ \A j \in 1 .. L : j # i => t[j] = Requests[j]
  BY <1>2, <1>4
<1>9. ~ Contains(submitted, h) /\ \A g : Contains(sub2, g) <=> (Contains(submitted, g) \/ g = h)
  <2>1. ~ Contains(submitted, h)
    BY <1>1, <1>2, <1>4, <1>6 DEF Match
  <2> QED
    BY <1>1, <2>1, ContainsAppend
<1>10. /\ t[i].handle = h /\ t[i].client = Requests[i].client /\ t[i].request = "null"
       /\ t[i].result = Requests[i].result
  BY <1>4, <1>6, <1>8 DEF Records
<1> HIDE DEF L, t, sub2
<1>11. \A j \in 1 .. L : t[j].handle = Requests[j].handle
  BY <1>4, <1>8, <1>10
<1>12. ASSUME NEW g \in (1 .. next) \ gone
       PROVE  Live(t, g, open, inbox, sub2, answered)
  <2>1. Live(Requests, g, open, inbox, submitted, answered)
    BY DEF Values, AllLive
  <2>2. PICK p : /\ p \in 1 .. L /\ FirstAt(Requests, L, {}, g, p)
                 /\ Right(Requests[p], g, open, inbox, submitted, answered)
    BY <1>2, <2>1, LiveHasFirst
  <2>3. Right(t[p], g, open, inbox, sub2, answered)
    <3>1. CASE g = h
      <4>1. Requests[p].handle = h /\ \A j \in 1 .. (p - 1) : Requests[j].handle # h
        BY <2>2, <3>1 DEF FirstAt
      <4>2. Requests[p].client = c
        BY <1>1, <1>2, <1>4, <2>2, <4>1 DEF Match
      <4>3. p = i
        <5>1. i <= p
          BY <1>4, <2>2, <4>1, <4>2
        <5>2. ~ (i \in 1 .. (p - 1))
          BY <1>4, <4>1
        <5> QED
          BY <1>2, <1>4, <2>2, <5>1, <5>2
      <4> QED
        BY <1>4, <1>9, <1>10, <2>2, <3>1, <4>3 DEF Right
    <3>2. CASE g # h
      <4>1. p # i
        BY <1>4, <2>2, <3>2 DEF Right
      <4> QED
        BY <1>8, <1>9, <2>2, <3>2, <4>1 DEF Right
    <3> QED
      BY <3>1, <3>2
  <2> QED
    BY <1>2, <1>7, <1>11, <2>2, <2>3, LiveChanged
<1>13. AllLive(t, next, gone, open, inbox, sub2, answered)
  BY <1>12 DEF AllLive
<1>14. t \in Seq(Records)
  BY <1>2, <1>7, AList
<1>15. Values'
  BY <1>5, <1>7, <1>13, <1>14 DEF Values
<1>16. Queues'
  <2>1. submitted' = Flowing'
    <3> DEFINE w == AtWork(http.step, http.handle)
    <3>1. /\ w \in Seq(Handles) /\ answered \in Seq(Handles) /\ ResponseJson \in Seq(Responses)
          /\ RequestJson \in Seq(Handles) /\ submitted = Flow(answered, ResponseJson, w, RequestJson)
      BY AnsweredIsSubmitted DEF Queues, Flowing
    <3>2. Flowing' = Flow(answered, ResponseJson, w, Append(RequestJson, h))
      BY <1>5 DEF Flowing
    <3> HIDE DEF w
    <3>3. Flow(answered, ResponseJson, w, Append(RequestJson, h)) = Append(submitted, h)
      BY <3>1, FlowSubmit, ZenonT(60)
    <3> QED
      BY <1>5, <3>2, <3>3 DEF sub2
  <2>2. submitted' \in Seq(Handles) /\ RequestJson' \in Seq(Handles)
    <3>1. RequestJson \in Seq(Handles)
      BY DEF Queues
    <3> QED
      BY <1>1, <1>5, <3>1, AppendProperties DEF sub2
  <2>3. Once(submitted')
    <3>1. Once(sub2)
      <4> SUFFICES ASSUME NEW j \in DOMAIN sub2, NEW k \in DOMAIN sub2, sub2[j] = sub2[k] PROVE j = k
        BY DEF Once
      <4>1. /\ Len(submitted) \in Nat /\ Len(sub2) = Len(submitted) + 1 /\ sub2[Len(submitted) + 1] = h
            /\ \A m \in 1 .. Len(submitted) : sub2[m] = submitted[m]
            /\ DOMAIN submitted = 1 .. Len(submitted) /\ DOMAIN sub2 = 1 .. Len(sub2)
        BY <1>1, AppendProperties, LenProperties DEF sub2
      <4>2. /\ j \in 1 .. Len(submitted) \/ j = Len(submitted) + 1
            /\ k \in 1 .. Len(submitted) \/ k = Len(submitted) + 1
        BY <4>1
      <4>3. \A m \in 1 .. Len(submitted) : submitted[m] # h
        BY <1>9 DEF Contains
      <4>4. \A m, n \in 1 .. Len(submitted) : submitted[m] = submitted[n] => m = n
        BY <4>1 DEF Queues, Once
      <4> QED
        BY <4>1, <4>2, <4>3, <4>4
    <3> QED
      BY <1>5, <3>1
  <2> QED
    BY <1>5, <2>1, <2>2, <2>3 DEF Queues
<1> QED
  BY <1>15, <1>16

\* Records are removed: those of one handle and client, or of one client.
LEMMA RemoveKeeps ==
    ASSUME Values, NEW M, M \subseteq DOMAIN Requests, NEW O, NEW ib, NEW gn,
           O \subseteq Clients, gn \subseteq Handles, ib \in [Clients -> Seq(Handles \X Outcomes)],
           gone \subseteq gn, Fewer(O, ib, open, inbox),
           \A j \in M : Requests[j].handle \in gn,
           \A j \in DOMAIN Requests : Requests[j].client \in open => Requests[j].client \in O \/ Requests[j].handle \in gn
    PROVE  /\ RemoveIf(Requests, M) \in Seq(Records)
           /\ Match(RemoveIf(Requests, M), next, submitted)
           /\ Told(O, ib, answered)
           /\ AllLive(RemoveIf(Requests, M), next, gn, O, ib, submitted, answered)
<1> DEFINE L == Len(Requests)
           t == RemoveIf(Requests, M)
<1>1. Requests \in Seq(Records) /\ Match(Requests, next, submitted) /\ Told(open, inbox, answered)
  BY DEF Values
<1>2. L \in Nat /\ Requests \in [1 .. L -> Records] /\ DOMAIN Requests = 1 .. L
  BY <1>1, TheList
<1>3. M \subseteq 1 .. L
  BY <1>2
<1> HIDE DEF L
<1>4. t \in [1 .. L -> Records]
  BY <1>2, <1>3, RemoveIfMoves
<1>5. t \in Seq(Records)
  BY <1>2, <1>4, AList
<1>6. Match(t, next, submitted)
  BY <1>1, <1>2, <1>3, MatchMoved
<1>7. Told(O, ib, answered)
  BY <1>1, FewerCalls
<1>8. ASSUME NEW g \in (1 .. next) \ gn PROVE Live(t, g, O, ib, submitted, answered)
  <2>1. Live(Requests, g, open, inbox, submitted, answered)
    BY DEF Values, AllLive
  <2>2. PICK p : /\ p \in 1 .. L /\ FirstAt(Requests, L, {}, g, p)
                 /\ Right(Requests[p], g, open, inbox, submitted, answered)
    BY <1>2, <2>1, LiveHasFirst
  <2>3. Requests[p].client \in open /\ Requests[p].handle = g
    BY <2>2 DEF Right
  <2>4. Requests[p].client \in O
    BY <1>2, <2>2, <2>3
  <2>5. Right(Requests[p], g, O, ib, submitted, answered)
    <3>1. ToldRight(open, inbox, g, Requests[p].client, Requests[p].result)
      BY <2>2 DEF Right
    <3>2. ToldRight(O, ib, g, Requests[p].client, Requests[p].result)
      BY <3>1, FewerCalls
    <3> QED
      BY <2>2, <2>4, <3>2 DEF Right
  <2>6. Live(Requests, g, O, ib, submitted, answered)
    BY <1>2, <2>2, <2>5 DEF Live, FirstAt
  <2>7. \A j \in M : Requests[j].handle # g
    OBVIOUS
  <2> QED
    BY <1>2, <1>3, <2>6, <2>7, LiveMoved
<1>9. AllLive(t, next, gn, O, ib, submitted, answered)
  BY <1>8 DEF AllLive
<1> QED
  BY <1>5, <1>6, <1>7, <1>9

LEMMA DestroyKeeps ==
    ASSUME Values, Queues, NEW c \in Clients, NEW h \in Handles, Destroy(c, h),
           UNCHANGED <<next, combainApiKeySet, open, inbox, httpVars, submitted, answered>>
    PROVE  Values' /\ Queues'
<1> DEFINE M == {i \in DOMAIN Requests : Requests[i].handle = h /\ Requests[i].client = c}
           L == Len(Requests)
<1>1. L \in Nat /\ DOMAIN Requests = 1 .. L
  BY TheList DEF Values
<1>2. Requests' = RemoveIf(Requests, M) /\ gone' = IF Found(h, {c}) = 0 THEN gone ELSE gone \cup {h}
  BY DEF Destroy
<1>3. \A j \in M : Requests[j].handle \in gone'
  <2>1. ASSUME NEW j \in M PROVE Requests[j].handle \in gone'
    <3>1. j \in 1 .. L /\ Requests[j].handle = h /\ Requests[j].client \in {c}
      BY <1>1
    <3>2. Found(h, {c}) # 0
      <4>1. Found(h, {c}) = 0 =>
              \A i \in 1 .. L : ~ (Requests[i].handle = h /\ Requests[i].client \in {c})
        BY <1>1, FoundFirst
      <4> QED
        BY <3>1, <4>1
    <3> QED
      BY <1>2, <3>1, <3>2
  <2> QED
    BY <2>1
<1>4. /\ open \subseteq Clients /\ gone' \subseteq Handles /\ gone \subseteq gone'
      /\ inbox \in [Clients -> Seq(Handles \X Outcomes)]
  BY <1>2 DEF Values
<1>5. Fewer(open, inbox, open, inbox)
  BY DEF Fewer
<1>6. M \subseteq DOMAIN Requests
  OBVIOUS
<1> HIDE DEF M, L
<1> DEFINE gn == gone'
<1>g. \A j \in M : Requests[j].handle \in gn
  BY <1>3
<1>h. gn \subseteq Handles /\ gone \subseteq gn
  BY <1>4
<1> HIDE DEF gn
<1>7. /\ RemoveIf(Requests, M) \in Seq(Records)
      /\ Match(RemoveIf(Requests, M), next, submitted)
      /\ Told(open, inbox, answered)
      /\ AllLive(RemoveIf(Requests, M), next, gn, open, inbox, submitted, answered)
  BY <1>4, <1>5, <1>6, <1>g, <1>h, RemoveKeeps
<1>8. Values'
  BY <1>2, <1>4, <1>7 DEF Values, gn
<1>9. Queues'
  BY DEF Queues, Flowing, httpVars
<1> QED
  BY <1>8, <1>9

LEMMA CloseKeeps ==
    ASSUME Values, Queues, NEW c \in Clients, ClientSessionClosed(c)
    PROVE  Values' /\ Queues'
<1> DEFINE M == {i \in DOMAIN Requests : Requests[i].client = c}
           gn == gone \cup {Requests[i].handle : i \in M}
           ib == [inbox EXCEPT ![c] = << >>]
           O == open \ {c}
<1>1. /\ open' = O /\ Requests' = RemoveIf(Requests, M) /\ gone' = gn /\ inbox' = ib
      /\ UNCHANGED <<next, combainApiKeySet, httpVars, submitted, answered>>
  BY DEF ClientSessionClosed
<1>2. /\ Requests \in Seq(Records) /\ open \subseteq Clients /\ gone \subseteq Handles
      /\ inbox \in [Clients -> Seq(Handles \X Outcomes)]
  BY DEF Values
<1>3. M \subseteq DOMAIN Requests /\ O \subseteq Clients /\ gone \subseteq gn
      /\ \A j \in M : Requests[j].handle \in gn
  BY <1>2
<1>4. gn \subseteq Handles
  <2>1. \A j \in DOMAIN Requests : Requests[j].handle \in Handles
    BY <1>2, TheList DEF Records
  <2> QED
    BY <1>2, <2>1
<1>5. ib \in [Clients -> Seq(Handles \X Outcomes)]
  <2>1. << >> \in Seq(Handles \X Outcomes)
    OBVIOUS
  <2> QED
    BY <1>2, <2>1
<1>6. Fewer(O, ib, open, inbox)
  <2>1. ASSUME NEW d \in O PROVE d \in open /\ ib[d] = inbox[d]
    BY <1>2
  <2> HIDE DEF ib, O
  <2> QED
    BY <2>1 DEF Fewer
<1>7. \A j \in DOMAIN Requests : Requests[j].client \in open => Requests[j].client \in O \/ Requests[j].handle \in gn
  OBVIOUS
<1> HIDE DEF M, gn, ib, O
<1>8. /\ RemoveIf(Requests, M) \in Seq(Records)
      /\ Match(RemoveIf(Requests, M), next, submitted)
      /\ Told(O, ib, answered)
      /\ AllLive(RemoveIf(Requests, M), next, gn, O, ib, submitted, answered)
  BY <1>3, <1>4, <1>5, <1>6, <1>7, RemoveKeeps
<1>9. Values'
  BY <1>1, <1>3, <1>4, <1>5, <1>8 DEF Values
<1>10. Queues'
  BY <1>1 DEF Queues, Flowing, httpVars
<1> QED
  BY <1>9, <1>10

LEMMA SeesKeeps ==
    ASSUME Values, Queues, NEW c \in Clients, ClientSeesResult(c)
    PROVE  Values' /\ Queues'
<1> DEFINE ib == [inbox EXCEPT ![c] = Tail(@)]
<1>1. /\ inbox' = ib /\ inbox[c] # << >>
      /\ UNCHANGED <<Requests, next, combainApiKeySet, open, gone, httpVars, submitted, answered>>
  BY DEF ClientSeesResult
<1>2. inbox \in [Clients -> Seq(Handles \X Outcomes)] /\ inbox[c] \in Seq(Handles \X Outcomes)
  BY DEF Values
<1> DEFINE s == inbox[c]
           u == Tail(s)
<1>3. /\ u \in Seq(Handles \X Outcomes) /\ Len(u) = Len(s) - 1 /\ Len(s) \in Nat
      /\ \A k \in 1 .. Len(u) : u[k] = s[k + 1]
  BY <1>1, <1>2, HeadTailProperties
<1>4. ib \in [Clients -> Seq(Handles \X Outcomes)] /\ ib[c] = u /\ \A d \in Clients : d # c => ib[d] = inbox[d]
  BY <1>2, <1>3
<1>5. DOMAIN u = 1 .. Len(u) /\ DOMAIN s = 1 .. Len(s)
  BY <1>2, <1>3, LenProperties
<1> HIDE DEF ib, s, u
<1>6. ASSUME NEW k \in DOMAIN u PROVE k + 1 \in DOMAIN s /\ u[k] = s[k + 1]
  <2>1. k \in 1 .. Len(u) /\ k + 1 \in 1 .. Len(s)
    BY <1>3, <1>5
  <2> QED
    BY <1>3, <1>5, <2>1
<1>7. Fewer(open, ib, open, inbox)
  <2>1. open \subseteq Clients
    BY DEF Values
  <2>2. ASSUME NEW d \in open, NEW k \in DOMAIN ib[d] PROVE \E m \in DOMAIN inbox[d] : ib[d][k] = inbox[d][m]
    <3>1. CASE d = c
      BY <1>4, <1>6, <3>1 DEF s
    <3>2. CASE d # c
      BY <1>4, <2>1, <3>2
    <3> QED
      BY <3>1, <3>2
  <2> QED
    BY <2>2 DEF Fewer
<1>8. /\ Requests \in Seq(Records) /\ open \subseteq Clients /\ gone \subseteq Handles
      /\ {} \subseteq DOMAIN Requests /\ gone \subseteq gone
  BY DEF Values
<1>9. /\ RemoveIf(Requests, {}) \in Seq(Records)
      /\ Match(RemoveIf(Requests, {}), next, submitted)
      /\ Told(open, ib, answered)
      /\ AllLive(RemoveIf(Requests, {}), next, gone, open, ib, submitted, answered)
  BY <1>4, <1>7, <1>8, RemoveKeeps
<1>10. RemoveIf(Requests, {}) = Requests
  BY DEF RemoveIf
<1>11. Values'
  BY <1>1, <1>4, <1>9, <1>10 DEF Values
<1>12. Queues'
  BY <1>1 DEF Queues, Flowing, httpVars
<1> QED
  BY <1>11, <1>12

\* The HTTP thread.
LEMMA HttpKeeps ==
    ASSUME Values, Queues, Http
    PROVE  Values' /\ Queues'
<1>1. UNCHANGED <<mainVars, submitted, answered>>
  BY DEF Http, HttpDequeue, HttpPerform, HttpReport
<1>2. Values'
  BY <1>1 DEF Values, mainVars
<1> DEFINE w == AtWork(http.step, http.handle)
<1>3. /\ w \in Seq(Handles) /\ answered \in Seq(Handles) /\ ResponseJson \in Seq(Responses)
      /\ RequestJson \in Seq(Handles) /\ submitted = Flow(answered, ResponseJson, w, RequestJson)
      /\ events \in Nat /\ Len(ResponseJson) \in Nat
      /\ http \in [step : {"dequeue", "perform", "report"}, handle : 0 .. MaxReqs]
      /\ Len(ResponseJson) = events + (IF http.step = "report" THEN 1 ELSE 0)
  BY AnsweredIsSubmitted DEF Queues, Flowing
<1>4. submitted' = submitted /\ submitted' \in Seq(Handles) /\ answered' \in Seq(Handles)
      /\ Once(submitted') /\ answered' = answered
  BY <1>1 DEF Queues
<1>5. CASE HttpDequeue
  <2>1. /\ http.step = "dequeue" /\ RequestJson # << >> /\ RequestJson' = Tail(RequestJson)
        /\ http' = [step |-> "perform", handle |-> Head(RequestJson)]
        /\ UNCHANGED <<ResponseJson, events>>
    BY <1>5 DEF HttpDequeue
  <2>2. Head(RequestJson) \in Handles /\ Tail(RequestJson) \in Seq(Handles)
    BY <1>3, <2>1, HeadAndTail
  <2>3. w = << >> /\ AtWork(http'.step, http'.handle) = <<Head(RequestJson)>>
    BY <2>1 DEF AtWork
  <2> HIDE DEF w
  <2>4. Flow(answered, ResponseJson, <<Head(RequestJson)>>, Tail(RequestJson)) = Flow(answered, ResponseJson, << >>, RequestJson)
    BY <1>3, <2>1, FlowDequeue
  <2>5. submitted' = Flowing'
    BY <1>3, <1>4, <2>1, <2>3, <2>4 DEF Flowing
  <2>6. http' \in [step : {"dequeue", "perform", "report"}, handle : 0 .. MaxReqs]
        /\ http'.step = "perform" /\ http'.handle \in Handles
    BY <2>1, <2>2 DEF Handles
  <2> QED
    BY <1>2, <1>3, <1>4, <2>1, <2>2, <2>5, <2>6 DEF Queues
<1>6. CASE HttpPerform
  <2>1. PICK a \in Answers : ResponseJson' = Append(ResponseJson, <<http.handle, a>>)
    BY <1>6 DEF HttpPerform
  <2>2. /\ http.step = "perform" /\ http' = [http EXCEPT !.step = "report"]
        /\ UNCHANGED <<RequestJson, events>> /\ http.handle \in Handles
    BY <1>6 DEF HttpPerform, Queues
  <2> DEFINE x == <<http.handle, a>>
  <2>3. x \in Responses /\ x[1] = http.handle
    BY <2>2 DEF Responses
  <2>4. w = <<x[1]>>
    BY <2>2, <2>3 DEF AtWork
  <2>5. /\ http' \in [step : {"dequeue", "perform", "report"}, handle : 0 .. MaxReqs]
        /\ http'.step = "report" /\ AtWork(http'.step, http'.handle) = << >>
    BY <1>3, <2>2 DEF AtWork
  <2> HIDE DEF w, x
  <2>6. Flow(answered, Append(ResponseJson, x), << >>, RequestJson) = Flow(answered, ResponseJson, <<x[1]>>, RequestJson)
    BY <1>3, <2>3, FlowPerform
  <2>7. submitted' = Flowing'
    BY <1>3, <1>4, <2>1, <2>2, <2>4, <2>5, <2>6 DEF Flowing, x
  <2>8. ResponseJson' \in Seq(Responses) /\ Len(ResponseJson') = Len(ResponseJson) + 1
    BY <1>3, <2>1, <2>3, AppendProperties DEF x
  <2>9. Len(ResponseJson') = events' + (IF http'.step = "report" THEN 1 ELSE 0) /\ events' \in Nat
    BY <1>3, <2>2, <2>5, <2>8
  <2> QED
    BY <1>2, <1>3, <1>4, <2>2, <2>5, <2>7, <2>8, <2>9 DEF Queues
<1>7. CASE HttpReport
  <2>1. http.step = "report" /\ events' = events + 1 /\ http' = Nobody /\ UNCHANGED <<RequestJson, ResponseJson>>
    BY <1>7 DEF HttpReport
  <2>2. /\ http' \in [step : {"dequeue", "perform", "report"}, handle : 0 .. MaxReqs]
        /\ http'.step = "dequeue" /\ AtWork(http'.step, http'.handle) = << >> /\ w = << >>
    <3>1. MaxReqs \in Nat
      BY CombainAssumption
    <3> QED
      BY <2>1, <3>1 DEF Nobody, AtWork
  <2>3. submitted' = Flowing'
    BY <1>3, <1>4, <2>1, <2>2 DEF Flowing
  <2>4. Len(ResponseJson') = events' + (IF http'.step = "report" THEN 1 ELSE 0) /\ events' \in Nat
    BY <1>3, <2>1, <2>2
  <2> QED
    BY <1>2, <1>3, <1>4, <2>1, <2>2, <2>3, <2>4 DEF Queues
<1> QED
  BY <1>5, <1>6, <1>7 DEF Http

LEMMA ParseType == \A a \in Answers : Parse(a) \in Outcomes /\ Parse(a) # "none"
<1> SUFFICES ASSUME NEW a \in Answers PROVE Parse(a) \in Outcomes /\ Parse(a) # "none"
  OBVIOUS
<1>1. a \in {"empty", "location", "error", "junk"}
  BY CombainAssumption
<1> QED
  BY <1>1 DEF Parse, Outcomes

CallMade(O, ib, ib2, ans2, h, c, r) ==
    /\ ib2 \in [Clients -> Seq(Handles \X Outcomes)] /\ Told(O, ib2, ans2)
    /\ ToldRight(O, ib2, h, c, r)
    /\ \A g, d, q : g # h /\ ToldRight(O, ib, g, d, q) => ToldRight(O, ib2, g, d, q)

\* A call of c's handler for request h, with result r, that it knew nothing of.
LEMMA OneMoreCall ==
    ASSUME NEW O, NEW ib \in [Clients -> Seq(Handles \X Outcomes)], NEW c \in Clients,
           O \subseteq Clients, NEW h \in Handles, NEW r \in Outcomes,
           NEW ans \in Seq(Handles), Told(O, ib, ans), ~ Contains(ans, h)
    PROVE  CallMade(O, ib, [ib EXCEPT ![c] = Append(@, <<h, r>>)], Append(ans, h), h, c, r)
<1> DEFINE ib2 == [ib EXCEPT ![c] = Append(@, <<h, r>>)]
           u == Append(ib[c], <<h, r>>)
           n == Len(ib[c])
<1>1. ib[c] \in Seq(Handles \X Outcomes) /\ <<h, r>> \in Handles \X Outcomes
  OBVIOUS
<1>2. /\ u \in Seq(Handles \X Outcomes) /\ Len(u) = n + 1 /\ u[n + 1] = <<h, r>>
      /\ \A k \in 1 .. n : u[k] = ib[c][k]
  BY <1>1, AppendProperties
<1>3. n \in Nat /\ DOMAIN ib[c] = 1 .. n /\ DOMAIN u = 1 .. Len(u)
  BY <1>1, <1>2, LenProperties
<1>4. /\ ib2 \in [Clients -> Seq(Handles \X Outcomes)]
      /\ \A d \in Clients : ib2[d] = IF d = c THEN u ELSE ib[d]
  BY <1>2
<1> HIDE DEF u, n, ib2
<1>5. ASSUME NEW d \in O, NEW k \in DOMAIN ib2[d]
      PROVE  (d = c /\ ib2[d][k] = <<h, r>>) \/ (k \in DOMAIN ib[d] /\ ib2[d][k] = ib[d][k])
  <2>1. CASE d = c
    <3>1. k \in 1 .. n \/ k = n + 1
      BY <1>2, <1>3, <1>4, <2>1
    <3> QED
      BY <1>2, <1>3, <1>4, <2>1, <3>1
  <2>2. CASE d # c
    BY <1>4, <2>2
  <2> QED
    BY <2>1, <2>2
<1>6. <<h, r>>[1] = h /\ <<h, r>>[2] = r
  OBVIOUS
<1>7. \A g : Contains(Append(ans, h), g) <=> (Contains(ans, g) \/ g = h)
  BY ContainsAppend
<1>8. Told(O, ib2, Append(ans, h))
  <2> SUFFICES ASSUME NEW d \in O, NEW k \in DOMAIN ib2[d] PROVE Contains(Append(ans, h), ib2[d][k][1])
    BY DEF Told
  <2>1. CASE d = c /\ ib2[d][k] = <<h, r>>
    BY <1>6, <1>7, <2>1
  <2>2. CASE k \in DOMAIN ib[d] /\ ib2[d][k] = ib[d][k]
    BY <1>7, <2>2 DEF Told
  <2> QED
    BY <1>5, <2>1, <2>2
<1>9. ToldRight(O, ib2, h, c, r)
  <2> SUFFICES ASSUME NEW d \in O, NEW k \in DOMAIN ib2[d], ib2[d][k][1] = h PROVE c = d /\ r = ib2[d][k][2]
    BY DEF ToldRight
  <2>1. ~ (k \in DOMAIN ib[d] /\ ib2[d][k] = ib[d][k])
    BY DEF Told
  <2>2. d = c /\ ib2[d][k] = <<h, r>>
    BY <1>5, <2>1
  <2> QED
    BY <1>6, <2>2
<1>10. ASSUME NEW g, NEW d, NEW q, g # h, ToldRight(O, ib, g, d, q) PROVE ToldRight(O, ib2, g, d, q)
  <2> SUFFICES ASSUME NEW e \in O, NEW k \in DOMAIN ib2[e], ib2[e][k][1] = g PROVE d = e /\ q = ib2[e][k][2]
    BY DEF ToldRight
  <2>1. k \in DOMAIN ib[e] /\ ib2[e][k] = ib[e][k]
    BY <1>5, <1>6, <1>10
  <2> QED
    BY <1>10, <2>1 DEF ToldRight
<1>11. CallMade(O, ib, ib2, Append(ans, h), h, c, r)
  BY <1>4, <1>8, <1>9, <1>10 DEF CallMade
<1> QED
  BY <1>11 DEF ib2

\* A result changes nothing of what Match says.
LEMMA MatchAnswered ==
    ASSUME NEW L \in Nat, NEW s \in [1 .. L -> Records], NEW n, NEW sub, Match(s, n, sub),
           NEW t, DOMAIN t = 1 .. L,
           \A j \in 1 .. L : /\ t[j].handle = s[j].handle /\ t[j].client = s[j].client
                             /\ t[j].request = s[j].request
    PROVE  Match(t, n, sub)
<1>1. DOMAIN s = 1 .. L
  OBVIOUS
<1>2. ASSUME NEW i \in 1 .. L, NEW j \in 1 .. L, t[i].handle = t[j].handle
      PROVE  /\ t[i].client = t[j].client
             /\ t[i].request = "builder" /\ t[j].request = "builder" => i = j
  <2>1. s[i].handle = s[j].handle
    BY <1>2
  <2>2. /\ s[i].client = s[j].client
        /\ s[i].request = "builder" /\ s[j].request = "builder" => i = j
    BY <1>1, <2>1 DEF Match
  <2> QED
    BY <2>2
<1>3. ASSUME NEW i \in 1 .. L
      PROVE  t[i].handle <= n /\ (t[i].request = "builder" => ~ Contains(sub, t[i].handle))
  BY <1>1 DEF Match
<1>4. \A k \in DOMAIN sub : sub[k] <= n
  BY DEF Match
<1> QED
  BY <1>2, <1>3, <1>4 DEF Match

LEMMA HandleResponseKeeps ==
    ASSUME Values, Queues, HandleResponseAvailable
    PROVE  Values' /\ Queues'
<1> DEFINE h == Head(ResponseJson)[1]
           r == Parse(Head(ResponseJson)[2])
           i == Found(h, Clients)
           L == Len(Requests)
           ans2 == Append(answered, h)
<1>1. /\ events > 0 /\ ResponseJson # << >> /\ events' = events - 1
      /\ ResponseJson' = Tail(ResponseJson) /\ answered' = ans2
      /\ UNCHANGED <<next, combainApiKeySet, open, gone, RequestJson, http, submitted>>
  BY DEF HandleResponseAvailable
<1>c. /\ i = 0 => Requests' = Requests /\ inbox' = inbox
      /\ i # 0 => /\ Requests' = [Requests EXCEPT ![i].result = r]
                  /\ inbox' = IF Requests[i].client \in open
                              THEN [inbox EXCEPT ![Requests[i].client] = Append(@, <<h, r>>)]
                              ELSE inbox
  BY DEF HandleResponseAvailable
<1>2. /\ Requests \in Seq(Records) /\ ResponseJson \in Seq(Responses) /\ answered \in Seq(Handles)
      /\ Match(Requests, next, submitted) /\ Told(open, inbox, answered) /\ open \subseteq Clients
      /\ inbox \in [Clients -> Seq(Handles \X Outcomes)] /\ events \in Nat
  BY DEF Values, Queues
<1>3. L \in Nat /\ Requests \in [1 .. L -> Records] /\ DOMAIN Requests = 1 .. L
  BY <1>2, TheList
<1>4. h \in Handles /\ r \in Outcomes /\ r # "none"
  <2>1. Head(ResponseJson) \in Responses
    BY <1>1, <1>2, HeadAndTail
  <2>2. h \in Handles /\ Head(ResponseJson)[2] \in Answers
    BY <2>1 DEF Responses
  <2> QED
    BY <2>2, ParseType
<1>5. ~ Contains(answered, h)
  BY <1>1, AnsweredIsSubmitted
<1>6. Queues'
  <2> DEFINE w == AtWork(http.step, http.handle)
  <2>1. /\ w \in Seq(Handles) /\ RequestJson \in Seq(Handles)
        /\ submitted = Flow(answered, ResponseJson, w, RequestJson)
    BY AnsweredIsSubmitted DEF Queues, Flowing
  <2>2. Flowing' = Flow(ans2, Tail(ResponseJson), w, RequestJson)
    BY <1>1 DEF Flowing
  <2>3. Flow(ans2, Tail(ResponseJson), w, RequestJson) = Flow(answered, ResponseJson, w, RequestJson)
    <3> HIDE DEF w
    <3> QED
      BY <1>1, <1>2, FlowAnswer
  <2>4. submitted' = Flowing'
    BY <1>1, <2>1, <2>2, <2>3
  <2>5. answered' \in Seq(Handles)
    <3> HIDE DEF h
    <3> QED
      BY <1>1, <1>2, <1>4, AppendProperties
  <2>6. ResponseJson' \in Seq(Responses) /\ Len(ResponseJson') = Len(ResponseJson) - 1
    BY <1>1, <1>2, HeadTailProperties
  <2>7. events' \in Nat /\ Len(ResponseJson') = events' + (IF http'.step = "report" THEN 1 ELSE 0)
    <3>1. Len(ResponseJson) = events + (IF http.step = "report" THEN 1 ELSE 0)
      BY DEF Queues
    <3> QED
      BY <1>1, <1>2, <2>6, <3>1
  <2> HIDE DEF ans2
  <2> QED
    BY <1>1, <2>4, <2>5, <2>6, <2>7 DEF Queues
<1> HIDE DEF h, r
<1>7. \A g : Contains(ans2, g) <=> (Contains(answered, g) \/ g = h)
  BY <1>2, <1>4, ContainsAppend
<1>8. Told(open, inbox, ans2)
  BY <1>2, <1>7 DEF Told
<1>9. /\ i = 0 => \A j \in 1 .. L : ~ (Requests[j].handle = h /\ Requests[j].client \in Clients)
      /\ i # 0 => /\ i \in 1 .. L /\ Requests[i].handle = h /\ Requests[i].client \in Clients
                  /\ \A j \in 1 .. L : Requests[j].handle = h /\ Requests[j].client \in Clients => i <= j
  BY <1>3, FoundFirst
<1>10. \A j \in 1 .. L : Requests[j].client \in Clients
  BY <1>3 DEF Records
<1> HIDE DEF i, L, ans2
<1>11. ASSUME NEW g \in (1 .. next) \ gone
       PROVE  \E p : /\ p \in 1 .. L /\ FirstAt(Requests, L, {}, g, p)
                     /\ Right(Requests[p], g, open, inbox, submitted, answered)
  <2>1. Live(Requests, g, open, inbox, submitted, answered)
    BY DEF Values, AllLive
  <2> QED
    BY <1>3, <2>1, LiveHasFirst
<1>12. CASE i = 0
  <2>1. ASSUME NEW g \in (1 .. next) \ gone PROVE Live(Requests, g, open, inbox, submitted, ans2)
    <3>1. PICK p : /\ p \in 1 .. L /\ FirstAt(Requests, L, {}, g, p)
                   /\ Right(Requests[p], g, open, inbox, submitted, answered)
      BY <1>11
    <3>2. g # h
      BY <1>9, <1>10, <1>12, <3>1 DEF Right
    <3>3. Right(Requests[p], g, open, inbox, submitted, ans2)
      BY <1>7, <3>1, <3>2 DEF Right
    <3> QED
      BY <1>3, <3>1, <3>3, LiveChanged
  <2>2. AllLive(Requests, next, gone, open, inbox, submitted, ans2)
    BY <2>1 DEF AllLive
  <2>3. Requests' = Requests /\ inbox' = inbox
    BY <1>c, <1>12
  <2>4. Values'
    BY <1>1, <1>8, <2>2, <2>3 DEF Values
  <2> QED
    BY <1>6, <2>4
<1>13. CASE i # 0
  <2> DEFINE c == Requests[i].client
             t == [Requests EXCEPT ![i].result = r]
             ib == IF c \in open THEN [inbox EXCEPT ![c] = Append(@, <<h, r>>)] ELSE inbox
  <2>1. Requests' = t /\ inbox' = ib
    BY <1>c, <1>13
  <2>2. /\ i \in 1 .. L /\ Requests[i].handle = h /\ c \in Clients /\ Requests[i] \in Records
        /\ \A j \in 1 .. L : Requests[j].handle = h => i <= j
    BY <1>3, <1>9, <1>10, <1>13
  <2>3. /\ t[i] = [Requests[i] EXCEPT !.result = r]
        /\ \A j \in 1 .. L : j # i => t[j] = Requests[j]
    BY <1>3, <2>2
  <2>4. /\ t[i] \in Records /\ t[i].handle = h /\ t[i].client = c /\ t[i].result = r
        /\ t[i].request = Requests[i].request
    BY <1>4, <2>2, <2>3 DEF Records
  <2>5. t \in [1 .. L -> Records]
    <3>1. \A j \in 1 .. L : t[j] \in Records
      BY <1>3, <2>3, <2>4
    <3>2. t = [j \in 1 .. L |-> t[j]]
      BY <1>3
    <3> HIDE DEF t
    <3> QED
      BY <3>1, <3>2
  <2>6. /\ ib \in [Clients -> Seq(Handles \X Outcomes)] /\ Told(open, ib, ans2)
        /\ ToldRight(open, ib, h, c, r)
        /\ \A g, d, q : g # h /\ ToldRight(open, inbox, g, d, q) => ToldRight(open, ib, g, d, q)
    <3>1. CASE c \in open
      <4>1. ib = [inbox EXCEPT ![c] = Append(@, <<h, r>>)]
        BY <3>1
      <4>2. c \in Clients
        BY <2>2
      <4> HIDE DEF ib, c
      <4>3. CallMade(open, inbox, [inbox EXCEPT ![c] = Append(@, <<h, r>>)], Append(answered, h), h, c, r)
        BY <1>2, <1>4, <1>5, <4>2, OneMoreCall
      <4> QED
        BY <4>1, <4>3 DEF CallMade, ans2
    <3>2. CASE c \notin open
      <4>1. ib = inbox
        BY <3>2
      <4>2. ToldRight(open, inbox, h, c, r)
        BY <1>2, <1>5 DEF Told, ToldRight
      <4> HIDE DEF ib, c
      <4> QED
        BY <1>2, <1>8, <4>1, <4>2
    <3> QED
      BY <3>1, <3>2
  <2> HIDE DEF ib, t
  <2>7. \A j \in 1 .. L : t[j].handle = Requests[j].handle
    BY <2>2, <2>3, <2>4
  <2>8. ASSUME NEW g \in (1 .. next) \ gone PROVE Live(t, g, open, ib, submitted, ans2)
    <3>1. PICK p : /\ p \in 1 .. L /\ FirstAt(Requests, L, {}, g, p)
                   /\ Right(Requests[p], g, open, inbox, submitted, answered)
      BY <1>11
    <3>2. CASE g = h
      <4>1. Requests[p].handle = h /\ \A j \in 1 .. (p - 1) : Requests[j].handle # h
        BY <3>1, <3>2 DEF FirstAt
      <4>2. p = i
        <5>1. i <= p
          BY <2>2, <3>1, <4>1
        <5>2. ~ (i \in 1 .. (p - 1))
          BY <2>2, <4>1
        <5> QED
          BY <1>3, <2>2, <3>1, <5>1, <5>2
      <4>3. c \in open /\ (Requests[i].request = "null" <=> Contains(submitted, h))
        BY <3>1, <3>2, <4>2 DEF Right
      <4>4. Right(t[p], g, open, ib, submitted, ans2)
        <5> HIDE DEF c
        <5> QED
          BY <1>4, <1>7, <2>4, <2>6, <3>2, <4>2, <4>3 DEF Right
      <4> QED
        BY <1>3, <2>5, <2>7, <3>1, <4>4, LiveChanged
    <3>3. CASE g # h
      <4>1. p # i
        BY <2>2, <3>1, <3>3 DEF Right
      <4>2. t[p] = Requests[p]
        BY <2>3, <3>1, <4>1
      <4>3. Right(t[p], g, open, ib, submitted, ans2)
        BY <1>7, <2>6, <3>1, <3>3, <4>2 DEF Right
      <4> QED
        BY <1>3, <2>5, <2>7, <3>1, <4>3, LiveChanged
    <3> QED
      BY <3>2, <3>3
  <2>9. AllLive(t, next, gone, open, ib, submitted, ans2)
    BY <2>8 DEF AllLive
  <2>10. Match(t, next, submitted)
    <3>1. DOMAIN t = 1 .. L
      BY <2>5
    <3>2. \A j \in 1 .. L : /\ t[j].handle = Requests[j].handle /\ t[j].client = Requests[j].client
                           /\ t[j].request = Requests[j].request
      BY <2>2, <2>3, <2>4
    <3> QED
      BY <1>2, <1>3, <3>1, <3>2, MatchAnswered
  <2>11. t \in Seq(Records)
    BY <1>3, <2>5, AList
  <2>12. Values'
    BY <1>1, <2>1, <2>6, <2>9, <2>10, <2>11 DEF Values
  <2> QED
    BY <1>6, <2>12
<1> QED
  BY <1>12, <1>13

LEMMA NextCombain == CombainIInv /\ [CombainNext]_combainVars => CombainIInv'
<1> SUFFICES ASSUME Values, Queues, [CombainNext]_combainVars PROVE Values' /\ Queues'
  BY InvValues, InvValuesNext
<1>1. CASE UNCHANGED combainVars
  BY <1>1 DEF Values, Queues, Flowing, combainVars, mainVars, httpVars
<1>2. ASSUME NEW c \in Clients, ClientCall(c) PROVE Values' /\ Queues'
  <2>1. CASE CreateLocationRequest(c)
    BY <2>1, CreateKeeps
  <2>2. CASE ClientSeesResult(c)
    BY <2>2, SeesKeeps
  <2>3. CASE ClientSessionClosed(c)
    BY <2>3, CloseKeeps
  <2>4. ASSUME NEW h \in Handles, SubmitLocationRequest(c, h) PROVE Values' /\ Queues'
    BY <2>4, SubmitKeeps
  <2>5. ASSUME NEW h \in Handles, DestroyLocationRequest(c, h) PROVE Values' /\ Queues'
    BY <2>5, DestroyKeeps DEF DestroyLocationRequest
  <2>6. ASSUME NEW h \in Handles, NEW kind \in {"success", "error", "parse"}, GetResponse(c, h, kind)
        PROVE  Values' /\ Queues'
    <3>1. CASE kind = "parse"
      <4>1. UNCHANGED combainVars
        BY <2>6, <3>1 DEF GetResponse, combainVars, mainVars, httpVars
      <4> QED
        BY <1>1, <4>1
    <3>2. CASE kind # "parse"
      BY <2>6, <3>2, DestroyKeeps DEF GetResponse
    <3> QED
      BY <3>1, <3>2
  <2> QED
    BY <1>2, <2>1, <2>2, <2>3, <2>4, <2>5, <2>6 DEF ClientCall
<1>3. ASSUME NEW set \in BOOLEAN, SetApiKey(set) PROVE Values' /\ Queues'
  BY <1>3 DEF SetApiKey, Values, Queues, Flowing, httpVars
<1>4. CASE HandleResponseAvailable
  BY <1>4, HandleResponseKeeps
<1>5. CASE Http
  BY <1>5, HttpKeeps
<1> QED
  BY <1>1, <1>2, <1>3, <1>4, <1>5 DEF CombainNext

\* CombainIInv is an invariant, for any clients and any number of requests.
THEOREM CombainInvariant == CombainSpec => []CombainIInv
<1>1. CombainInit => CombainIInv
  BY InitCombain
<1>2. CombainIInv /\ [CombainNext]_combainVars => CombainIInv'
  BY NextCombain
<1> QED
  BY <1>1, <1>2, PTL DEF CombainSpec

\* The main thread never waits in ResponseJson.dequeue for a response that is not there, and
\* every request is submitted once and answered once, in order: CombainHttpThreadFunc and
\* HandleResponseAvailable, whatever the clients do.
THEOREM AnswersAreSound == CombainSpec => []AnswersSound
<1>1. CombainIInv => AnswersSound
  BY DEF CombainIInv
<1> QED
  BY <1>1, CombainInvariant, PTL

\* remove_if never erases a record, yet a request its client has not destroyed keeps its
\* builder until it is submitted and its result until it is fetched.
THEOREM LiveRequestsAreIntact == CombainSpec => []LiveRequestsIntact
<1>1. CombainIInv => LiveRequestsIntact
  <2> SUFFICES ASSUME Values, NEW h \in (1 .. next) \ gone
               PROVE  LET i == Found(h, open) IN
                      /\ i # 0
                      /\ Requests[i].request = "null" <=> Contains(submitted, h)
                      /\ Requests[i].result # "none" <=> Contains(answered, h)
                      /\ \A c \in open : \A k \in DOMAIN inbox[c] :
                            inbox[c][k][1] = h => /\ Requests[i].client = c
                                                  /\ Requests[i].result = inbox[c][k][2]
    BY InvValues DEF LiveRequestsIntact
  <2> DEFINE L == Len(Requests)
             i == Found(h, open)
  <2>1. L \in Nat /\ Requests \in [1 .. L -> Records] /\ DOMAIN Requests = 1 .. L
    BY TheList DEF Values
  <2>2. Live(Requests, h, open, inbox, submitted, answered)
    BY DEF Values, AllLive
  <2> HIDE DEF L
  <2>3. PICK p : /\ p \in 1 .. L /\ FirstAt(Requests, L, {}, h, p)
                 /\ Right(Requests[p], h, open, inbox, submitted, answered)
    BY <2>1, <2>2, LiveHasFirst
  <2>4. /\ i = 0 => \A j \in 1 .. L : ~ (Requests[j].handle = h /\ Requests[j].client \in open)
        /\ i # 0 => /\ i \in 1 .. L /\ Requests[i].handle = h
                    /\ \A j \in 1 .. L : Requests[j].handle = h /\ Requests[j].client \in open => i <= j
    BY <2>1, FoundFirst
  <2>5. /\ Requests[p].handle = h /\ Requests[p].client \in open
        /\ \A j \in 1 .. (p - 1) : Requests[j].handle # h
    BY <2>3 DEF Right, FirstAt
  <2> HIDE DEF i
  <2>6. i # 0
    BY <2>3, <2>4, <2>5
  <2>7. i = p
    <3>1. i \in 1 .. L /\ i <= p
      BY <2>3, <2>4, <2>5, <2>6
    <3>2. ~ (i \in 1 .. (p - 1))
      BY <2>4, <2>5, <2>6
    <3> QED
      BY <2>1, <2>3, <3>1, <3>2
  <2> QED
    BY <2>3, <2>6, <2>7 DEF Right, ToldRight, i
<1> QED
  BY <1>1, CombainInvariant, PTL
-----------------------------------------------------------------------------
(* The location sensor *)

\* AnswerIsExpected and PendingIsExpected, of the values the variables have: ib is the
\* sensor's inbox, w says whether it waits, and h is the request it waits for.
InboxExpected(ib, w, h) == \A k \in DOMAIN ib : k = 1 /\ w /\ ib[k][1] = h
ListExpected(R, sub, ans, ib, w, h) ==
    \A j \in DOMAIN R :
        R[j].client = Loc /\ Contains(sub, R[j].handle) /\ ~ Contains(ans, R[j].handle)
        => w /\ R[j].handle = h /\ ib = << >>
Expected(w, h) ==
    /\ InboxExpected(inbox[Loc], w, h)
    /\ ListExpected(Requests, submitted, answered, inbox[Loc], w, h)
ExpectedNext(w, h) ==
    /\ InboxExpected(inbox'[Loc], w, h)
    /\ ListExpected(Requests', submitted', answered', inbox'[Loc], w, h)

LEMMA ExpectedParts ==
    /\ AnswerIsExpected /\ PendingIsExpected <=> Expected(waitingForCombainResults, combainHandle)
    /\ (AnswerIsExpected /\ PendingIsExpected)'
         <=> ExpectedNext(waitingForCombainResults', combainHandle')
<1>1. AnswerIsExpected /\ PendingIsExpected <=> Expected(waitingForCombainResults, combainHandle)
  BY Zenon DEF AnswerIsExpected, PendingIsExpected, Expected, InboxExpected, ListExpected
<1>2. (AnswerIsExpected /\ PendingIsExpected)'
         <=> ExpectedNext(waitingForCombainResults', combainHandle')
  BY Zenon DEF AnswerIsExpected, PendingIsExpected, ExpectedNext, InboxExpected, ListExpected
<1> QED
  BY <1>1, <1>2

\* Nothing is expected: then it does not matter which request is.
LEMMA NothingExpected ==
    ASSUME NEW h, NEW g
    PROVE  /\ Expected(FALSE, h) => Expected(FALSE, g)
           /\ ExpectedNext(FALSE, h) => ExpectedNext(FALSE, g)
  BY Zenon DEF Expected, ExpectedNext, InboxExpected, ListExpected

\* Each record of list t is of the request and the client of some record of list s.
SameOwners(s, t) ==
    \A j \in DOMAIN t : \E i \in DOMAIN s : t[j].handle = s[i].handle /\ t[j].client = s[i].client

LEMMA RemovedOwners ==
    ASSUME NEW s \in Seq(Records), NEW M, M \subseteq DOMAIN s
    PROVE  SameOwners(s, RemoveIf(s, M))
<1> DEFINE L == Len(s)
           r == RemoveIf(s, M)
<1>1. L \in Nat /\ s \in [1 .. L -> Records] /\ DOMAIN s = 1 .. L
  BY TheList
<1> HIDE DEF L
<1>2. r \in [1 .. L -> Records] /\ \E src : MadeOf(s, r, L, src)
  BY <1>1, RemoveIfMoves
<1> HIDE DEF r
<1>3. PICK src : MadeOf(s, r, L, src)
  BY <1>2
<1>4. ASSUME NEW j \in 1 .. L
      PROVE  \E i \in 1 .. L : r[j].handle = s[i].handle /\ r[j].client = s[i].client
  <2>1. src[j] \in 1 .. L /\ (r[j] = s[src[j]] \/ r[j] = MovedFrom(s[src[j]]))
    BY <1>3 DEF MadeOf
  <2>2. s[src[j]] \in Records
    BY <1>1, <2>1
  <2>3. /\ MovedFrom(s[src[j]]).handle = s[src[j]].handle
        /\ MovedFrom(s[src[j]]).client = s[src[j]].client
    BY <2>2 DEF MovedFrom, Records
  <2> QED
    BY <2>1, <2>3
<1>5. DOMAIN r = 1 .. L
  BY <1>2
<1>6. SameOwners(s, r)
  BY <1>1, <1>4, <1>5 DEF SameOwners
<1> QED
  BY <1>6 DEF r

\* A step that moves records, and tells the sensor nothing.
LEMMA MovingKeepsExpected ==
    ASSUME NEW w, NEW h, Expected(w, h), SameOwners(Requests, Requests'),
           submitted' = submitted, answered' = answered, inbox'[Loc] = inbox[Loc]
    PROVE  ExpectedNext(w, h)
<1>1. InboxExpected(inbox'[Loc], w, h)
  BY DEF Expected
<1>2. ASSUME NEW j \in DOMAIN Requests', Requests'[j].client = Loc,
             Contains(submitted, Requests'[j].handle), ~ Contains(answered, Requests'[j].handle)
      PROVE  w /\ Requests'[j].handle = h /\ inbox'[Loc] = << >>
  <2>1. PICK i \in DOMAIN Requests :
          Requests'[j].handle = Requests[i].handle /\ Requests'[j].client = Requests[i].client
    BY DEF SameOwners
  <2> QED
    BY <1>2, <2>1, Zenon DEF Expected, ListExpected
<1> QED
  BY <1>1, <1>2, Zenon DEF ExpectedNext, ListExpected

LEMMA SameIsOwned == SameOwners(Requests, Requests)
  BY Zenon DEF SameOwners

\* ma_combainLocation_DestroyLocationRequest, of the sensor or of another client.
LEMMA DestroyKeepsExpected ==
    ASSUME Values, NEW w, NEW h, Expected(w, h), NEW c, NEW g, Destroy(c, g),
           submitted' = submitted, answered' = answered, inbox' = inbox
    PROVE  ExpectedNext(w, h)
<1> DEFINE M == {i \in DOMAIN Requests : Requests[i].handle = g /\ Requests[i].client = c}
<1>1. Requests' = RemoveIf(Requests, M) /\ Requests \in Seq(Records)
  BY DEF Destroy, Values
<1>2. M \subseteq DOMAIN Requests
  OBVIOUS
<1> HIDE DEF M
<1>3. SameOwners(Requests, Requests')
  BY <1>1, <1>2, RemovedOwners, Zenon
<1> QED
  BY <1>3, MovingKeepsExpected

LEMMA CloseKeepsExpected ==
    ASSUME Values, NEW w, NEW h, Expected(w, h), NEW c \in Clients \ {Loc}, ClientSessionClosed(c)
    PROVE  ExpectedNext(w, h)
<1> DEFINE M == {i \in DOMAIN Requests : Requests[i].client = c}
<1>1. Requests' = RemoveIf(Requests, M) /\ Requests \in Seq(Records)
  BY DEF ClientSessionClosed, Values
<1>2. M \subseteq DOMAIN Requests
  OBVIOUS
<1>3. inbox'[Loc] = inbox[Loc] /\ submitted' = submitted /\ answered' = answered
  BY LocAssumption DEF ClientSessionClosed, Values
<1> HIDE DEF M
<1>4. SameOwners(Requests, Requests')
  BY <1>1, <1>2, RemovedOwners, Zenon
<1> QED
  BY <1>3, <1>4, MovingKeepsExpected

\* A new request has not been submitted.
LEMMA CreateKeepsExpected ==
    ASSUME Values, Queues, NEW w, NEW h, Expected(w, h), NEW c \in Clients,
           CreateLocationRequest(c)
    PROVE  ExpectedNext(w, h)
<1> DEFINE L == Len(Requests)
           x == [handle |-> next + 1, client |-> c, request |-> "builder", result |-> "none"]
           t == Append(Requests, x)
<1>1. /\ Requests \in Seq(Records) /\ next \in Nat /\ next < MaxReqs /\ MaxReqs \in Nat
      /\ submitted \in Seq(Handles) /\ Match(Requests, next, submitted)
  BY CombainAssumption DEF Values, Queues, CreateLocationRequest
<1>2. L \in Nat /\ Requests \in [1 .. L -> Records] /\ DOMAIN Requests = 1 .. L
  BY <1>1, TheList
<1>3. x \in Records /\ x.handle = next + 1
  BY <1>1 DEF Records, Handles
<1>4. Requests' = t /\ submitted' = submitted /\ answered' = answered /\ inbox' = inbox
  BY DEF CreateLocationRequest
<1> HIDE DEF x
<1>5. t \in Seq(Records) /\ Len(t) = L + 1 /\ t[L + 1] = x /\ \A i \in 1 .. L : t[i] = Requests[i]
  BY <1>1, <1>3, AppendProperties
<1> HIDE DEF t, L
<1>6. t \in [1 .. (L + 1) -> Records] /\ DOMAIN t = 1 .. (L + 1)
  BY <1>5, TheList
<1>7. ~ Contains(submitted, next + 1)
  <2>1. Grown(Requests, t, L, x)
    BY <1>5, <1>6 DEF Grown
  <2> QED
    BY <1>1, <1>2, <1>3, <2>1, MatchCreated
<1>8. ASSUME NEW j \in DOMAIN t, t[j].client = Loc, Contains(submitted, t[j].handle),
             ~ Contains(answered, t[j].handle)
      PROVE  w /\ t[j].handle = h /\ inbox[Loc] = << >>
  <2>1. j \in 1 .. L
    <3>1. j \in 1 .. L \/ j = L + 1
      BY <1>2, <1>6
    <3> QED
      BY <1>3, <1>5, <1>7, <1>8, <3>1
  <2>2. t[j] = Requests[j] /\ j \in DOMAIN Requests
    BY <1>2, <1>5, <2>1
  <2> QED
    BY <1>8, <2>2, Zenon DEF Expected, ListExpected
<1> QED
  BY <1>4, <1>8, Zenon DEF Expected, ExpectedNext, ListExpected

\* Another client's request is not the sensor's.
LEMMA SubmitKeepsExpected ==
    ASSUME Values, Queues, NEW w, NEW h, Expected(w, h), NEW c \in Clients \ {Loc},
           NEW g \in Handles, SubmitLocationRequest(c, g)
    PROVE  ExpectedNext(w, h)
<1> DEFINE L == Len(Requests)
           i == Found(g, {c})
<1>1. L \in Nat /\ Requests \in [1 .. L -> Records] /\ DOMAIN Requests = 1 .. L
  BY TheList DEF Values
<1>2. /\ submitted \in Seq(Handles) /\ Match(Requests, next, submitted)
      /\ submitted' = Append(submitted, g) /\ answered' = answered /\ inbox' = inbox
      /\ Requests' = [Requests EXCEPT ![i].request = "null"] /\ i # 0
  BY DEF Values, Queues, SubmitLocationRequest, Accepts
<1> HIDE DEF L
<1>3. i \in 1 .. L /\ Requests[i].handle = g /\ Requests[i].client \in {c}
  BY <1>1, <1>2, FoundFirst
<1> HIDE DEF i
<1>4. /\ DOMAIN Requests' = 1 .. L
      /\ \A j \in 1 .. L : /\ Requests'[j].handle = Requests[j].handle
                           /\ Requests'[j].client = Requests[j].client
  BY <1>1, <1>2, <1>3 DEF Records
<1>5. ASSUME NEW j \in 1 .. L, Requests[j].client = Loc PROVE Requests[j].handle # g
  BY <1>1, <1>2, <1>3, <1>5 DEF Match
<1>6. \A j \in 1 .. L : Requests[j].client = Loc /\ Contains(submitted', Requests[j].handle)
                          => Contains(submitted, Requests[j].handle)
  BY <1>2, <1>5, ContainsAppend
<1> QED
  BY <1>1, <1>2, <1>4, <1>6, Zenon DEF Expected, ExpectedNext, ListExpected

\* HandleResponseAvailable: the sensor's client is called for the request it waits for.
LEMMA AnswerKeepsExpected ==
    ASSUME Values, Queues, NEW w, NEW h, Expected(w, h), HandleResponseAvailable
    PROVE  ExpectedNext(w, h)
<1> DEFINE g == Head(ResponseJson)[1]
           r == Parse(Head(ResponseJson)[2])
           i == Found(g, Clients)
           L == Len(Requests)
<1>1. /\ ResponseJson # << >> /\ answered' = Append(answered, g) /\ submitted' = submitted
      /\ i = 0 => Requests' = Requests /\ inbox' = inbox
      /\ i # 0 => /\ Requests' = [Requests EXCEPT ![i].result = r]
                  /\ inbox' = IF Requests[i].client \in open
                              THEN [inbox EXCEPT ![Requests[i].client] = Append(@, <<g, r>>)]
                              ELSE inbox
  BY DEF HandleResponseAvailable
<1>2. /\ L \in Nat /\ Requests \in [1 .. L -> Records] /\ DOMAIN Requests = 1 .. L
      /\ answered \in Seq(Handles) /\ inbox \in [Clients -> Seq(Handles \X Outcomes)]
  BY TheList DEF Values, Queues
<1>3. g \in Handles /\ Contains(submitted, g) /\ ~ Contains(answered, g)
  <2>1. Head(ResponseJson) \in Responses
    BY <1>1, HeadAndTail DEF Queues
  <2> QED
    BY <1>1, <2>1, AnsweredIsSubmitted DEF Responses
<1> HIDE DEF g, L
<1>4. \A x : Contains(answered', x) <=> (Contains(answered, x) \/ x = g)
  BY <1>1, <1>2, <1>3, ContainsAppend
<1>5. CASE i = 0
  BY <1>1, <1>4, <1>5, Zenon DEF Expected, ExpectedNext, ListExpected
<1>6. CASE i # 0
  <2>1. i \in 1 .. L /\ Requests[i].handle = g /\ Requests[i].client \in Clients
    BY <1>2, <1>6, FoundFirst
  <2> HIDE DEF i, r
  <2>a. Requests' = [Requests EXCEPT ![i].result = r]
    BY <1>1, <1>6
  <2>2. /\ DOMAIN Requests' = 1 .. L
        /\ \A j \in 1 .. L : /\ Requests'[j].handle = Requests[j].handle
                             /\ Requests'[j].client = Requests[j].client
    BY <1>2, <2>1, <2>a DEF Records
  <2>3. CASE inbox'[Loc] = inbox[Loc]
    BY <1>1, <1>2, <1>4, <2>2, <2>3, Zenon DEF Expected, ExpectedNext, ListExpected
  <2>4. CASE inbox'[Loc] # inbox[Loc]
    <3>1. Requests[i].client = Loc /\ inbox'[Loc] = Append(inbox[Loc], <<g, r>>)
      BY <1>1, <1>2, <1>6, <2>1, <2>4, LocAssumption
    <3>2. w /\ h = g /\ inbox[Loc] = << >>
      BY <1>2, <1>3, <2>1, <3>1, Zenon DEF Expected, ListExpected
    <3>3. inbox'[Loc] = << <<g, r>> >>
      BY <3>1, <3>2
    <3>4. InboxExpected(inbox'[Loc], w, h)
      BY <3>2, <3>3 DEF InboxExpected
    <3>5. \A j \in 1 .. L : Requests[j].client = Loc /\ Contains(submitted, Requests[j].handle)
                              => Contains(answered', Requests[j].handle)
      BY <1>2, <1>4, <3>2, Zenon DEF Expected, ListExpected
    <3> QED
      BY <1>1, <2>2, <3>4, <3>5, Zenon DEF ExpectedNext, ListExpected
  <2> QED
    BY <2>3, <2>4
<1> QED
  BY <1>5, <1>6

\* What the service does, and what its other clients do.
LEMMA ServiceKeepsExpected ==
    ASSUME Values, Queues, NEW w, NEW h, Expected(w, h),
           \/ \E c \in Clients \ {Loc} : ClientCall(c)
           \/ \E set \in BOOLEAN : SetApiKey(set)
           \/ Service
    PROVE  ExpectedNext(w, h)
<1>1. ASSUME NEW c \in Clients \ {Loc}, ClientCall(c) PROVE ExpectedNext(w, h)
  <2>1. CASE CreateLocationRequest(c)
    BY <2>1, CreateKeepsExpected
  <2>2. CASE ClientSeesResult(c)
    <3>1. /\ Requests' = Requests /\ submitted' = submitted /\ answered' = answered
          /\ inbox'[Loc] = inbox[Loc]
      BY <2>2, LocAssumption DEF ClientSeesResult, Values
    <3> QED
      BY <3>1, SameIsOwned, MovingKeepsExpected
  <2>3. CASE ClientSessionClosed(c)
    BY <2>3, CloseKeepsExpected
  <2>4. ASSUME NEW g \in Handles, SubmitLocationRequest(c, g) PROVE ExpectedNext(w, h)
    BY <2>4, SubmitKeepsExpected
  <2>5. ASSUME NEW g \in Handles, DestroyLocationRequest(c, g) PROVE ExpectedNext(w, h)
    BY <2>5, DestroyKeepsExpected DEF DestroyLocationRequest
  <2>6. ASSUME NEW g \in Handles, NEW kind, GetResponse(c, g, kind) PROVE ExpectedNext(w, h)
    <3>1. submitted' = submitted /\ answered' = answered /\ inbox' = inbox
      BY <2>6 DEF GetResponse
    <3>2. CASE kind = "parse"
      <4>1. Requests' = Requests
        BY <2>6, <3>2 DEF GetResponse
      <4> QED
        BY <3>1, <4>1, SameIsOwned, MovingKeepsExpected
    <3>3. CASE kind # "parse"
      BY <2>6, <3>1, <3>3, DestroyKeepsExpected DEF GetResponse
    <3> QED
      BY <3>2, <3>3
  <2> QED
    BY <1>1, <2>1, <2>2, <2>3, <2>4, <2>5, <2>6 DEF ClientCall
<1>2. ASSUME \/ \E set \in BOOLEAN : SetApiKey(set)
             \/ Http
      PROVE  ExpectedNext(w, h)
  <2>1. /\ Requests' = Requests /\ submitted' = submitted /\ answered' = answered
        /\ inbox' = inbox
    BY <1>2 DEF SetApiKey, Http, HttpDequeue, HttpPerform, HttpReport, mainVars
  <2> QED
    BY <2>1, SameIsOwned, MovingKeepsExpected
<1>3. CASE HandleResponseAvailable
  BY <1>3, AnswerKeepsExpected
<1> QED
  BY <1>1, <1>2, <1>3, Zenon DEF Service

\* What was submitted stays so.
LEMMA SubmittedStays ==
    ASSUME Queues, NEW h, Contains(submitted, h),
           submitted' = submitted \/ \E g \in Handles : submitted' = Append(submitted, g)
    PROVE  Contains(submitted', h)
<1>1. submitted \in Seq(Handles)
  BY DEF Queues
<1>2. ASSUME NEW g \in Handles PROVE Contains(Append(submitted, g), h)
  BY <1>1, ContainsAppend
<1> QED
  BY <1>2

LEMMA StepsSubmit ==
    ASSUME [CombainNext]_combainVars
    PROVE  submitted' = submitted \/ \E g \in Handles : submitted' = Append(submitted, g)
<1>1. ASSUME NEW c, ClientCall(c)
      PROVE  submitted' = submitted \/ \E g \in Handles : submitted' = Append(submitted, g)
  BY <1>1, Zenon DEF ClientCall, CreateLocationRequest, SubmitLocationRequest, DestroyLocationRequest,
     GetResponse, ClientSeesResult, ClientSessionClosed
<1>2. (\E set \in BOOLEAN : SetApiKey(set)) => submitted' = submitted
  BY DEF SetApiKey
<1>3. HandleResponseAvailable => submitted' = submitted
  BY DEF HandleResponseAvailable
<1>4. Http => submitted' = submitted
  BY DEF Http, HttpDequeue, HttpPerform, HttpReport
<1>5. UNCHANGED combainVars => submitted' = submitted
  BY DEF combainVars
<1> QED
  BY <1>1, <1>2, <1>3, <1>4, <1>5, Zenon DEF CombainNext

\* What is pushed: a fix type with its position, or none.
PushStep ==
    \/ UNCHANGED <<fixType, sent>>
    \/ fixType' = "Good GNSS" /\ sent' = "gps"
    \/ fixType' = "Wifi" /\ sent' = "wifi"
    \/ fixType' = "NONE" /\ (sent' = sent \/ sent' = gpsScan)
    \/ fixType' = "Waiting for Wifi" /\ sent' = sent

LEMMA PushStepKeeps ==
    ASSUME PushesTypeOK, FixTypeIsHonest, gpsScan \in {"null", "saved", "garbage"},
           PushStep, sent' # "null"
    PROVE  PushesTypeOK' /\ FixTypeIsHonest'
<1>1. PushesTypeOK'
  BY Zenon DEF PushesTypeOK, PushStep
<1>2. FixTypeIsHonest'
  BY Zenon DEF FixTypeIsHonest, PushStep
<1> QED
  BY <1>1, <1>2

LEMMA UseGpsScanPushes ==
    ASSUME UseGpsScan, PushesTypeOK
    PROVE  PushStep /\ sent' # "null"
<1>1. sent # "null"
  BY Zenon DEF PushesTypeOK
<1>2. fixType' = "NONE" /\ (sent' = sent \/ (sent' = gpsScan /\ gpsScan # "null"))
  BY Zenon DEF UseGpsScan, PushJson
<1> QED
  BY <1>1, <1>2, Zenon DEF PushStep

LEMMA StepsPush ==
    ASSUME PushesTypeOK, LocNext
    PROVE  PushStep /\ sent' # "null"
<1>0. sent # "null"
  BY Zenon DEF PushesTypeOK
<1>1. CASE SampleGood
  BY <1>1, Zenon DEF SampleGood, PushJson, PushStep
<1>2. CASE SampleNoService
  BY <1>0, <1>2, Zenon DEF SampleNoService, PushStep
<1>3. ASSUME NEW pos, SampleBusy(pos) PROVE PushStep /\ sent' # "null"
  BY <1>0, <1>3, Zenon DEF SampleBusy, PushStep
<1>4. ASSUME NEW pos, SampleScan(pos) PROVE PushStep /\ sent' # "null"
  BY <1>0, <1>4, Zenon DEF SampleScan, PushStep
<1>5. CASE WifiScanDone
  BY <1>0, <1>5, Zenon DEF WifiScanDone, reading, PushStep
<1>6. CASE WifiOtherEvent
  BY <1>6, UseGpsScanPushes DEF WifiOtherEvent
<1>7. CASE TrySubmitRequest
  BY <1>0, <1>7, Zenon DEF TrySubmitRequest, reading, PushStep
<1>8. CASE DestroyUnsubmitted
  BY <1>0, <1>8, Zenon DEF DestroyUnsubmitted, PushStep
<1>9. CASE ResultArrives
  BY <1>0, <1>9, Zenon DEF ResultArrives, reading, PushStep
<1>10. CASE FetchFailure
  BY <1>10, UseGpsScanPushes DEF FetchFailure
<1>11. ASSUME NEW inside, FetchSuccess(inside) PROVE PushStep /\ sent' # "null"
  <2>1. \/ UNCHANGED <<fixType, sent>>
        \/ fixType' = "Wifi" /\ sent' = "wifi"
        \/ UseGpsScan
    BY <1>11, Zenon DEF FetchSuccess, reading, PushJson
  <2>2. ("wifi" # "null")
    OBVIOUS
  <2> QED
    BY <1>0, <2>1, <2>2, UseGpsScanPushes, Zenon DEF PushStep
<1>12. CASE UNCHANGED locVars
  BY <1>0, <1>12, Zenon DEF locVars, reading, PushStep
<1> QED
  BY <1>1, <1>2, <1>3, <1>4, <1>5, <1>6, <1>7, <1>8, <1>9, <1>10, <1>11, <1>12, Zenon
     DEF LocNext, Sample, Handler

-----------------------------------------------------------------------------
(* The steps of the sensor *)

\* The sensor's variables, but for what is pushed.
SensorTyped ==
    /\ waitingForWifiResults \in BOOLEAN /\ waitingForCombainResults \in BOOLEAN
    /\ combainHandle \in 0 .. next
    /\ gpsScan \in {"null", "saved", "garbage"} /\ savedRef \in BOOLEAN
    /\ wifi \in {"down", "created", "started"}
    /\ step \in {"idle", "submit", "destroy", "fetch"}
    /\ running \in BOOLEAN /\ killed \in BOOLEAN

SensorInv ==
    /\ Values /\ Queues /\ SensorTyped /\ PushesTypeOK /\ FixTypeIsHonest
    /\ Expected(waitingForCombainResults, combainHandle) /\ OneAtATime /\ NoticeIsResult

LEMMA LocInvariantParts == LocIInv <=> SensorInv
  BY InvValues, ExpectedParts, Zenon
     DEF LocIInv, SensorSound, LocTypeOK, SensorInv, SensorTyped, CombainIInv, AnswersSound

\* Requests with number 0 there are none.
LEMMA DestroyNothing ==
    ASSUME Values, NEW c, Destroy(c, 0)
    PROVE  UNCHANGED <<Requests, gone>>
<1> DEFINE L == Len(Requests)
           M == {i \in DOMAIN Requests : Requests[i].handle = 0 /\ Requests[i].client = c}
<1>1. L \in Nat /\ Requests \in [1 .. L -> Records] /\ DOMAIN Requests = 1 .. L
  BY TheList DEF Values
<1> HIDE DEF L
<1>2. \A i \in 1 .. L : Requests[i].handle # 0
  BY <1>1 DEF Records, Handles
<1>3. M = {}
  BY <1>1, <1>2
<1>4. Found(0, {c}) = 0
  BY <1>1, <1>2, FoundFirst
<1>5. RemoveIf(Requests, {}) = Requests
  BY DEF RemoveIf
<1> QED
  BY <1>3, <1>4, <1>5 DEF Destroy

\* The sensor uses the service as any client may.
LEMMA SensorIsClient ==
    ASSUME SensorInv, LocNext
    PROVE  [CombainNext]_combainVars
<1>1. /\ combainHandle = 0 \/ combainHandle \in Handles
      /\ step = "fetch" => notice[1] \in Handles /\ notice[2] \in Outcomes
  <2>1. next \in 0 .. MaxReqs /\ combainHandle \in 0 .. next /\ MaxReqs \in Nat
    BY CombainAssumption DEF SensorInv, SensorTyped, Values
  <2>2. combainHandle = 0 \/ combainHandle \in Handles
    BY <2>1 DEF Handles
  <2> QED
    BY <2>2, LocAssumption DEF SensorInv, NoticeIsResult
<1>2. ClientCall(Loc) => CombainNext
  BY LocAssumption DEF CombainNext
<1>3. DestroyLocationRequest(Loc, combainHandle) => [CombainNext]_combainVars
  <2>1. ASSUME combainHandle \in Handles, DestroyLocationRequest(Loc, combainHandle)
        PROVE  ClientCall(Loc)
    BY <2>1 DEF ClientCall
  <2>2. ASSUME combainHandle = 0, DestroyLocationRequest(Loc, combainHandle)
        PROVE  UNCHANGED combainVars
    BY <2>2, DestroyNothing DEF SensorInv, DestroyLocationRequest, combainVars, mainVars, httpVars
  <2> QED
    BY <1>1, <1>2, <2>1, <2>2
<1>4. ASSUME step = "fetch", GetResponse(Loc, notice[1], notice[2]), notice[2] # "comm"
      PROVE  CombainNext
  <2>1. HasResponse(Loc, notice[1], notice[2]) => notice[2] \in {"success", "error", "parse"}
    BY <1>1, <1>4 DEF Outcomes
  <2> QED
    BY <1>1, <1>2, <1>4, <2>1 DEF ClientCall, GetResponse
<1>5. CASE SampleGood
  BY <1>3, <1>5, Zenon DEF SampleGood
<1>6. CASE SampleNoService \/ (\E pos \in {"weak", "poor", "none"} : SampleBusy(pos) \/ SampleScan(pos))
  <2>1. UNCHANGED combainVars
    BY <1>6, Zenon DEF SampleNoService, SampleBusy, SampleScan
  <2> QED
    BY <2>1
<1>7. CASE WifiScanDone
  BY <1>2, <1>7, Zenon DEF WifiScanDone, ClientCall
<1>8. CASE WifiOtherEvent
  BY <1>3, <1>8, Zenon DEF WifiOtherEvent
<1>9. CASE TrySubmitRequest
  <2>1. CASE SubmitLocationRequest(Loc, combainHandle)
    <3>1. combainHandle # 0
      <4> DEFINE i == Found(combainHandle, {Loc})
      <4>1. i # 0
        BY <2>1 DEF SubmitLocationRequest, Accepts
      <4>2. /\ Len(Requests) \in Nat /\ Requests \in [1 .. Len(Requests) -> Records]
            /\ DOMAIN Requests = 1 .. Len(Requests)
        BY TheList DEF SensorInv, Values
      <4>3. i \in 1 .. Len(Requests) /\ Requests[i].handle = combainHandle
        BY <4>1, <4>2, FoundFirst
      <4> QED
        BY <4>2, <4>3 DEF Records, Handles
    <3> QED
      BY <1>1, <1>2, <2>1, <3>1 DEF ClientCall
  <2>2. CASE UNCHANGED combainVars
    BY <2>2
  <2> QED
    BY <1>9, <2>1, <2>2, Zenon DEF TrySubmitRequest
<1>10. CASE DestroyUnsubmitted
  BY <1>3, <1>10, Zenon DEF DestroyUnsubmitted
<1>11. CASE ResultArrives
  BY <1>2, <1>11, Zenon DEF ResultArrives, ClientCall
<1>12. CASE FetchFailure
  <2>1. \/ UNCHANGED combainVars
        \/ step = "fetch" /\ GetResponse(Loc, notice[1], notice[2]) /\ notice[2] # "comm"
    BY <1>12, Zenon DEF FetchFailure
  <2> QED
    BY <1>4, <2>1
<1>13. ASSUME NEW inside \in BOOLEAN, FetchSuccess(inside) PROVE [CombainNext]_combainVars
  <2>1. \/ UNCHANGED combainVars
        \/ /\ step = "fetch" /\ notice[2] = "success" /\ GetResponse(Loc, notice[1], "success")
    BY <1>13, Zenon DEF FetchSuccess
  <2>2. "success" # "comm"
    OBVIOUS
  <2> QED
    BY <1>4, <2>1, <2>2
<1>14. ASSUME NEW c \in Clients \ {Loc}, ClientCall(c) PROVE CombainNext
  BY <1>14 DEF CombainNext
<1>15. (\E set \in BOOLEAN : SetApiKey(set)) \/ Service => CombainNext
  BY DEF CombainNext, Service
<1> QED
  BY <1>5, <1>6, <1>7, <1>8, <1>9, <1>10, <1>11, <1>12, <1>13, <1>14, <1>15, Zenon
     DEF LocNext, Sample, Handler

\* The number of requests only grows.
LEMMA StepsNumber ==
    ASSUME [CombainNext]_combainVars
    PROVE  next' = next \/ next' = next + 1
<1>1. ASSUME NEW c, ClientCall(c) PROVE next' = next \/ next' = next + 1
  BY <1>1, Zenon DEF ClientCall, CreateLocationRequest, SubmitLocationRequest, DestroyLocationRequest,
     GetResponse, ClientSeesResult, ClientSessionClosed, mainVars
<1>2. (\E set \in BOOLEAN : SetApiKey(set)) => next' = next
  BY DEF SetApiKey
<1>3. HandleResponseAvailable => next' = next
  BY DEF HandleResponseAvailable
<1>4. Http => next' = next
  BY DEF Http, HttpDequeue, HttpPerform, HttpReport, mainVars
<1>5. UNCHANGED combainVars => next' = next
  BY DEF combainVars, mainVars
<1> QED
  BY <1>1, <1>2, <1>3, <1>4, <1>5, Zenon DEF CombainNext

LEMMA SensorTypedKeeps ==
    ASSUME SensorInv, LocNext
    PROVE  SensorTyped' /\ NoticeIsResult'
<1>1. [CombainNext]_combainVars
  BY SensorIsClient
<1>2. next \in Nat /\ (next' = next \/ next' = next + 1)
  BY <1>1, StepsNumber, CombainAssumption DEF SensorInv, Values
<1>3. combainHandle' = combainHandle \/ combainHandle' = next'
  BY Zenon DEF LocNext, Sample, SampleGood, SampleNoService, SampleBusy, SampleScan, WifiScanDone,
     WifiOtherEvent, Handler, TrySubmitRequest, DestroyUnsubmitted, ResultArrives, FetchFailure,
     FetchSuccess, locVars
<1>4. combainHandle' \in 0 .. next'
  BY <1>2, <1>3 DEF SensorInv, SensorTyped
<1>5. gpsScan' \in {"null", "saved", "garbage"}
  <2>1. ASSUME NEW pos \in {"weak", "poor", "none"}, SaveScan(pos)
        PROVE  gpsScan' \in {"null", "saved", "garbage"}
    BY <2>1 DEF SaveScan, SensorInv, SensorTyped
  <2>2. \/ gpsScan' = gpsScan \/ gpsScan' = "null"
        \/ \E pos \in {"weak", "poor", "none"} : SaveScan(pos)
    BY Zenon DEF LocNext, Sample, SampleGood, SampleNoService, SampleBusy, SampleScan, WifiScanDone,
       WifiOtherEvent, Handler, TrySubmitRequest, DestroyUnsubmitted, ResultArrives, FetchFailure,
       FetchSuccess, locVars, reading, UseGpsScan
  <2> QED
    BY <2>1, <2>2 DEF SensorInv, SensorTyped
<1>6. /\ savedRef' \in {savedRef, TRUE, FALSE}
      /\ wifi' \in {wifi, "started", "created"}
      /\ running' \in {running, FALSE}
  BY Zenon DEF LocNext, Sample, SampleGood, SampleNoService, SampleBusy, SampleScan, WifiScanDone,
     WifiOtherEvent, Handler, TrySubmitRequest, DestroyUnsubmitted, ResultArrives, FetchFailure,
     FetchSuccess, locVars, reading, UseGpsScan
<1>7. /\ waitingForWifiResults' \in {waitingForWifiResults, TRUE, FALSE}
      /\ waitingForCombainResults' \in {waitingForCombainResults, TRUE, FALSE}
      /\ killed' \in {killed, FALSE, waitingForCombainResults}
  BY Zenon DEF LocNext, Sample, SampleGood, SampleNoService, SampleBusy, SampleScan, WifiScanDone,
     WifiOtherEvent, Handler, TrySubmitRequest, DestroyUnsubmitted, ResultArrives, FetchFailure,
     FetchSuccess, locVars, waiting
<1>8. \/ step' = step /\ notice' = notice
      \/ step' \in {"idle", "submit", "destroy"}
      \/ step' = "fetch" /\ notice' = Head(inbox[Loc]) /\ inbox[Loc] # << >>
  BY Zenon DEF LocNext, Sample, SampleGood, SampleNoService, SampleBusy, SampleScan, WifiScanDone,
     WifiOtherEvent, Handler, TrySubmitRequest, DestroyUnsubmitted, ResultArrives, FetchFailure,
     FetchSuccess, locVars, ClientSeesResult
<1>9. step' \in {"idle", "submit", "destroy", "fetch"}
  BY <1>8 DEF SensorInv, SensorTyped
<1>10. NoticeIsResult'
  <2>1. inbox[Loc] # << >> => Head(inbox[Loc]) \in Handles \X Outcomes
    BY LocAssumption, HeadAndTail DEF SensorInv, Values
  <2> QED
    BY <1>8, <2>1 DEF SensorInv, NoticeIsResult
<1>11. SensorTyped'
  <2>0. SensorTyped
    BY DEF SensorInv
  <2>1. savedRef' \in BOOLEAN /\ running' \in BOOLEAN
    BY <1>6, <2>0 DEF SensorTyped
  <2>2. waitingForWifiResults' \in BOOLEAN /\ waitingForCombainResults' \in BOOLEAN
        /\ killed' \in BOOLEAN
    BY <1>7, <2>0 DEF SensorTyped
  <2>3. wifi' \in {"down", "created", "started"}
    BY <1>6, <2>0 DEF SensorTyped
  <2> QED
    BY <1>4, <1>5, <1>9, <2>1, <2>2, <2>3, Zenon DEF SensorTyped
<1> QED
  BY <1>10, <1>11

LEMMA OneAtATimeKeeps ==
    ASSUME SensorInv, LocNext
    PROVE  OneAtATime'
<1>1. [CombainNext]_combainVars /\ Queues /\ OneAtATime
  BY SensorIsClient DEF SensorInv
<1>2. ASSUME NEW h, Contains(submitted, h) PROVE Contains(submitted', h)
  BY <1>1, <1>2, StepsSubmit, SubmittedStays
<1>3. ASSUME waitingForCombainResults' => waitingForCombainResults,
             waitingForWifiResults' => waitingForWifiResults,
             waitingForCombainResults => step' = step /\ combainHandle' = combainHandle
      PROVE  OneAtATime'
  BY <1>1, <1>2, <1>3 DEF OneAtATime
<1>4. CASE SampleGood
  BY <1>3, <1>4, Zenon DEF SampleGood
<1>5. ASSUME NEW pos, SampleNoService \/ SampleBusy(pos) PROVE OneAtATime'
  BY <1>3, <1>5, Zenon DEF SampleNoService, SampleBusy, waiting
<1>6. ASSUME NEW pos, SampleScan(pos) PROVE OneAtATime'
  <2>1. ~ waitingForCombainResults'
    BY <1>6, Zenon DEF SampleScan
  <2> QED
    BY <2>1 DEF OneAtATime
<1>7. CASE WifiScanDone
  <2>1. ~ waitingForCombainResults'
    <3>1. waitingForWifiResults /\ waitingForCombainResults' = waitingForCombainResults
      BY <1>7, Zenon DEF WifiScanDone
    <3> QED
      BY <1>1, <3>1 DEF OneAtATime
  <2> QED
    BY <2>1 DEF OneAtATime
<1>8. CASE WifiOtherEvent
  BY <1>3, <1>8, Zenon DEF WifiOtherEvent
<1>9. CASE TrySubmitRequest
  <2>1. CASE UNCHANGED waitingForCombainResults
    <3>1. step = "submit" /\ waitingForWifiResults' = waitingForWifiResults
      BY <1>9, Zenon DEF TrySubmitRequest
    <3>2. ~ waitingForCombainResults
      BY <1>1, <3>1 DEF OneAtATime
    <3> QED
      BY <2>1, <3>2 DEF OneAtATime
  <2>2. CASE ~ UNCHANGED waitingForCombainResults
    <3>1. /\ ~ waitingForWifiResults' /\ step' = "idle" /\ combainHandle' = combainHandle
          /\ submitted' = Append(submitted, combainHandle) /\ combainHandle \in Handles
      <4>1. /\ ~ waitingForWifiResults' /\ step' = "idle" /\ combainHandle' = combainHandle
            /\ SubmitLocationRequest(Loc, combainHandle)
        BY <1>9, <2>2, Zenon DEF TrySubmitRequest
      <4>2. submitted' = Append(submitted, combainHandle)
        BY <4>1 DEF SubmitLocationRequest
      <4> DEFINE i == Found(combainHandle, {Loc})
      <4>3. i # 0
        BY <4>1 DEF SubmitLocationRequest, Accepts
      <4>4. /\ Len(Requests) \in Nat /\ Requests \in [1 .. Len(Requests) -> Records]
            /\ DOMAIN Requests = 1 .. Len(Requests)
        BY TheList DEF SensorInv, Values
      <4>5. i \in 1 .. Len(Requests) /\ Requests[i].handle = combainHandle
        BY <4>3, <4>4, FoundFirst
      <4>6. combainHandle \in Handles
        BY <4>4, <4>5 DEF Records
      <4> QED
        BY <4>1, <4>2, <4>6
    <3>2. Contains(submitted', combainHandle')
      BY <1>1, <3>1, ContainsAppend DEF Queues
    <3> QED
      BY <3>1, <3>2 DEF OneAtATime
  <2> QED
    BY <2>1, <2>2
<1>10. CASE DestroyUnsubmitted
  <2>1. ~ waitingForCombainResults'
    <3>1. step = "destroy" /\ waitingForCombainResults' = waitingForCombainResults
      BY <1>10, Zenon DEF DestroyUnsubmitted, waiting
    <3> QED
      BY <1>1, <3>1 DEF OneAtATime
  <2> QED
    BY <2>1 DEF OneAtATime
<1>11. CASE ResultArrives
  <2>1. ~ waitingForCombainResults'
    BY <1>11, Zenon DEF ResultArrives
  <2> QED
    BY <2>1 DEF OneAtATime
<1>12. ASSUME NEW inside, FetchFailure \/ FetchSuccess(inside) PROVE OneAtATime'
  <2>1. ~ waitingForCombainResults'
    <3>1. step = "fetch" /\ waitingForCombainResults' = waitingForCombainResults
      BY <1>12, Zenon DEF FetchFailure, FetchSuccess, waiting
    <3> QED
      BY <1>1, <3>1 DEF OneAtATime
  <2> QED
    BY <2>1 DEF OneAtATime
<1>13. CASE UNCHANGED locVars
  BY <1>3, <1>13, Zenon DEF locVars, waiting
<1> QED
  BY <1>4, <1>5, <1>6, <1>7, <1>8, <1>9, <1>10, <1>11, <1>12, <1>13, Zenon
     DEF LocNext, Sample, Handler

LEMMA ExpectedKeeps ==
    ASSUME SensorInv, LocNext
    PROVE  ExpectedNext(waitingForCombainResults', combainHandle')
<1> DEFINE w == waitingForCombainResults
           h == combainHandle
<1>1. Values /\ Queues /\ Expected(w, h) /\ OneAtATime
  BY DEF SensorInv
<1>2. ASSUME UNCHANGED combainVars, waitingForCombainResults' = w, combainHandle' = h
      PROVE  ExpectedNext(waitingForCombainResults', combainHandle')
  <2>1. /\ Requests' = Requests /\ submitted' = submitted /\ answered' = answered
        /\ inbox' = inbox
    BY <1>2 DEF combainVars, mainVars
  <2> QED
    BY <1>1, <1>2, <2>1, SameIsOwned, MovingKeepsExpected
<1>3. ASSUME NEW g, DestroyLocationRequest(Loc, g) PROVE ExpectedNext(w, h)
  BY <1>1, <1>3, DestroyKeepsExpected DEF DestroyLocationRequest
<1>4. ASSUME NEW g, NEW kind, GetResponse(Loc, g, kind) PROVE ExpectedNext(w, h)
  <2>1. submitted' = submitted /\ answered' = answered /\ inbox' = inbox
    BY <1>4 DEF GetResponse
  <2>2. CASE kind = "parse"
    <3>1. Requests' = Requests
      BY <1>4, <2>2 DEF GetResponse
    <3> QED
      BY <1>1, <2>1, <3>1, SameIsOwned, MovingKeepsExpected
  <2>3. CASE kind # "parse"
    BY <1>1, <1>4, <2>1, <2>3, DestroyKeepsExpected DEF GetResponse
  <2> QED
    BY <2>2, <2>3
<1>5. ASSUME SampleGood \/ WifiOtherEvent \/ DestroyUnsubmitted
      PROVE  ExpectedNext(waitingForCombainResults', combainHandle')
  <2>1. /\ waitingForCombainResults' = w /\ combainHandle' = h
        /\ UNCHANGED combainVars \/ DestroyLocationRequest(Loc, combainHandle)
    BY <1>5, Zenon DEF SampleGood, WifiOtherEvent, DestroyUnsubmitted, waiting
  <2> QED
    BY <1>2, <1>3, <2>1
<1>6. ASSUME NEW pos, SampleNoService \/ SampleBusy(pos) \/ SampleScan(pos)
      PROVE  ExpectedNext(waitingForCombainResults', combainHandle')
  <2>1. UNCHANGED combainVars /\ waitingForCombainResults' = w /\ combainHandle' = h
    BY <1>6, Zenon DEF SampleNoService, SampleBusy, SampleScan, waiting
  <2> QED
    BY <1>2, <2>1
<1>7. CASE WifiScanDone
  <2>1. /\ waitingForWifiResults /\ waitingForCombainResults' = w
        /\ CreateLocationRequest(Loc)
    BY <1>7, Zenon DEF WifiScanDone
  <2>2. w = FALSE
    BY <1>1, <2>1 DEF OneAtATime, SensorInv, SensorTyped
  <2>3. ExpectedNext(w, h)
    BY <1>1, <2>1, LocAssumption, CreateKeepsExpected
  <2> QED
    BY <2>1, <2>2, <2>3, NothingExpected
<1>8. CASE TrySubmitRequest
  <2>1. /\ step = "submit" /\ combainHandle' = h
        /\ \/ UNCHANGED combainVars /\ waitingForCombainResults' = w
           \/ SubmitLocationRequest(Loc, h) /\ waitingForCombainResults' = TRUE
    BY <1>8, Zenon DEF TrySubmitRequest
  <2>2. CASE UNCHANGED combainVars /\ waitingForCombainResults' = w
    BY <1>2, <2>1, <2>2
  <2>3. CASE SubmitLocationRequest(Loc, h) /\ waitingForCombainResults' = TRUE
    <3> DEFINE L == Len(Requests)
               i == Found(h, {Loc})
    <3>1. L \in Nat /\ Requests \in [1 .. L -> Records] /\ DOMAIN Requests = 1 .. L
      BY <1>1, TheList DEF Values
    <3>2. /\ submitted \in Seq(Handles) /\ submitted' = Append(submitted, h)
          /\ answered' = answered /\ inbox' = inbox
          /\ Requests' = [Requests EXCEPT ![i].request = "null"] /\ i # 0
      BY <1>1, <2>3 DEF Queues, SubmitLocationRequest, Accepts
    <3> HIDE DEF L
    <3>3. i \in 1 .. L /\ Requests[i].handle = h /\ h \in Handles
      <4>1. i \in 1 .. L /\ Requests[i].handle = h
        BY <3>1, <3>2, FoundFirst
      <4> HIDE DEF i
      <4> QED
        BY <3>1, <4>1 DEF Records
    <3> HIDE DEF i
    <3>4. /\ DOMAIN Requests' = 1 .. L
          /\ \A j \in 1 .. L : /\ Requests'[j].handle = Requests[j].handle
                               /\ Requests'[j].client = Requests[j].client
      BY <3>1, <3>2, <3>3 DEF Records
    <3>5. ~ w
      BY <1>1, <2>1 DEF OneAtATime
    <3>6. inbox[Loc] = << >>
      <4>1. inbox[Loc] \in Seq(Handles \X Outcomes) /\ DOMAIN inbox[Loc] = {}
        BY <1>1, <3>5, LocAssumption DEF Expected, InboxExpected, Values
      <4>2. Len(inbox[Loc]) \in Nat /\ DOMAIN inbox[Loc] = 1 .. Len(inbox[Loc])
        BY <4>1, LenProperties
      <4>3. Len(inbox[Loc]) = 0
        <5>1. Len(inbox[Loc]) # 0 => 1 \in 1 .. Len(inbox[Loc])
          BY <4>2
        <5> QED
          BY <4>1, <4>2, <5>1
      <4> QED
        BY <4>1, <4>3, EmptySeq
    <3>7. \A x : Contains(submitted', x) <=> (Contains(submitted, x) \/ x = h)
      BY <3>2, <3>3, ContainsAppend
    <3>8. InboxExpected(inbox'[Loc], TRUE, h)
      BY <3>2, <3>6 DEF InboxExpected
    <3>9. ListExpected(Requests', submitted', answered', inbox'[Loc], TRUE, h)
      BY <1>1, <3>1, <3>2, <3>4, <3>5, <3>6, <3>7, Zenon DEF Expected, ListExpected
    <3> QED
      BY <2>1, <2>3, <3>8, <3>9 DEF ExpectedNext
  <2> QED
    BY <2>1, <2>2, <2>3
<1>9. CASE ResultArrives
  <2>1. /\ ClientSeesResult(Loc) /\ waitingForCombainResults' = FALSE /\ combainHandle' = h
    BY <1>9, Zenon DEF ResultArrives
  <2>2. /\ inbox[Loc] # << >> /\ inbox' = [inbox EXCEPT ![Loc] = Tail(@)]
        /\ Requests' = Requests /\ submitted' = submitted /\ answered' = answered
    BY <2>1 DEF ClientSeesResult
  <2>3. inbox[Loc] \in Seq(Handles \X Outcomes) /\ inbox'[Loc] = Tail(inbox[Loc])
    BY <1>1, <2>2, LocAssumption DEF Values
  <2>4. Len(inbox[Loc]) = 1
    <3>1. /\ Len(inbox[Loc]) \in Nat /\ DOMAIN inbox[Loc] = 1 .. Len(inbox[Loc])
          /\ Len(inbox[Loc]) # 0
      BY <2>2, <2>3, LenProperties, EmptySeq
    <3>2. Len(inbox[Loc]) \in DOMAIN inbox[Loc]
      BY <3>1
    <3> QED
      BY <1>1, <3>2 DEF Expected, InboxExpected
  <2>5. inbox'[Loc] = << >>
    <3>1. Tail(inbox[Loc]) \in Seq(Handles \X Outcomes) /\ Len(Tail(inbox[Loc])) = 0
      BY <2>2, <2>3, <2>4, HeadTailProperties
    <3> QED
      BY <2>3, <3>1, EmptySeq
  <2>6. InboxExpected(inbox'[Loc], FALSE, h)
    BY <2>5 DEF InboxExpected
  <2>7. ListExpected(Requests', submitted', answered', inbox'[Loc], FALSE, h)
    BY <1>1, <2>2, Zenon DEF Expected, ListExpected
  <2> QED
    BY <2>1, <2>6, <2>7 DEF ExpectedNext
<1>10. ASSUME NEW inside, FetchFailure \/ FetchSuccess(inside)
       PROVE  ExpectedNext(waitingForCombainResults', combainHandle')
  <2>1. /\ waitingForCombainResults' = w /\ combainHandle' = h
        /\ UNCHANGED combainVars \/ \E kind : GetResponse(Loc, notice[1], kind)
    BY <1>10, Zenon DEF FetchFailure, FetchSuccess, waiting
  <2> QED
    BY <1>2, <1>4, <2>1
<1>11. ASSUME \/ \E c \in Clients \ {Loc} : ClientCall(c)
              \/ \E set \in BOOLEAN : SetApiKey(set)
              \/ Service,
              UNCHANGED locVars
       PROVE  ExpectedNext(waitingForCombainResults', combainHandle')
  <2>1. waitingForCombainResults' = w /\ combainHandle' = h
    BY <1>11 DEF locVars, waiting
  <2>2. ExpectedNext(w, h)
    BY <1>1, <1>11, ServiceKeepsExpected
  <2> QED
    BY <2>1, <2>2
<1> QED
  BY <1>5, <1>6, <1>7, <1>8, <1>9, <1>10, <1>11, Zenon DEF LocNext, Sample, Handler

LEMMA SensorInitial == LocInit => LocIInv
<1> SUFFICES ASSUME LocInit PROVE LocIInv
  OBVIOUS
<1>1. CombainInit /\ CombainIInv
  BY InitCombain, Zenon DEF LocInit
<1>2. /\ waitingForWifiResults = FALSE /\ waitingForCombainResults = FALSE /\ combainHandle = 0
      /\ gpsScan = "null" /\ savedRef = FALSE /\ wifi = "down" /\ step = "idle"
      /\ running = TRUE /\ killed = FALSE
  BY Zenon DEF LocInit
<1>3. fixType = "" /\ sent = ""
  BY Zenon DEF LocInit
<1>4. PushesTypeOK /\ FixTypeIsHonest
  BY <1>3, Zenon DEF PushesTypeOK, FixTypeIsHonest
<1>5. Values /\ Queues
  BY <1>1, InvValues
<1>6. SensorTyped /\ OneAtATime /\ NoticeIsResult
  <2>1. next \in Nat
    BY <1>5, CombainAssumption DEF Values
  <2>4. 0 \in 0 .. next /\ TRUE \in BOOLEAN /\ FALSE \in BOOLEAN
    BY <2>1
  <2>2. SensorTyped
    BY <1>2, <2>4, Zenon DEF SensorTyped
  <2>3. OneAtATime /\ NoticeIsResult
    BY <1>2 DEF OneAtATime, NoticeIsResult
  <2> QED
    BY <2>2, <2>3
<1>7. Expected(waitingForCombainResults, combainHandle)
  BY <1>1, LocAssumption DEF CombainInit, Expected, InboxExpected, ListExpected
<1> QED
  BY <1>4, <1>5, <1>6, <1>7, LocInvariantParts DEF SensorInv

LEMMA SensorNextKeeps == LocIInv /\ [LocNext]_allVars => LocIInv'
<1> SUFFICES ASSUME LocIInv, [LocNext]_allVars PROVE LocIInv'
  OBVIOUS
<1>1. SensorInv
  BY LocInvariantParts
<1>2. CASE LocNext
  <2>1. CombainIInv'
    BY <1>1, <1>2, SensorIsClient, NextCombain DEF LocIInv
  <2>2. PushesTypeOK' /\ FixTypeIsHonest'
    <3>1. PushStep /\ sent' # "null"
      BY <1>1, <1>2, StepsPush, Zenon DEF SensorInv
    <3> QED
      BY <1>1, <3>1, PushStepKeeps, Zenon DEF SensorInv, SensorTyped
  <2>3. SensorTyped' /\ NoticeIsResult' /\ OneAtATime'
    BY <1>1, <1>2, SensorTypedKeeps, OneAtATimeKeeps
  <2>4. AnswerIsExpected' /\ PendingIsExpected'
    BY <1>1, <1>2, ExpectedKeeps, ExpectedParts
  <2> QED
    BY <2>1, <2>2, <2>3, <2>4, Zenon
       DEF LocIInv, SensorSound, LocTypeOK, SensorTyped, CombainIInv, AnswersSound
<1>3. CASE UNCHANGED allVars
  <2>1. UNCHANGED combainVars /\ UNCHANGED locVars
    BY <1>3 DEF allVars
  <2>2. CombainIInv'
    BY <2>1, NextCombain DEF LocIInv
  <2>3. LocTypeOK'
    <3>1. CombainTypeOK' /\ next' = next
      BY <2>1, <2>2 DEF CombainIInv, AnswersSound, combainVars, mainVars
    <3>2. PushesTypeOK'
      BY <2>1, Zenon DEF LocIInv, SensorSound, LocTypeOK, PushesTypeOK, locVars, reading
    <3> QED
      BY <2>1, <3>1, <3>2 DEF LocIInv, SensorSound, LocTypeOK, locVars, waiting, reading
  <2>4. FixTypeIsHonest'
    BY <2>1, Zenon DEF LocIInv, SensorSound, FixTypeIsHonest, locVars, reading
  <2>5. NoticeIsResult'
    BY <2>1, Zenon DEF LocIInv, NoticeIsResult, locVars
  <2>6. OneAtATime'
    BY <2>1, Zenon DEF LocIInv, SensorSound, OneAtATime, locVars, waiting, combainVars
  <2>7. AnswerIsExpected'
    BY <2>1, Zenon DEF LocIInv, SensorSound, AnswerIsExpected, locVars, waiting, combainVars, mainVars
  <2>8. PendingIsExpected'
    BY <2>1, Zenon DEF LocIInv, PendingIsExpected, locVars, waiting, combainVars, mainVars
  <2> QED
    BY <2>2, <2>3, <2>4, <2>5, <2>6, <2>7, <2>8 DEF LocIInv, SensorSound
<1> QED
  BY <1>2, <1>3

\* LocIInv is an invariant, for any other clients and any number of requests.
THEOREM SensorInvariant == LocSpec => []LocIInv
<1>1. LocInit => LocIInv
  BY SensorInitial
<1>2. LocIInv /\ [LocNext]_allVars => LocIInv'
  BY SensorNextKeeps
<1> QED
  BY <1>1, <1>2, PTL DEF LocSpec

\* location.c as a client of the Combain service: an answer that is on its way to it is the
\* one it waits for, it never has two requests under way, and the fix type that is shown
\* names the position that was sent, whatever the service's other clients do.
THEOREM SensorIsAlwaysSound == LocSpec => []SensorSound
<1>1. LocIInv => SensorSound
  BY DEF LocIInv
<1> QED
  BY <1>1, SensorInvariant, PTL

\* The same of the behaviours of MCQueue, where the write direction of the SPI queue, the
\* Combain service or the sensor takes the steps: in those of the sensor it is sound.
THEOREM SensorIsSoundInItsTurn == QueueSpec => []SensorIsSound
<1> DEFINE InTurn == focus = "sensor" => LocIInv
<1>1. QueueInit => InTurn
  BY SensorInitial DEF QueueInit
<1>2. InTurn /\ [QueueNext]_<<focus, vars, allVars>> => InTurn'
  <2> SUFFICES ASSUME InTurn, [QueueNext]_<<focus, vars, allVars>>, focus' = "sensor"
               PROVE  LocIInv'
    OBVIOUS
  <2>1. focus' = focus
    BY DEF QueueNext
  <2>2. [LocNext]_allVars
    BY <2>1 DEF QueueNext
  <2> QED
    BY <2>1, <2>2, SensorNextKeeps
<1>3. InTurn => SensorIsSound
  BY DEF SensorIsSound, LocIInv
<1> QED
  BY <1>1, <1>2, <1>3, PTL DEF QueueSpec

\* The location sensor uses the service as any client may: what is proved of the service
\* holds with the sensor as one of its clients.
THEOREM SensorIsAClient == LocSpec => CombainSpec
<1>1. LocInit => CombainInit
  BY Zenon DEF LocInit
<1>2. LocIInv /\ [LocNext]_allVars => [CombainNext]_combainVars
  <2>1. LocIInv /\ LocNext => [CombainNext]_combainVars
    BY LocInvariantParts, SensorIsClient
  <2>2. UNCHANGED allVars => UNCHANGED combainVars
    BY DEF allVars
  <2> QED
    BY <2>1, <2>2
<1> QED
  BY <1>1, <1>2, SensorInvariant, PTL DEF LocSpec, CombainSpec

-----------------------------------------------------------------------------
(* The SensorTag *)

HubSensor == [enable : BOOLEAN, axes : BOOLEAN, period : Nat]
ChipSensor == [config : [on : BOOLEAN, axes : BOOLEAN], period : Nat]

\* What the tag is told of sensor s agrees with what the Data Hub asks of it.
Agrees(s, h, c) ==
    /\ c.config.on = (h.enable /\ ValidatePeriod(h.period))
    /\ ValidatePeriod(h.period) => c.period = h.period
    /\ s = "imu" => (c.config.on => c.config.axes = h.axes)

\* The tag's settings as a whole.
ChipTyped(c) == /\ c = [s \in Sensors \cup {"io"} |-> c[s]]
                /\ \A s \in Sensors : c[s] \in ChipSensor
AllAgree(h, c) == c["io"] = h["io"] /\ \A s \in Sensors \ {"light"} : Agrees(s, h[s], c[s])

\* TagIInv, in these terms.
TagParts ==
    /\ hub = [s \in Sensors \cup {"io"} |-> hub[s]]
    /\ \A s \in Sensors : hub[s] \in HubSensor
    /\ ChipTyped(tagChip)
    /\ app = "sampling" => AllAgree(hub, tagChip)

LEMMA TagInvariantParts == TagIInv <=> TagParts
<1>1. TagTypeOK <=> /\ hub = [s \in Sensors \cup {"io"} |-> hub[s]]
                    /\ \A s \in Sensors : hub[s] \in HubSensor
                    /\ ChipTyped(tagChip)
  BY Zenon DEF TagTypeOK, HubSensor, ChipSensor, ChipTyped
<1>2. "imu" \in Sensors \ {"light"}
  BY DEF Sensors
<1>3. TagObeysHub /\ PeriodIsTold <=> (app = "sampling" => AllAgree(hub, tagChip))
  <2>1. ASSUME TagObeysHub, PeriodIsTold, app = "sampling" PROVE AllAgree(hub, tagChip)
    BY <2>1, Zenon DEF TagObeysHub, PeriodIsTold, AllAgree, Agrees
  <2>2. ASSUME app = "sampling" => AllAgree(hub, tagChip) PROVE TagObeysHub
    <3>1. ASSUME app = "sampling", NEW s \in Sensors \ {"light"}
          PROVE  /\ tagChip[s].config.on = (hub[s].enable /\ ValidatePeriod(hub[s].period))
                 /\ tagChip[s].config.on => tagChip[s].period = hub[s].period
      <4>1. Agrees(s, hub[s], tagChip[s])
        BY <2>2, <3>1 DEF AllAgree
      <4> QED
        BY <4>1 DEF Agrees
    <3>2. app = "sampling" => Agrees("imu", hub["imu"], tagChip["imu"])
      BY <1>2, <2>2 DEF AllAgree
    <3> QED
      BY <2>2, <3>1, <3>2, Zenon DEF TagObeysHub, AllAgree, Agrees
  <2>3. ASSUME app = "sampling" => AllAgree(hub, tagChip) PROVE PeriodIsTold
    BY <2>3, Zenon DEF PeriodIsTold, AllAgree, Agrees
  <2> QED
    BY <2>1, <2>2, <2>3
<1> QED
  BY <1>1, <1>3, Zenon DEF TagIInv, TagParts

LEMMA TagInitial == TagInit => TagIInv
<1> SUFFICES ASSUME TagInit PROVE TagIInv
  OBVIOUS
<1>1. app = "init"
  BY DEF TagInit
<1>2. hub = [s \in Sensors \cup {"io"} |->
                IF s = "io" THEN 0 ELSE [enable |-> FALSE, axes |-> FALSE, period |-> 0]]
  BY DEF TagInit
<1>3. PICK on \in BOOLEAN : tagChip = [s \in Sensors \cup {"io"} |->
                   IF s = "io" THEN 1 ELSE [config |-> [on |-> on, axes |-> on], period |-> 0]]
  BY DEF TagInit
<1>4. [enable |-> FALSE, axes |-> FALSE, period |-> 0] \in HubSensor
  BY DEF HubSensor
<1>5. [config |-> [on |-> on, axes |-> on], period |-> 0] \in ChipSensor
  BY DEF ChipSensor
<1>6. \A s \in Sensors : s # "io"
  BY DEF Sensors, Basic
<1>7. hub = [s \in Sensors \cup {"io"} |-> hub[s]] /\ \A s \in Sensors : hub[s] \in HubSensor
  BY <1>2, <1>4, <1>6, Zenon
<1>8. ChipTyped(tagChip)
  BY <1>3, <1>5, <1>6, Zenon DEF ChipTyped
<1> QED
  BY <1>1, <1>7, <1>8, TagInvariantParts DEF TagParts

\* A step that concerns one sensor: what is asked of it and what the tag is told of it.
SensorStep(s, h, c) ==
    /\ h \in HubSensor /\ c \in ChipSensor
    /\ hub' = [hub EXCEPT ![s] = h]
    /\ tagChip' = [tagChip EXCEPT ![s] = c]
    /\ app' = "sampling" => app = "sampling" /\ (s = "light" \/ Agrees(s, h, c))

LEMMA SensorStepKeeps ==
    ASSUME TagIInv, NEW s \in Sensors, NEW h, NEW c, SensorStep(s, h, c)
    PROVE  TagIInv'
<1>1. /\ hub = [t \in Sensors \cup {"io"} |-> hub[t]]
      /\ \A t \in Sensors : hub[t] \in HubSensor
      /\ tagChip = [t \in Sensors \cup {"io"} |-> tagChip[t]]
      /\ \A t \in Sensors : tagChip[t] \in ChipSensor
      /\ app = "sampling" => AllAgree(hub, tagChip)
  BY TagInvariantParts, Zenon DEF TagParts, ChipTyped
<1>2. s # "io" /\ "io" \notin Sensors
  BY DEF Sensors, Basic
<1>3. /\ hub' = [t \in Sensors \cup {"io"} |-> hub'[t]]
      /\ hub'[s] = h /\ \A t \in Sensors \cup {"io"} : t # s => hub'[t] = hub[t]
      /\ tagChip' = [t \in Sensors \cup {"io"} |-> tagChip'[t]]
      /\ tagChip'[s] = c /\ \A t \in Sensors \cup {"io"} : t # s => tagChip'[t] = tagChip[t]
  BY <1>1 DEF SensorStep
<1>4. \A t \in Sensors : hub'[t] \in HubSensor /\ tagChip'[t] \in ChipSensor
  BY <1>1, <1>3, Zenon DEF SensorStep
<1>5. app' = "sampling" => AllAgree(hub', tagChip')
  <2> SUFFICES ASSUME app' = "sampling" PROVE AllAgree(hub', tagChip')
    OBVIOUS
  <2>1. AllAgree(hub, tagChip) /\ (s = "light" \/ Agrees(s, h, c))
    BY <1>1 DEF SensorStep
  <2>2. tagChip'["io"] = hub'["io"]
    BY <1>2, <1>3, <2>1, Zenon DEF AllAgree
  <2>3. ASSUME NEW t \in Sensors \ {"light"} PROVE Agrees(t, hub'[t], tagChip'[t])
    <3>1. CASE t = s
      BY <1>3, <2>1, <3>1, Zenon
    <3>2. CASE t # s
      BY <1>3, <2>1, <3>2, Zenon DEF AllAgree
    <3> QED
      BY <3>1, <3>2
  <2> QED
    BY <2>2, <2>3, Zenon DEF AllAgree
<1>6. ChipTyped(tagChip')
  BY <1>3, <1>4, Zenon DEF ChipTyped
<1>7. \A t \in Sensors : hub'[t] \in HubSensor
  BY <1>4
<1>8. TagParts'
  BY <1>3, <1>5, <1>6, <1>7, Zenon DEF TagParts
<1>9. TagIInv' <=> TagParts'
  BY TagInvariantParts, PTL
<1> QED
  BY <1>8, <1>9

\* The Data Hub asks nothing new of the sensors and the tag is told nothing, or the process
\* ends.
LEMMA NothingToldKeeps ==
    ASSUME TagIInv, hub' = hub, tagChip' = tagChip, app' = "sampling" => app = "sampling"
    PROVE  TagIInv'
  BY DEF TagIInv, TagTypeOK, TagObeysHub, PeriodIsTold, ValidatePeriod

\* Configured: one sensor is set as the Data Hub asks, the others are left as they are.
LEMMA ConfiguredAgrees ==
    ASSUME TagIInv, NEW c, ChipTyped(c), NEW s \in Sensors
    PROVE  /\ ChipTyped(Configured(c, s))
           /\ Agrees(s, hub[s], Configured(c, s)[s])
           /\ \A t \in Sensors \cup {"io"} : t # s => Configured(c, s)[t] = c[t]
<1>1. hub[s] \in HubSensor /\ hub["imu"] \in HubSensor /\ "imu" \in Sensors /\ s # "io"
  BY TagInvariantParts DEF TagParts, Sensors, Basic
<1>2. /\ hub[s].enable \in BOOLEAN /\ hub[s].axes \in BOOLEAN /\ hub[s].period \in Nat
      /\ hub["imu"].enable \in BOOLEAN /\ hub["imu"].axes \in BOOLEAN
  BY <1>1 DEF HubSensor
<1>3. c = [t \in Sensors \cup {"io"} |-> c[t]] /\ \A t \in Sensors : c[t] \in ChipSensor
  BY DEF ChipTyped
<1>4. ASSUME NEW f \in BOOLEAN PROVE ImuConfig(hub, f) \in [on : BOOLEAN, axes : BOOLEAN]
  BY <1>2 DEF ImuConfig
<1>5. ASSUME NEW on \in BOOLEAN PROVE BasicConfig(on) \in [on : BOOLEAN, axes : BOOLEAN]
  BY DEF BasicConfig
<1>6. CASE ValidatePeriod(hub[s].period)
  <2> DEFINE reg == IF s = "imu" THEN ImuConfig(hub, FALSE) ELSE BasicConfig(hub[s].enable)
             r == [config |-> reg, period |-> hub[s].period]
  <2>1. reg \in [on : BOOLEAN, axes : BOOLEAN]
    BY <1>2, <1>4, <1>5
  <2>2. /\ reg.on = hub[s].enable
        /\ s = "imu" => (reg.on => reg.axes = hub[s].axes)
    BY <1>2 DEF ImuConfig, BasicConfig
  <2>3. Configured(c, s) = WriteConfig(WritePeriod(c, s, hub[s].period), s, reg)
    BY <1>6 DEF Configured
  <2> HIDE DEF reg
  <2>4. r \in ChipSensor
    BY <1>2, <2>1 DEF ChipSensor
  <2>5. /\ WritePeriod(c, s, hub[s].period) = [c EXCEPT ![s] = [c[s] EXCEPT !.period = hub[s].period]]
        /\ c[s] = [config |-> c[s].config, period |-> c[s].period]
    BY <1>3 DEF WritePeriod, ChipSensor
  <2>6. Configured(c, s) = [c EXCEPT ![s] = r]
    BY <1>3, <2>3, <2>5 DEF WriteConfig
  <2>7. Agrees(s, hub[s], r)
    BY <1>2, <1>6, <2>2 DEF Agrees
  <2> HIDE DEF r
  <2>8. /\ Configured(c, s)[s] = r
        /\ \A t \in Sensors \cup {"io"} : t # s => Configured(c, s)[t] = c[t]
        /\ Configured(c, s) = [t \in Sensors \cup {"io"} |-> Configured(c, s)[t]]
    BY <1>3, <2>6
  <2> QED
    BY <1>3, <2>4, <2>7, <2>8 DEF ChipTyped
<1>7. CASE ~ ValidatePeriod(hub[s].period)
  <2> DEFINE reg == IF s = "imu" THEN ImuConfig(hub, TRUE) ELSE BasicConfig(FALSE)
             r == [config |-> reg, period |-> c[s].period]
  <2>1. reg \in [on : BOOLEAN, axes : BOOLEAN]
    BY <1>4, <1>5
  <2>2. reg.on = FALSE
    BY DEF ImuConfig, BasicConfig
  <2>3. Configured(c, s) = WriteConfig(c, s, reg)
    BY <1>7 DEF Configured
  <2> HIDE DEF reg
  <2>4. r \in ChipSensor /\ c[s] = [config |-> c[s].config, period |-> c[s].period]
    BY <1>3, <2>1 DEF ChipSensor
  <2>6. Configured(c, s) = [c EXCEPT ![s] = r]
    BY <1>3, <2>3, <2>4 DEF WriteConfig
  <2>7. Agrees(s, hub[s], r)
    BY <1>2, <1>7, <2>2 DEF Agrees
  <2> HIDE DEF r
  <2>8. /\ Configured(c, s)[s] = r
        /\ \A t \in Sensors \cup {"io"} : t # s => Configured(c, s)[t] = c[t]
        /\ Configured(c, s) = [t \in Sensors \cup {"io"} |-> Configured(c, s)[t]]
    BY <1>3, <2>6
  <2> QED
    BY <1>3, <2>4, <2>7, <2>8 DEF ChipTyped
<1> QED
  BY <1>6, <1>7

\* AllAttributesFoundHandler sets every sensor but the light sensor.
LEMMA AllAttributesFoundAgrees ==
    ASSUME TagIInv
    PROVE  ChipTyped(AllAttributesFound) /\ AllAgree(hub, AllAttributesFound)
<1> DEFINE c1 == Configured(tagChip, "irTemp")
           c2 == Configured(c1, "humidity")
           c3 == Configured(c2, "pressure")
           c4 == Configured(c3, "imu")
<1>1. ChipTyped(tagChip)
  BY TagInvariantParts DEF TagParts
<1>2. /\ "irTemp" \in Sensors /\ "humidity" \in Sensors /\ "pressure" \in Sensors /\ "imu" \in Sensors
      /\ Sensors \ {"light"} = {"irTemp", "humidity", "pressure", "imu"} /\ "io" \notin Sensors
  BY DEF Sensors, Basic
<1>3. /\ ChipTyped(c1) /\ Agrees("irTemp", hub["irTemp"], c1["irTemp"])
  BY <1>1, <1>2, ConfiguredAgrees, Zenon
<1> HIDE DEF c1
<1>4. /\ ChipTyped(c2) /\ Agrees("humidity", hub["humidity"], c2["humidity"])
      /\ \A t \in Sensors \cup {"io"} : t # "humidity" => c2[t] = c1[t]
  BY <1>2, <1>3, ConfiguredAgrees, Zenon
<1> HIDE DEF c2
<1>5. /\ ChipTyped(c3) /\ Agrees("pressure", hub["pressure"], c3["pressure"])
      /\ \A t \in Sensors \cup {"io"} : t # "pressure" => c3[t] = c2[t]
  BY <1>2, <1>4, ConfiguredAgrees, Zenon
<1> HIDE DEF c3
<1>6. /\ ChipTyped(c4) /\ Agrees("imu", hub["imu"], c4["imu"])
      /\ \A t \in Sensors \cup {"io"} : t # "imu" => c4[t] = c3[t]
  BY <1>2, <1>5, ConfiguredAgrees, Zenon
<1>7. AllAttributesFound = [c4 EXCEPT !["io"] = hub["io"]]
  BY DEF AllAttributesFound, c1, c2, c3
<1> HIDE DEF c4
<1>8. c4["irTemp"] = c1["irTemp"] /\ c4["humidity"] = c2["humidity"] /\ c4["pressure"] = c3["pressure"]
  BY <1>2, <1>4, <1>5, <1>6
<1>9. \A t \in Sensors \ {"light"} : Agrees(t, hub[t], c4[t])
  BY <1>2, <1>3, <1>4, <1>5, <1>6, <1>8
<1>10. /\ AllAttributesFound = [t \in Sensors \cup {"io"} |-> AllAttributesFound[t]]
       /\ AllAttributesFound["io"] = hub["io"]
       /\ \A t \in Sensors : AllAttributesFound[t] = c4[t]
  BY <1>2, <1>6, <1>7 DEF ChipTyped
<1> QED
  BY <1>6, <1>9, <1>10, Zenon DEF ChipTyped, AllAgree

LEMMA AttributeStoredKeeps ==
    ASSUME TagIInv, hub' = hub, NEW n, AttributeStored(n)
    PROVE  TagIInv'
<1>1. CASE app' = "sampling" /\ tagChip' = AllAttributesFound
  <2>1. ChipTyped(tagChip') /\ AllAgree(hub', tagChip')
    BY <1>1, AllAttributesFoundAgrees
  <2>2. TagParts'
    BY <2>1, TagInvariantParts DEF TagParts
  <2>3. TagIInv' <=> TagParts'
    BY TagInvariantParts, PTL
  <2> QED
    BY <2>2, <2>3
<1>2. CASE app' # "sampling" /\ tagChip' = tagChip
  BY <1>2, NothingToldKeeps
<1> QED
  BY <1>1, <1>2 DEF AttributeStored

\* The search for the adapter, the tag and its attributes.
LEMMA SearchKeeps ==
    ASSUME TagIInv,
           \/ GlibInit \/ AdapterAdded \/ TagAdded \/ NamelessTagAdded \/ TagNamed
           \/ AttributeAdded \/ AdapterPowered
    PROVE  TagIInv'
<1>1. hub' = hub
  BY DEF GlibInit, AdapterAdded, TagAdded, NamelessTagAdded, TagNamed, AttributeAdded,
     AdapterPowered
<1>2. SensorTagFound => TagIInv'
  BY <1>1, AttributeStoredKeeps, NothingToldKeeps DEF SensorTagFound
<1>3. BeginSensorTagSearch => TagIInv'
  BY <1>1, <1>2, NothingToldKeeps DEF BeginSensorTagSearch
<1>4. AdapterFound => TagIInv'
  BY <1>1, <1>3, NothingToldKeeps DEF AdapterFound
<1>5. GlibInit => TagIInv'
  BY <1>1, <1>4, NothingToldKeeps DEF GlibInit
<1>6. AdapterAdded \/ NamelessTagAdded \/ TagNamed => TagIInv'
  BY <1>1, NothingToldKeeps DEF AdapterAdded, NamelessTagAdded, TagNamed
<1>7. TagAdded => TagIInv'
  BY <1>1, <1>2, NothingToldKeeps DEF TagAdded
<1>8. AttributeAdded => TagIInv'
  BY <1>1, AttributeStoredKeeps, NothingToldKeeps DEF AttributeAdded
<1>9. AdapterPowered => TagIInv'
  BY <1>3 DEF AdapterPowered
<1> QED
  BY <1>5, <1>6, <1>7, <1>8, <1>9

\* What is known of one sensor.
LEMMA SensorParts ==
    ASSUME TagIInv, NEW s \in Sensors
    PROVE  /\ hub[s] = [enable |-> hub[s].enable, axes |-> hub[s].axes, period |-> hub[s].period]
           /\ hub[s].enable \in BOOLEAN /\ hub[s].axes \in BOOLEAN /\ hub[s].period \in Nat
           /\ tagChip[s] = [config |-> tagChip[s].config, period |-> tagChip[s].period]
           /\ tagChip[s].config \in [on : BOOLEAN, axes : BOOLEAN] /\ tagChip[s].period \in Nat
           /\ tagChip[s] \in ChipSensor
           /\ app = "sampling" => s = "light" \/ Agrees(s, hub[s], tagChip[s])
           /\ tagChip = [tagChip EXCEPT ![s] = tagChip[s]] /\ hub = [hub EXCEPT ![s] = hub[s]]
<1>1. TagParts
  BY TagInvariantParts
<1>2. hub[s] \in HubSensor /\ tagChip[s] \in ChipSensor
  BY <1>1 DEF TagParts, ChipTyped
<1>3. app = "sampling" => s = "light" \/ Agrees(s, hub[s], tagChip[s])
  BY <1>1, Zenon DEF TagParts, AllAgree
<1>4. tagChip = [tagChip EXCEPT ![s] = tagChip[s]] /\ hub = [hub EXCEPT ![s] = hub[s]]
  BY <1>1 DEF TagParts, ChipTyped
<1> QED
  BY <1>2, <1>3, <1>4 DEF HubSensor, ChipSensor

\* A write to a sensor, or its failure.
LEMMA SensorWrite ==
    ASSUME TagIInv, NEW s \in Sensors, NEW h \in HubSensor, NEW c \in ChipSensor,
           hub' = [hub EXCEPT ![s] = h], app = "sampling",
           Written([tagChip EXCEPT ![s] = c]),
           s = "light" \/ Agrees(s, h, c)
    PROVE  TagIInv'
<1>1. CASE tagChip' = [tagChip EXCEPT ![s] = c] /\ app' = app
  <2>1. SensorStep(s, h, c)
    BY <1>1 DEF SensorStep
  <2> QED
    BY <2>1, SensorStepKeeps
<1>2. CASE tagChip' = tagChip /\ app' = "dead"
  <2>1. SensorStep(s, h, tagChip[s])
    <3>1. tagChip[s] \in ChipSensor
      BY SensorParts, Zenon
    <3>2. tagChip = [tagChip EXCEPT ![s] = tagChip[s]]
      BY SensorParts, Zenon
    <3> QED
      BY <1>2, <3>1, <3>2 DEF SensorStep
  <2> QED
    BY <2>1, SensorStepKeeps
<1> QED
  BY <1>1, <1>2 DEF Written

\* A push that writes nothing.
LEMMA SensorNotWritten ==
    ASSUME TagIInv, NEW s \in Sensors, NEW h \in HubSensor,
           hub' = [hub EXCEPT ![s] = h], app' = app, tagChip' = tagChip,
           app = "sampling" => s = "light" \/ Agrees(s, h, tagChip[s])
    PROVE  TagIInv'
<1>1. tagChip[s] \in ChipSensor
  BY SensorParts, Zenon
<1>2. tagChip = [tagChip EXCEPT ![s] = tagChip[s]]
  BY SensorParts, Zenon
<1>3. SensorStep(s, h, tagChip[s])
  BY <1>1, <1>2 DEF SensorStep
<1> QED
  BY <1>3, SensorStepKeeps

LEMMA EnablePushKeeps ==
    ASSUME TagIInv, NEW s \in Basic, NEW on \in BOOLEAN, EnablePush(s, on)
    PROVE  TagIInv'
<1> DEFINE h == [enable |-> on, axes |-> hub[s].axes, period |-> hub[s].period]
           c == [config |-> BasicConfig(on), period |-> tagChip[s].period]
<1>1. s \in Sensors /\ s # "imu"
  BY DEF Sensors, Basic
<1>2. /\ hub[s] = [enable |-> hub[s].enable, axes |-> hub[s].axes, period |-> hub[s].period]
      /\ hub[s].axes \in BOOLEAN /\ hub[s].period \in Nat
      /\ tagChip[s] = [config |-> tagChip[s].config, period |-> tagChip[s].period]
      /\ tagChip[s].period \in Nat
      /\ app = "sampling" => s = "light" \/ Agrees(s, hub[s], tagChip[s])
  BY <1>1, SensorParts
<1>3. hub' = [hub EXCEPT ![s] = [hub[s] EXCEPT !.enable = on]]
  BY DEF EnablePush
<1>4. hub' = [hub EXCEPT ![s] = h]
  <2>1. [hub[s] EXCEPT !.enable = on] = h
    BY <1>2
  <2> HIDE DEF h
  <2> QED
    BY <1>3, <2>1
<1>5. h \in HubSensor /\ c \in ChipSensor
  BY <1>2 DEF HubSensor, ChipSensor, BasicConfig
<1>6. CASE app = "sampling" /\ ValidatePeriod(hub[s].period)
  <2>1. WriteConfig(tagChip, s, BasicConfig(on)) = [tagChip EXCEPT ![s] = c]
    <3>1. WriteConfig(tagChip, s, BasicConfig(on))
            = [tagChip EXCEPT ![s] = [tagChip[s] EXCEPT !.config = BasicConfig(on)]]
      BY DEF WriteConfig
    <3> QED
      BY <1>2, <3>1
  <2>2. Written([tagChip EXCEPT ![s] = c])
    BY <1>6, <2>1 DEF EnablePush
  <2>3. s = "light" \/ Agrees(s, h, c)
    BY <1>1, <1>2, <1>6 DEF Agrees, BasicConfig
  <2> HIDE DEF h, c
  <2> QED
    BY <1>1, <1>4, <1>5, <1>6, <2>2, <2>3, SensorWrite
<1>7. CASE ~ (app = "sampling" /\ ValidatePeriod(hub[s].period))
  <2>1. app' = app /\ tagChip' = tagChip
    BY <1>7 DEF EnablePush
  <2>2. app = "sampling" => s = "light" \/ Agrees(s, h, tagChip[s])
    BY <1>1, <1>2, <1>7 DEF Agrees
  <2> HIDE DEF h
  <2> QED
    BY <1>1, <1>4, <1>5, <2>1, <2>2, SensorNotWritten
<1> QED
  BY <1>6, <1>7

LEMMA PeriodPushKeeps ==
    ASSUME TagIInv, NEW s \in Sensors, NEW p, PeriodPush(s, p)
    PROVE  TagIInv'
<1>1. CASE ~ ValidatePeriod(p)
  BY <1>1, NothingToldKeeps DEF PeriodPush
<1>2. CASE ValidatePeriod(p)
  <2> DEFINE h == [enable |-> hub[s].enable, axes |-> hub[s].axes, period |-> p]
             starts == hub[s].enable /\ ~ ValidatePeriod(hub[s].period)
             reg == IF ~ starts THEN tagChip[s].config
                    ELSE IF s = "imu" THEN ImuConfig(hub, FALSE) ELSE BasicConfig(TRUE)
             c == [config |-> reg, period |-> p]
  <2>1. /\ hub[s] = [enable |-> hub[s].enable, axes |-> hub[s].axes, period |-> hub[s].period]
        /\ hub[s].enable \in BOOLEAN /\ hub[s].axes \in BOOLEAN /\ hub[s].period \in Nat
        /\ tagChip[s] = [config |-> tagChip[s].config, period |-> tagChip[s].period]
        /\ tagChip[s].config \in [on : BOOLEAN, axes : BOOLEAN]
        /\ app = "sampling" => s = "light" \/ Agrees(s, hub[s], tagChip[s])
    BY SensorParts
  <2>2. p \in Nat
    BY <1>2, TagAssumption DEF ValidatePeriod
  <2>3. hub' = [hub EXCEPT ![s] = [hub[s] EXCEPT !.period = p]]
    BY <1>2 DEF PeriodPush
  <2>4. hub' = [hub EXCEPT ![s] = h]
    <3>1. [hub[s] EXCEPT !.period = p] = h
      BY <2>1
    <3> HIDE DEF h
    <3> QED
      BY <2>3, <3>1
  <2>5. reg \in [on : BOOLEAN, axes : BOOLEAN]
    BY <2>1 DEF ImuConfig, BasicConfig
  <2>6. h \in HubSensor /\ c \in ChipSensor
    BY <2>1, <2>2, <2>5 DEF HubSensor, ChipSensor
  <2>7. CASE app = "sampling"
    <3>1. WritePeriod(tagChip, s, p)
            = [tagChip EXCEPT ![s] = [config |-> tagChip[s].config, period |-> p]]
      <4>1. WritePeriod(tagChip, s, p) = [tagChip EXCEPT ![s] = [tagChip[s] EXCEPT !.period = p]]
        BY DEF WritePeriod
      <4> QED
        BY <2>1, <4>1
    <3>2. ASSUME NEW x
          PROVE  WriteConfig(WritePeriod(tagChip, s, p), s, x)
                   = [tagChip EXCEPT ![s] = [config |-> x, period |-> p]]
      <4> DEFINE c1 == [config |-> tagChip[s].config, period |-> p]
                 c2 == [config |-> x, period |-> p]
      <4>1. tagChip = [t \in Sensors \cup {"io"} |-> tagChip[t]]
        BY TagInvariantParts DEF TagParts, ChipTyped
      <4>2. [c1 EXCEPT !.config = x] = c2
        OBVIOUS
      <4>3. WritePeriod(tagChip, s, p) = [tagChip EXCEPT ![s] = c1]
        BY <3>1
      <4> HIDE DEF c1, c2
      <4>4. [tagChip EXCEPT ![s] = c1][s] = c1
        BY <4>1
      <4>5. WriteConfig(WritePeriod(tagChip, s, p), s, x)
              = [[tagChip EXCEPT ![s] = c1] EXCEPT ![s] = [c1 EXCEPT !.config = x]]
        BY <4>3, <4>4 DEF WriteConfig
      <4>6. WriteConfig(WritePeriod(tagChip, s, p), s, x) = [tagChip EXCEPT ![s] = c2]
        BY <4>1, <4>2, <4>5
      <4> QED
        BY <4>6 DEF c2
    <3>3. Written([tagChip EXCEPT ![s] = c])
      <4>1. CASE starts
        <5>1. Written(WriteConfig(WritePeriod(tagChip, s, p), s,
                                  IF s = "imu" THEN ImuConfig(hub, FALSE) ELSE BasicConfig(TRUE)))
          BY <1>2, <2>7, <4>1 DEF PeriodPush
        <5> QED
          BY <3>2, <4>1, <5>1
      <4>2. CASE ~ starts
        <5>1. Written(WritePeriod(tagChip, s, p))
          BY <1>2, <2>7, <4>2 DEF PeriodPush
        <5> QED
          BY <3>1, <4>2, <5>1
      <4> QED
        BY <4>1, <4>2
    <3>4. s = "light" \/ Agrees(s, h, c)
      <4>1. CASE starts
        BY <1>2, <2>1, <4>1 DEF Agrees, ImuConfig, BasicConfig
      <4>2. CASE ~ starts
        BY <1>2, <2>1, <2>7, <4>2 DEF Agrees
      <4> QED
        BY <4>1, <4>2
    <3> HIDE DEF h, c
    <3> QED
      BY <2>4, <2>6, <2>7, <3>3, <3>4, SensorWrite
  <2>8. CASE app # "sampling"
    <3>1. app' = app /\ tagChip' = tagChip
      BY <1>2, <2>8 DEF PeriodPush
    <3> HIDE DEF h
    <3> QED
      BY <2>4, <2>6, <2>8, <3>1, SensorNotWritten
  <2> QED
    BY <2>7, <2>8
<1> QED
  BY <1>1, <1>2

\* A write of the inertial sensor's configuration that agrees with its new setting.
LEMMA ImuWriteKeeps ==
    ASSUME TagIInv, NEW e \in BOOLEAN, NEW a \in BOOLEAN, NEW f \in BOOLEAN, NEW g,
           g["imu"] = [enable |-> e, axes |-> a, period |-> hub["imu"].period],
           hub' = [hub EXCEPT !["imu"] = g["imu"]],
           f = TRUE => ~ ValidatePeriod(hub["imu"].period),
           f = FALSE => ValidatePeriod(hub["imu"].period),
           ImuWritten(WriteConfig(tagChip, "imu", ImuConfig(g, f)))
    PROVE  TagIInv'
<1> DEFINE h == [enable |-> e, axes |-> a, period |-> hub["imu"].period]
           c == [config |-> ImuConfig(g, f), period |-> tagChip["imu"].period]
<1>1. "imu" \in Sensors
  BY DEF Sensors
<1>2. /\ hub["imu"].period \in Nat
      /\ tagChip["imu"] = [config |-> tagChip["imu"].config, period |-> tagChip["imu"].period]
      /\ tagChip["imu"].period \in Nat
      /\ app = "sampling" => Agrees("imu", hub["imu"], tagChip["imu"])
  <2>1. "imu" # "light"
    OBVIOUS
  <2> QED
    BY <1>1, <2>1, SensorParts, Zenon
<1>3. /\ ImuConfig(g, f) \in [on : BOOLEAN, axes : BOOLEAN]
      /\ ImuConfig(g, f).on = (e /\ f = FALSE)
      /\ ImuConfig(g, f).on => ImuConfig(g, f).axes = a
  <2>1. g["imu"].enable = e /\ g["imu"].axes = a
    OBVIOUS
  <2>2. CASE e /\ f = FALSE
    BY <2>1, <2>2 DEF ImuConfig
  <2>3. CASE ~ (e /\ f = FALSE)
    <3>1. ImuConfig(g, f) = [on |-> FALSE, axes |-> FALSE]
      BY <2>1, <2>3 DEF ImuConfig
    <3>2. ImuConfig(g, f).on = FALSE /\ ImuConfig(g, f) \in [on : BOOLEAN, axes : BOOLEAN]
      BY <3>1
    <3>3. (e /\ f = FALSE) = FALSE
      BY <2>3
    <3> QED
      BY <3>2, <3>3, Zenon
  <2> QED
    BY <2>2, <2>3
<1>4. h \in HubSensor /\ c \in ChipSensor /\ hub' = [hub EXCEPT !["imu"] = h]
  BY <1>2, <1>3 DEF HubSensor, ChipSensor
<1>5. CASE app = "sampling"
  <2>1. WriteConfig(tagChip, "imu", ImuConfig(g, f)) = [tagChip EXCEPT !["imu"] = c]
    <3>1. [tagChip["imu"] EXCEPT !.config = ImuConfig(g, f)] = c
      BY <1>2
    <3>2. WriteConfig(tagChip, "imu", ImuConfig(g, f))
            = [tagChip EXCEPT !["imu"] = [tagChip["imu"] EXCEPT !.config = ImuConfig(g, f)]]
      BY DEF WriteConfig
    <3> HIDE DEF c
    <3> QED
      BY <3>1, <3>2
  <2>2. Written([tagChip EXCEPT !["imu"] = c])
    BY <1>5, <2>1 DEF ImuWritten
  <2>3. Agrees("imu", h, c)
    <3>1. c.config = ImuConfig(g, f) /\ c.period = tagChip["imu"].period
          /\ h.enable = e /\ h.axes = a /\ h.period = hub["imu"].period
      OBVIOUS
    <3>2. ValidatePeriod(hub["imu"].period) <=> f = FALSE
      OBVIOUS
    <3>3. ValidatePeriod(hub["imu"].period) => tagChip["imu"].period = hub["imu"].period
      BY <1>2, <1>5 DEF Agrees
    <3> HIDE DEF c, h
    <3>4. c.config.on = (h.enable /\ ValidatePeriod(h.period))
      <4>1. c.config.on = (e /\ f = FALSE) /\ h.enable = e
        BY <1>3, <3>1
      <4> QED
        BY <3>1, <3>2, <4>1, Zenon
    <3>5. c.config.on => c.config.axes = h.axes
      BY <1>3, <3>1
    <3> QED
      BY <3>1, <3>3, <3>4, <3>5, Zenon DEF Agrees
  <2> HIDE DEF h, c
  <2> QED
    BY <1>1, <1>4, <1>5, <2>2, <2>3, SensorWrite
<1>6. CASE app # "sampling"
  <2>1. app' = app /\ tagChip' = tagChip
    BY <1>6 DEF ImuWritten
  <2> HIDE DEF h
  <2> QED
    BY <1>1, <1>4, <1>6, <2>1, SensorNotWritten
<1> QED
  BY <1>5, <1>6

LEMMA ImuEnablePushKeeps ==
    ASSUME TagIInv, NEW flag \in {"enable", "axes"}, NEW on \in BOOLEAN,
           HandleImuEnablePush(flag, on)
    PROVE  TagIInv'
<1> DEFINE g == [hub EXCEPT !["imu"][flag] = on]
           e == IF flag = "enable" THEN on ELSE hub["imu"].enable
           a == IF flag = "enable" THEN hub["imu"].axes ELSE on
           valid == ValidatePeriod(hub["imu"].period)
<1>1. "imu" \in Sensors /\ "imu" # "light"
  BY DEF Sensors
<1>2. /\ hub["imu"] = [enable |-> hub["imu"].enable, axes |-> hub["imu"].axes,
                       period |-> hub["imu"].period]
      /\ hub["imu"].enable \in BOOLEAN /\ hub["imu"].axes \in BOOLEAN
      /\ hub["imu"].period \in Nat
      /\ app = "sampling" => Agrees("imu", hub["imu"], tagChip["imu"])
  BY <1>1, SensorParts, Zenon
<1>3. e \in BOOLEAN /\ a \in BOOLEAN
  BY <1>2
<1>4. /\ g["imu"] = [enable |-> e, axes |-> a, period |-> hub["imu"].period]
      /\ g = [hub EXCEPT !["imu"] = g["imu"]]
  <2>1. hub = [t \in Sensors \cup {"io"} |-> hub[t]]
    BY TagInvariantParts DEF TagParts
  <2>2. g = [hub EXCEPT !["imu"] = [hub["imu"] EXCEPT ![flag] = on]]
    OBVIOUS
  <2>3. [hub["imu"] EXCEPT ![flag] = on] = [enable |-> e, axes |-> a, period |-> hub["imu"].period]
    <3>1. CASE flag = "enable"
      BY <1>2, <3>1
    <3>2. CASE flag = "axes"
      BY <1>2, <3>2
    <3> QED
      BY <3>1, <3>2
  <2> DEFINE h == [enable |-> e, axes |-> a, period |-> hub["imu"].period]
  <2>4. g = [hub EXCEPT !["imu"] = h]
    BY <2>2, <2>3
  <2> HIDE DEF g, h
  <2>5. g["imu"] = h
    BY <1>1, <2>1, <2>4
  <2> QED
    BY <2>4, <2>5 DEF h
<1>5. hub' = [hub EXCEPT !["imu"] = g["imu"]]
  BY <1>4 DEF HandleImuEnablePush
<1>6. /\ flag = "enable" => ImuWritten(WriteConfig(tagChip, "imu", ImuConfig(g, ~ valid)))
      /\ flag # "enable" /\ g["imu"].enable /\ valid
           => ImuWritten(WriteConfig(tagChip, "imu", ImuConfig(g, FALSE)))
      /\ flag # "enable" /\ ~ (g["imu"].enable /\ valid) => app' = app /\ tagChip' = tagChip
  BY DEF HandleImuEnablePush
<1>7. valid \in BOOLEAN
  BY DEF ValidatePeriod
<1> HIDE DEF g, e, a
<1>8. CASE flag = "enable"
  <2>1. CASE valid = TRUE
    <3>1. ImuWritten(WriteConfig(tagChip, "imu", ImuConfig(g, FALSE)))
      <4>1. (~ valid) = FALSE
        BY <2>1
      <4> QED
        BY <1>6, <1>8, <4>1
    <3> QED
      BY <1>3, <1>4, <1>5, <2>1, <3>1, ImuWriteKeeps
  <2>2. CASE valid = FALSE
    <3>1. ImuWritten(WriteConfig(tagChip, "imu", ImuConfig(g, TRUE)))
      <4>1. (~ valid) = TRUE
        BY <2>2
      <4> QED
        BY <1>6, <1>8, <4>1
    <3> QED
      BY <1>3, <1>4, <1>5, <2>2, <3>1, ImuWriteKeeps
  <2> QED
    BY <1>7, <2>1, <2>2
<1>9. CASE flag # "enable" /\ g["imu"].enable /\ valid
  BY <1>3, <1>4, <1>5, <1>6, <1>9, ImuWriteKeeps
<1>10. CASE flag # "enable" /\ ~ (g["imu"].enable /\ valid)
  <2> DEFINE h == [enable |-> e, axes |-> a, period |-> hub["imu"].period]
  <2>1. app' = app /\ tagChip' = tagChip
    BY <1>6, <1>10
  <2>2. h \in HubSensor /\ hub' = [hub EXCEPT !["imu"] = h]
    BY <1>2, <1>3, <1>4, <1>5 DEF HubSensor
  <2>3. h.enable = hub["imu"].enable /\ h.period = hub["imu"].period
    BY <1>10 DEF e
  <2>4. ~ (h.enable /\ valid)
    BY <1>4, <1>10
  <2> HIDE DEF h
  <2>5. app = "sampling" => Agrees("imu", h, tagChip["imu"])
    BY <1>2, <2>3, <2>4 DEF Agrees
  <2> QED
    BY <1>1, <2>1, <2>2, <2>5, SensorNotWritten
<1> QED
  BY <1>8, <1>9, <1>10

LEMMA ImuRangePushKeeps ==
    ASSUME TagIInv, HandleImuAccelRangePush
    PROVE  TagIInv'
<1>1. "imu" \in Sensors
  BY DEF Sensors
<1>2. /\ hub["imu"] = [enable |-> hub["imu"].enable, axes |-> hub["imu"].axes,
                       period |-> hub["imu"].period]
      /\ hub["imu"].enable \in BOOLEAN /\ hub["imu"].axes \in BOOLEAN
      /\ hub = [hub EXCEPT !["imu"] = hub["imu"]]
  BY <1>1, SensorParts, Zenon
<1>3. /\ ValidatePeriod(hub["imu"].period) /\ hub' = hub
      /\ ImuWritten(WriteConfig(tagChip, "imu", ImuConfig(hub, FALSE)))
  BY DEF HandleImuAccelRangePush
<1>4. hub' = [hub EXCEPT !["imu"] = hub["imu"]]
  BY <1>2, <1>3
<1> QED
  BY <1>2, <1>3, <1>4, ImuWriteKeeps

\* HandleIOPush
LEMMA IOPushKeeps ==
    ASSUME TagIInv, NEW v, HandleIOPush(v)
    PROVE  TagIInv'
<1>1. /\ hub = [t \in Sensors \cup {"io"} |-> hub[t]]
      /\ \A t \in Sensors : hub[t] \in HubSensor
      /\ tagChip = [t \in Sensors \cup {"io"} |-> tagChip[t]]
      /\ \A t \in Sensors : tagChip[t] \in ChipSensor
      /\ app = "sampling" => AllAgree(hub, tagChip)
  BY TagInvariantParts DEF TagParts, ChipTyped
<1>2. "io" \notin Sensors
  BY DEF Sensors, Basic
<1>3. hub' = [hub EXCEPT !["io"] = v]
  BY DEF HandleIOPush
<1>4. /\ tagChip' = tagChip \/ tagChip' = [tagChip EXCEPT !["io"] = v]
      /\ app' = "sampling" => app = "sampling" /\ tagChip' = [tagChip EXCEPT !["io"] = v]
  BY DEF HandleIOPush, Written
<1>5. /\ hub' = [t \in Sensors \cup {"io"} |-> hub'[t]]
      /\ hub'["io"] = v /\ \A t \in Sensors : hub'[t] = hub[t]
  BY <1>1, <1>2, <1>3
<1>6. /\ tagChip' = [t \in Sensors \cup {"io"} |-> tagChip'[t]]
      /\ \A t \in Sensors : tagChip'[t] = tagChip[t]
      /\ app' = "sampling" => tagChip'["io"] = v
  BY <1>1, <1>2, <1>4
<1>7. app' = "sampling" => AllAgree(hub', tagChip')
  BY <1>1, <1>4, <1>5, <1>6, Zenon DEF AllAgree
<1>8. TagParts'
  BY <1>1, <1>5, <1>6, <1>7, Zenon DEF TagParts, ChipTyped
<1>9. TagIInv' <=> TagParts'
  BY TagInvariantParts, PTL
<1> QED
  BY <1>8, <1>9

LEMMA TagNextKeeps == TagIInv /\ [TagNext]_tagVars => TagIInv'
<1> SUFFICES ASSUME TagIInv, [TagNext]_tagVars PROVE TagIInv'
  OBVIOUS
<1>1. ASSUME NEW on \in BOOLEAN,
             \/ HandleIrTempEnablePush(on) \/ HandleHumidityEnablePush(on)
             \/ HandlePressureEnablePush(on) \/ HandleLightEnablePush(on)
      PROVE  TagIInv'
  <2>1. "irTemp" \in Basic /\ "humidity" \in Basic /\ "pressure" \in Basic /\ "light" \in Basic
    BY DEF Basic
  <2> QED
    BY <1>1, <2>1, EnablePushKeeps, Zenon DEF HandleIrTempEnablePush, HandleHumidityEnablePush,
       HandlePressureEnablePush, HandleLightEnablePush
<1>2. ASSUME NEW p \in HubAsked,
             \/ HandleIrTempPeriodPush(p) \/ HandleHumidityPeriodPush(p)
             \/ HandlePressurePeriodPush(p) \/ HandleLightPeriodPush(p) \/ HandleImuPeriodPush(p)
      PROVE  TagIInv'
  <2>1. /\ "irTemp" \in Sensors /\ "humidity" \in Sensors /\ "pressure" \in Sensors
        /\ "light" \in Sensors /\ "imu" \in Sensors
    BY DEF Basic, Sensors
  <2> QED
    BY <1>2, <2>1, PeriodPushKeeps, Zenon DEF HandleIrTempPeriodPush, HandleHumidityPeriodPush,
       HandlePressurePeriodPush, HandleLightPeriodPush, HandleImuPeriodPush
<1>3. ASSUME NEW k, SimpleKeysChanged(k) PROVE TagIInv'
  BY <1>3, NothingToldKeeps DEF SimpleKeysChanged
<1>4. CASE UNCHANGED tagVars
  BY <1>4, NothingToldKeeps DEF tagVars
<1> QED
  BY <1>1, <1>2, <1>3, <1>4, SearchKeeps, ImuEnablePushKeeps, ImuRangePushKeeps, IOPushKeeps,
     Zenon DEF TagNext

\* The handlers of sensorTag.c, in whatever order BlueZ announces its objects and the Data
\* Hub pushes its settings, for any number of attributes and any valid periods: a tag that
\* is sampled is set as the Data Hub last asked.
THEOREM TagIsObedient == TagSpec => []TagObeysHub
<1>1. TagInit => TagIInv
  BY TagInitial
<1>2. TagIInv /\ [TagNext]_tagVars => TagIInv'
  BY TagNextKeeps
<1>3. TagIInv => TagObeysHub
  BY DEF TagIInv
<1> QED
  BY <1>1, <1>2, <1>3, PTL DEF TagSpec
=============================================================================
