---------------------------- MODULE SequenceLemmas ----------------------------
(***************************************************************************)
(* What the proofs need to know of RemoveAt (the queue of a gate in        *)
(* SlotQueue, the reads under way in LiveStream), of the entries kept in a *)
(* Map (the failures of SignIn, the windows of AiLimits), and of loops     *)
(* over a list (the folds of Intervals and SliReplay).                     *)
(***************************************************************************)
EXTENDS Integers, SequencesExt, MapEntries, SequenceTheorems, FiniteSetTheorems, TLAPS

\* Array.splice(i, 1): what is left of a list when the element at i goes.
LEMMA RemoveAtProperties ==
  ASSUME NEW S, NEW s \in Seq(S), NEW i \in 1..Len(s)
  PROVE  /\ RemoveAt(s, i) \in Seq(S)
         /\ Len(RemoveAt(s, i)) = Len(s) - 1
         /\ \A j \in 1..(Len(s) - 1) :
              RemoveAt(s, i)[j] = IF j < i THEN s[j] ELSE s[j + 1]
<1> DEFINE front == SubSeq(s, 1, i - 1)
           back == SubSeq(s, i + 1, Len(s))
<1>1. /\ Len(s) \in Nat
      /\ \A j \in 1..Len(s) : s[j] \in S
  OBVIOUS
<1>2. /\ front \in Seq(S)
      /\ Len(front) = i - 1
      /\ \A j \in 1..(i - 1) : front[j] = s[j]
  BY <1>1, SubSeqProperties
<1>3. /\ back \in Seq(S)
      /\ Len(back) = Len(s) - i
      /\ \A j \in 1..(Len(s) - i) : back[j] = s[i + j]
  BY <1>1, SubSeqProperties
<1> HIDE DEF front, back
<1>4. /\ front \o back \in Seq(S)
      /\ Len(front \o back) = Len(s) - 1
      /\ \A j \in 1..(Len(s) - 1) : (front \o back)[j] = IF j < i THEN s[j] ELSE s[j + 1]
  <2>1. /\ front \o back \in Seq(S)
        /\ Len(front \o back) = Len(front) + Len(back)
        /\ \A j \in 1..(Len(front) + Len(back)) :
             (front \o back)[j] = IF j <= Len(front) THEN front[j] ELSE back[j - Len(front)]
    BY <1>2, <1>3, ConcatProperties
  <2>2. Len(front) + Len(back) = Len(s) - 1 /\ i \in Int
    BY <1>1, <1>2, <1>3
  <2>3. ASSUME NEW j \in 1..(Len(s) - 1)
        PROVE  (front \o back)[j] = IF j < i THEN s[j] ELSE s[j + 1]
    <3>1. CASE j < i
      BY <1>1, <1>2, <2>1, <2>2, <3>1
    <3>2. CASE ~(j < i)
      <4>1. j - (i - 1) \in 1..(Len(s) - i) /\ i + (j - (i - 1)) = j + 1
        BY <1>1, <3>2
      <4>2. (front \o back)[j] = back[j - (i - 1)]
        BY <1>1, <1>2, <2>1, <2>2, <3>2
      <4> QED BY <1>3, <3>2, <4>1, <4>2
    <3> QED BY <3>1, <3>2
  <2> QED BY <2>1, <2>2, <2>3
<1> QED BY <1>4 DEF RemoveAt, front, back

\* Taking out the one place at which r stands leaves the others, once each.
LEMMA RemoveAtRange ==
  ASSUME NEW S, NEW s \in Seq(S), NEW i \in 1..Len(s),
         \A j, k \in 1..Len(s) : s[j] = s[k] => j = k
  PROVE  LET t == RemoveAt(s, i)
         IN  /\ {t[j] : j \in 1..Len(t)} = {s[j] : j \in 1..Len(s)} \ {s[i]}
             /\ \A j, k \in 1..Len(t) : t[j] = t[k] => j = k
<1> DEFINE t == RemoveAt(s, i)
<1>1. /\ Len(t) = Len(s) - 1
      /\ \A j \in 1..(Len(s) - 1) : t[j] = IF j < i THEN s[j] ELSE s[j + 1]
  BY RemoveAtProperties
<1>2. Len(s) \in Nat
  OBVIOUS
<1> HIDE DEF t
<1>3. \A j, k \in 1..Len(t) : t[j] = t[k] => j = k
  BY <1>1, <1>2
<1>4. ASSUME NEW j \in 1..Len(t) PROVE t[j] \in {s[k] : k \in 1..Len(s)} \ {s[i]}
  BY <1>1, <1>2
<1>5. ASSUME NEW k \in 1..Len(s), s[k] # s[i] PROVE \E j \in 1..Len(t) : t[j] = s[k]
  <2>1. CASE k < i
    BY <1>1, <1>2, <2>1
  <2>2. CASE k > i
    <3>1. k - 1 \in 1..Len(t) /\ t[k - 1] = s[k]
      BY <1>1, <1>2, <2>2
    <3> QED BY <3>1
  <2> QED BY <2>1, <2>2, <1>2, <1>5
<1>6. {t[j] : j \in 1..Len(t)} = {s[j] : j \in 1..Len(s)} \ {s[i]}
  BY <1>4, <1>5
<1> QED BY <1>3, <1>6 DEF t

\* Of finitely many numbers, each has its place in their order and each place
\* its number.
LEMMA RanksAreInOrder ==
  ASSUME NEW P \in SUBSET Nat, IsFiniteSet(P)
  PROVE  LET rank(i) == Cardinality({j \in P : j <= i}) IN
         /\ \A i \in P : rank(i) \in 1..Cardinality(P)
         /\ \A i, j \in P : i < j => rank(i) < rank(j)
         /\ \A n \in 1..Cardinality(P) : \E i \in P : rank(i) = n
<1> DEFINE upTo(i) == {j \in P : j <= i}
           rank == [i \in P |-> Cardinality(upTo(i))]
           N == Cardinality(P)
<1>1. N \in Nat
  BY FS_CardinalityType
<1>2. ASSUME NEW i \in P PROVE IsFiniteSet(upTo(i)) /\ rank[i] \in 1..N
  <2>1. IsFiniteSet(upTo(i)) /\ Cardinality(upTo(i)) \in Nat /\ Cardinality(upTo(i)) <= N
    BY FS_Subset, FS_CardinalityType
  <2>2. i \in upTo(i)
    OBVIOUS
  <2>3. Cardinality(upTo(i)) # 0
    BY <2>1, <2>2, FS_EmptySet
  <2> QED BY <1>1, <2>1, <2>3
<1>3. ASSUME NEW i \in P, NEW j \in P, i < j PROVE rank[i] < rank[j]
  <2>1. upTo(i) \subseteq upTo(j)
    <3> SUFFICES ASSUME NEW k \in P, k <= i PROVE k <= j
      OBVIOUS
    <3>1. k \in Nat /\ i \in Nat /\ j \in Nat
      OBVIOUS
    <3> QED BY <1>3, <3>1
  <2>2. j \in upTo(j) /\ j \notin upTo(i)
    <3>1. i \in Nat /\ j \in Nat
      OBVIOUS
    <3> QED BY <1>3, <3>1
  <2>3. Cardinality(upTo(i)) <= Cardinality(upTo(j)) /\ Cardinality(upTo(i)) # Cardinality(upTo(j))
    BY <1>2, <2>1, <2>2, FS_Subset
  <2> QED BY <1>1, <1>2, <2>3
<1>4. \A n \in 1..N : \E i \in P : rank[i] = n
  <2>1. rank \in [P -> 1..N]
    BY <1>2
  <2>2. \A i, j \in P : rank[i] = rank[j] => i = j
    <3> SUFFICES ASSUME NEW i \in P, NEW j \in P, i # j PROVE rank[i] # rank[j]
      OBVIOUS
    <3>1. i \in Nat /\ j \in Nat /\ rank[i] \in 1..N /\ rank[j] \in 1..N
      BY <1>2
    <3>2. i < j \/ j < i
      BY <3>1
    <3> HIDE DEF rank
    <3> QED BY <1>1, <1>3, <3>1, <3>2
  <2> HIDE DEF rank
  <2>3. rank \in Injection(P, 1..N)
    BY <2>1, <2>2 DEF Injection, IsInjective
  <2>4. IsFiniteSet(1..N) /\ Cardinality(1..N) = N
    BY <1>1, FS_Interval
  <2>5. rank \in Surjection(P, 1..N)
    BY <2>3, <2>4, FS_Injection
  <2> QED BY <2>5 DEF Surjection
<1> QED BY <1>2, <1>3, <1>4

\* So some number is the largest of them.
LEMMA HasALargest ==
  ASSUME NEW P \in SUBSET Nat, IsFiniteSet(P), P # {}
  PROVE  \E x \in P : \A y \in P : x >= y
<1> DEFINE rank(i) == Cardinality({j \in P : j <= i})
<1>1. /\ \A i \in P : rank(i) \in 1..Cardinality(P)
      /\ \A i, j \in P : i < j => rank(i) < rank(j)
      /\ \A n \in 1..Cardinality(P) : \E i \in P : rank(i) = n
  BY RanksAreInOrder
<1> HIDE DEF rank
<1>2. Cardinality(P) \in Nat /\ Cardinality(P) # 0
  BY FS_CardinalityType, FS_EmptySet
<1>3. PICK x \in P : rank(x) = Cardinality(P)
  BY <1>1, <1>2
<1>4. ASSUME NEW y \in P PROVE x >= y
  <2>1. rank(y) \in 1..Cardinality(P)
    BY <1>1
  <2>2. ~(x < y)
    BY <1>1, <1>2, <1>3, <2>1
  <2>3. x \in Nat /\ y \in Nat
    OBVIOUS
  <2> QED BY <2>2, <2>3
<1> QED BY <1>4

\* The first n of a sequence.
LEMMA FirstOf ==
  ASSUME NEW S, NEW s \in Seq(S), NEW n \in 0..Len(s)
  PROVE  /\ SubSeq(s, 1, n) \in Seq(S)
         /\ Len(SubSeq(s, 1, n)) = n
         /\ \A i \in 1..n : SubSeq(s, 1, n)[i] = s[i]
<1> DEFINE f == SubSeq(s, 1, n)
<1>1. n \in Nat /\ \A j \in 1..n : s[j] \in S
  OBVIOUS
<1>2. /\ f \in Seq(S)
      /\ Len(f) = n
      /\ \A j \in 1..n : f[j] = s[j]
  BY <1>1, SubSeqProperties
<1> QED BY <1>2

\* All but the last.
LEMMA FrontProperties ==
  ASSUME NEW S, NEW s \in Seq(S), s # <<>>
  PROVE  /\ Len(s) \in Nat \ {0} /\ Last(s) = s[Len(s)]
         /\ Front(s) \in Seq(S) /\ Len(Front(s)) = Len(s) - 1
         /\ \A n \in 1..(Len(s) - 1) : Front(s)[n] = s[n]
<1>1. Len(s) \in Nat \ {0}
  OBVIOUS
<1>2. Len(s) - 1 \in 0..Len(s)
  BY <1>1
<1> QED BY <1>1, <1>2, FirstOf DEF Front, Last

\* Of some numbers, one is the least.
LEMMA HasALeast ==
  ASSUME NEW P \in SUBSET Nat, P # {}
  PROVE  Min(P) \in P /\ \A i \in P : Min(P) <= i
<1>1. \E x \in P : \A y \in P : ~(<<y, x>> \in OpToRel(<, Nat))
  BY NatLessThanWellFounded, WFMin
<1>2. PICK x \in P : \A y \in P : ~(<<y, x>> \in OpToRel(<, Nat))
  BY <1>1
<1>3. \A y \in P : x <= y
  <2> SUFFICES ASSUME NEW y \in P PROVE x <= y
    OBVIOUS
  <2>1. x \in Nat /\ y \in Nat
    OBVIOUS
  <2>2. ~(y < x)
    BY <1>2, <2>1 DEF OpToRel
  <2> QED BY <2>1, <2>2
<1> QED BY <1>3 DEF Min

\* What begins so and stays so from each to the next is so of all.
LEMMA Onwards ==
  ASSUME NEW N \in Nat, NEW S, 0 \in S, \A n \in 1..N : n - 1 \in S => n \in S
  PROVE  \A n \in 0..N : n \in S
<1> DEFINE Others == {n \in 0..N : n \notin S}
<1>1. ASSUME Others # {} PROVE FALSE
  <2>1. Others \in SUBSET Nat
    OBVIOUS
  <2>2. PICK n \in Others : \A m \in Others : n <= m
    BY <1>1, <2>1, HasALeast
  <2>3. n \in 0..N /\ n \notin S
    BY <2>2
  <2>4. n # 0 /\ n \in 1..N /\ n - 1 \in 0..N /\ ~(n <= n - 1)
    BY <2>3
  <2>5. n - 1 \notin Others
    BY <2>2, <2>4
  <2> QED BY <2>3, <2>4, <2>5
<1> QED BY <1>1

-----------------------------------------------------------------------------
(* FoldLeft.  Its iter is a function of sets of places; of those the       *)
(* beginnings 1..n are what a loop has done.                               *)

LEMMA Beginnings ==
  ASSUME NEW n \in Nat
  PROVE  /\ 1..0 = {}
         /\ n # 0 => /\ 1..n # {} /\ Max(1..n) = n /\ (1..n) \ {n} = 1..(n - 1)
<1>1. ASSUME n # 0 PROVE 1..n # {} /\ Max(1..n) = n /\ (1..n) \ {n} = 1..(n - 1)
  <2>1. n \in 1..n /\ \A y \in 1..n : n >= y
    BY <1>1
  <2>2. \A x \in 1..n : (\A y \in 1..n : x >= y) => x = n
    BY <1>1
  <2>3. Max(1..n) = n
    BY <2>1, <2>2 DEF Max
  <2> QED BY <2>1, <2>3
<1> QED BY <1>1

\* What the last of N steps may take, and what each makes of it.
Steps(N, A, base, next) ==
  N \in Nat /\ base \in A /\ \A n \in 1..N, a \in A : next[<<n, a>>] \in A
Folded(it, N, A, base, next) ==
  /\ it \in [SUBSET (1..N) -> A]
  /\ it[{}] = base
  /\ \A s \in SUBSET (1..N) : s # {} =>
       Max(s) \in 1..N /\ s \ {Max(s)} \in SUBSET (1..N) /\ it[s] = next[<<Max(s), it[s \ {Max(s)}]>>]

\* A loop over a list comes to its end.
LEMMA FoldExists ==
  ASSUME NEW N, NEW A, NEW base, NEW next, Steps(N, A, base, next)
  PROVE  \E it : Folded(it, N, A, base, next)
<1> DEFINE Fine == {k \in Nat : \E it : Folded(it, k, A, base, next)}
<1>1. N \in Nat /\ base \in A /\ \A n \in 1..N, a \in A : next[<<n, a>>] \in A
  BY DEF Steps
<1>2. 0 \in Fine
  <2> DEFINE it == [s \in SUBSET (1..0) |-> base]
  <2>1. it \in [SUBSET (1..0) -> A] /\ it[{}] = base /\ \A s \in SUBSET (1..0) : s = {}
    BY <1>1
  <2> HIDE DEF it
  <2>2. Folded(it, 0, A, base, next)
    BY <2>1 DEF Folded
  <2> QED BY <2>2
<1>3. ASSUME NEW k \in 1..N, k - 1 \in Fine PROVE k \in Fine
  <2>1. PICK f : Folded(f, k - 1, A, base, next)
    BY <1>3
  <2> DEFINE g == [s \in SUBSET (1..k) |-> IF k \in s THEN next[<<k, f[s \ {k}]>>] ELSE f[s]]
  <2>2. /\ f \in [SUBSET (1..(k - 1)) -> A] /\ f[{}] = base
        /\ \A s \in SUBSET (1..(k - 1)) : s # {} =>
             Max(s) \in 1..(k - 1) /\ s \ {Max(s)} \in SUBSET (1..(k - 1)) /\ f[s] = next[<<Max(s), f[s \ {Max(s)}]>>]
    BY <2>1 DEF Folded
  <2>3. k \in Nat /\ k # 0 /\ \A n \in 1..(k - 1) : n \in 1..k /\ n < k
    BY <1>1
  <2>4. ASSUME NEW s \in SUBSET (1..k)
        PROVE  s \ {k} \in SUBSET (1..(k - 1)) /\ (k \notin s => s \in SUBSET (1..(k - 1)))
    BY <2>3
  <2>5. ASSUME NEW s \in SUBSET (1..k), k \in s PROVE Max(s) = k
    <3>1. \A y \in s : k >= y
      BY <2>3
    <3>2. \A x \in s : (\A y \in s : x >= y) => x = k
      BY <2>3, <2>5
    <3> QED BY <2>5, <3>1, <3>2 DEF Max
  <2>6. \A s \in SUBSET (1..k) : g[s] = IF k \in s THEN next[<<k, f[s \ {k}]>>] ELSE f[s]
    OBVIOUS
  <2>7. ASSUME NEW s \in SUBSET (1..k)
        PROVE  (IF k \in s THEN next[<<k, f[s \ {k}]>>] ELSE f[s]) \in A
    <3>1. CASE k \in s
      <4>1. f[s \ {k}] \in A
        BY <2>2, <2>4
      <4> QED BY <1>1, <3>1, <4>1
    <3>2. CASE k \notin s
      BY <2>2, <2>4, <3>2
    <3> QED BY <3>1, <3>2
  <2>8. g \in [SUBSET (1..k) -> A]
    BY <2>7
  <2> HIDE DEF g
  <2>9. {} \in SUBSET (1..k) /\ k \notin {} /\ g[{}] = base
    BY <2>2, <2>6
  <2>10. ASSUME NEW s \in SUBSET (1..k), s # {}
         PROVE  Max(s) \in 1..k /\ s \ {Max(s)} \in SUBSET (1..k) /\ g[s] = next[<<Max(s), g[s \ {Max(s)}]>>]
    <3>1. CASE k \in s
      <4>1. Max(s) = k /\ s \ {k} \in SUBSET (1..k) /\ k \notin s \ {k}
        BY <2>5, <3>1
      <4>2. g[s \ {k}] = f[s \ {k}] /\ g[s] = next[<<k, f[s \ {k}]>>]
        BY <2>6, <3>1, <4>1
      <4> QED BY <4>1, <4>2
    <3>2. CASE k \notin s
      <4>1. s \in SUBSET (1..(k - 1))
        BY <2>4, <3>2
      <4>2. Max(s) \in 1..(k - 1) /\ f[s] = next[<<Max(s), f[s \ {Max(s)}]>>]
        BY <2>2, <2>10, <4>1
      <4>3. k \notin s \ {Max(s)} /\ s \ {Max(s)} \in SUBSET (1..k) /\ Max(s) \in 1..k
        BY <2>3, <3>2, <4>2
      <4>4. g[s] = f[s] /\ g[s \ {Max(s)}] = f[s \ {Max(s)}]
        BY <2>6, <3>2, <4>3
      <4> QED BY <4>2, <4>3, <4>4
    <3> QED BY <3>1, <3>2
  <2>11. Folded(g, k, A, base, next)
    BY <2>8, <2>9, <2>10 DEF Folded
  <2> QED BY <2>3, <2>11
<1> HIDE DEF Fine
<1>4. N \in Fine
  BY <1>1, <1>2, <1>3, Onwards
<1> QED BY <1>4 DEF Fine

\* The keys of finitely many entries.
LEMMA ImageIsFinite ==
  ASSUME NEW M, IsFiniteSet(M), NEW g
  PROVE  IsFiniteSet({g[n].key : n \in M})
<1> DEFINE T == {g[n].key : n \in M}
           f == [n \in M |-> g[n].key]
<1>1. f \in Surjection(M, T)
  BY DEF Surjection
<1> HIDE DEF f, T
<1>2. IsFiniteSet(T)
  BY <1>1, FS_Surjection
<1> QED BY <1>2 DEF T

\* t has what s has at the given places, in order: its n-th from place at[n].
TakenFrom(s, places, t, at) ==
  /\ IsFiniteSet(places) /\ Cardinality(places) \in Nat
  /\ Len(t) = Cardinality(places)
  /\ at \in [1..Cardinality(places) -> places]
  /\ \A n \in 1..Len(t) : t[n] = s[at[n]]
  /\ \A m, n \in 1..Len(t) : m < n => at[m] < at[n]
  /\ \A i \in places : \E n \in 1..Len(t) : at[n] = i

\* Deleting entries of a Map: which are left, and in which order.
LEMMA KeptProperties ==
  ASSUME NEW S, NEW s \in Seq(S), NEW places \in SUBSET (1..Len(s))
  PROVE  /\ KeptEntries(s, places) \in Seq(S)
         /\ \E at : TakenFrom(s, places, KeptEntries(s, places), at)
<1> DEFINE N == Cardinality(places)
           rank(i) == Cardinality({j \in places : j <= i})
           nth(n) == CHOOSE i \in places : rank(i) = n
           at == [n \in 1..N |-> nth(n)]
           t == [n \in 1..N |-> s[nth(n)]]
<1>1. Len(s) \in Nat /\ \A i \in 1..Len(s) : s[i] \in S
  OBVIOUS
<1>2. IsFiniteSet(places) /\ N \in Nat /\ places \in SUBSET Nat
      /\ \A i \in places : i \in Nat
  <2>1. IsFiniteSet(1..Len(s))
    BY <1>1, FS_Interval
  <2>2. IsFiniteSet(places)
    BY <2>1, FS_Subset
  <2>3. N \in Nat
    BY <2>2, FS_CardinalityType
  <2>4. places \in SUBSET Nat /\ \A i \in places : i \in Nat
    BY <1>1
  <2> QED BY <2>2, <2>3, <2>4
<1>3. /\ \A i \in places : rank(i) \in 1..N
      /\ \A i, j \in places : i < j => rank(i) < rank(j)
      /\ \A n \in 1..N : \E i \in places : rank(i) = n
  BY <1>2, RanksAreInOrder
<1> HIDE DEF rank
<1>4. \A n \in 1..N : nth(n) \in places /\ rank(nth(n)) = n
  BY <1>3
<1>5. at \in [1..N -> places] /\ \A n \in 1..N : rank(at[n]) = n
  BY <1>4
<1>6. t \in Seq(S) /\ Len(t) = N /\ \A n \in 1..N : t[n] = s[at[n]]
  <2>1. \A n \in 1..N : s[nth(n)] \in S
    BY <1>1, <1>4
  <2> HIDE DEF nth
  <2> QED BY <1>2, <2>1
<1>7. KeptEntries(s, places) = t
  BY DEF KeptEntries, rank
<1> HIDE DEF N, nth, at, t
<1>8. ASSUME NEW m \in 1..N, NEW n \in 1..N, m < n PROVE at[m] < at[n]
  <2>1. at[m] \in places /\ at[n] \in places /\ rank(at[m]) = m /\ rank(at[n]) = n
    BY <1>5
  <2>2. at[m] \in Nat /\ at[n] \in Nat
    BY <1>2, <2>1
  <2>3. ~(at[n] < at[m]) /\ at[n] # at[m]
    BY <1>2, <1>3, <1>8, <2>1, <2>2
  <2> QED BY <2>2, <2>3
<1>9. ASSUME NEW i \in places PROVE \E n \in 1..N : at[n] = i
  <2> DEFINE j == at[rank(i)]
  <2>1. rank(i) \in 1..N
    BY <1>3
  <2>2. j \in places /\ rank(j) = rank(i)
    BY <1>5, <2>1
  <2> HIDE DEF j
  <2>3. i \in Nat /\ j \in Nat
    BY <1>2, <2>2
  <2>4. ~(i < j) /\ ~(j < i)
    BY <1>2, <1>3, <2>1, <2>2
  <2>5. j = i
    BY <2>3, <2>4
  <2> QED BY <2>1, <2>5 DEF j
<1>10. TakenFrom(s, places, t, at)
  BY <1>2, <1>5, <1>6, <1>8, <1>9 DEF TakenFrom, N
<1> QED BY <1>6, <1>7, <1>10

\* FlattenSeq, list by list.
LEMMA FlattenRuns ==
  ASSUME NEW S, NEW seqs, seqs \in Seq(Seq(S))
  PROVE  \E run : /\ run[0] = <<>>
                  /\ \A n \in 0..Len(seqs) : run[n] \in Seq(S)
                  /\ \A n \in 1..Len(seqs) : run[n] = run[n - 1] \o seqs[n]
                  /\ FlattenSeq(seqs) = run[Len(seqs)]
<1> DEFINE N == Len(seqs)
           All == Seq(S)
           next == [p \in (1..N) \X All |-> p[2] \o seqs[p[1]]]
           Flattens(g) == g = [i \in 1..N |-> IF i = 1 THEN seqs[i] ELSE g[i - 1] \o seqs[i]]
           flatten == CHOOSE g : Flattens(g)
           run == [n \in 0..N |-> IF n = 0 THEN <<>> ELSE flatten[n]]
<1>1. N \in Nat /\ <<>> \in All /\ \A n \in 1..N : seqs[n] \in All
  OBVIOUS
<1>2. \A n \in 1..N, a \in All : next[<<n, a>>] = a \o seqs[n] /\ a \o seqs[n] \in All
  <2>1. ASSUME NEW n \in 1..N, NEW a \in All PROVE next[<<n, a>>] = a \o seqs[n] /\ a \o seqs[n] \in All
    BY <1>1, ConcatProperties
  <2> HIDE DEF next
  <2> QED BY <2>1
<1>3. FlattenSeq(seqs) = IF N = 0 THEN <<>> ELSE flatten[N]
  <2>1. N = 0 => seqs = <<>>
    BY <1>1
  <2>2. FlattenSeq(seqs) = IF N = 0 THEN seqs ELSE flatten[N]
    BY DEF FlattenSeq
  <2> HIDE DEF flatten
  <2> QED BY <2>1, <2>2
<1> HIDE DEF N, next, All
<1>4. PICK it : Folded(it, N, All, <<>>, next)
  <2>1. Steps(N, All, <<>>, next)
    BY <1>1, <1>2 DEF Steps
  <2> QED BY <2>1, FoldExists
<1> DEFINE f == [n \in 0..N |-> it[1..n]]
<1>5. /\ f[0] = <<>>
      /\ \A n \in 1..N : f[n] \in All /\ f[n - 1] \in All /\ f[n] = f[n - 1] \o seqs[n]
  <2>1. f[0] = <<>>
    BY <1>1, <1>4, Beginnings DEF Folded
  <2>2. ASSUME NEW n \in 1..N
        PROVE  f[n] \in All /\ f[n - 1] \in All /\ f[n] = f[n - 1] \o seqs[n]
    <3>1. n \in Nat /\ n # 0 /\ 1..n \in SUBSET (1..N) /\ 1..(n - 1) \in SUBSET (1..N)
          /\ n \in 0..N /\ n - 1 \in 0..N
      BY <1>1
    <3>2. 1..n # {} /\ Max(1..n) = n /\ (1..n) \ {n} = 1..(n - 1)
      BY <3>1, Beginnings
    <3>3. it[1..n] \in All /\ it[1..(n - 1)] \in All
      BY <1>4, <3>1 DEF Folded
    <3>4. it[1..n] = next[<<n, it[1..(n - 1)]>>]
      BY <1>4, <3>1, <3>2 DEF Folded
    <3> QED BY <1>2, <3>1, <3>3, <3>4
  <2> HIDE DEF f
  <2> QED BY <2>1, <2>2
<1> HIDE DEF f
<1>6. Flattens(flatten)
  <2> DEFINE h == [i \in 1..N |-> f[i]]
  <2>1. ASSUME NEW i \in 1..N PROVE h[i] = IF i = 1 THEN seqs[i] ELSE h[i - 1] \o seqs[i]
    <3>1. CASE i = 1
      <4>1. f[1] = <<>> \o seqs[1]
        <5>1. f[1] = f[1 - 1] \o seqs[1]
          BY <1>5, <3>1
        <5>2. 1 - 1 = 0
          OBVIOUS
        <5> QED BY <1>5, <5>1, <5>2
      <4>2. seqs[1] \in Seq(S)
        BY <1>1, <3>1 DEF All
      <4>3. <<>> \o seqs[1] = seqs[1]
        BY <4>2
      <4>4. h[i] = f[1]
        BY <3>1
      <4> HIDE DEF h
      <4> QED BY <3>1, <4>1, <4>3, <4>4
    <3>2. CASE i # 1
      <4>1. i - 1 \in 1..N
        BY <1>1, <3>2
      <4> QED BY <1>5, <3>2, <4>1
    <3> QED BY <3>1, <3>2
  <2>2. h = [i \in 1..N |-> h[i]]
    OBVIOUS
  <2> HIDE DEF h
  <2>3. Flattens(h)
    BY <2>1, <2>2
  <2> HIDE DEF Flattens
  <2> QED BY <2>3
<1>7. ASSUME NEW n \in 1..N PROVE flatten[n] = IF n = 1 THEN seqs[n] ELSE flatten[n - 1] \o seqs[n]
  <2> HIDE DEF flatten
  <2> QED BY <1>6
<1> HIDE DEF flatten
<1>8. /\ run[0] = <<>> /\ FlattenSeq(seqs) = run[N]
      /\ \A n \in 1..N : run[n] = flatten[n]
  BY <1>1, <1>3
<1>9. ASSUME NEW n \in 1..N PROVE run[n] = run[n - 1] \o seqs[n]
  <2>1. CASE n = 1
    <3>1. seqs[1] \in Seq(S)
      BY <1>1, <2>1 DEF All
    <3>2. <<>> \o seqs[1] = seqs[1]
      BY <3>1
    <3>3. n - 1 = 0
      BY <2>1
    <3>4. run[n - 1] = <<>>
      BY <1>8, <3>3
    <3>5. run[n] = seqs[1]
      BY <1>7, <1>8, <2>1
    <3> HIDE DEF run
    <3> QED BY <2>1, <3>2, <3>4, <3>5
  <2>2. CASE n # 1
    <3>1. n - 1 \in 1..N
      BY <1>1, <2>2
    <3> HIDE DEF run
    <3> QED BY <1>7, <1>8, <2>2, <3>1
  <2> QED BY <2>1, <2>2
<1> HIDE DEF run
<1> DEFINE Fine == {n \in 0..N : run[n] \in All}
<1>10. \A n \in 0..N : n \in Fine
  <2>1. 0 \in Fine
    BY <1>1, <1>8
  <2>2. ASSUME NEW n \in 1..N, n - 1 \in Fine PROVE n \in Fine
    <3>1. n \in 0..N /\ n - 1 \in 0..N /\ run[n - 1] \in All
      BY <1>1, <2>2
    <3>2. seqs[n] \in All /\ run[n] = run[n - 1] \o seqs[n]
      BY <1>1, <1>9
    <3>3. run[n] \in All
      BY <1>2, <3>1, <3>2
    <3> QED BY <3>1, <3>3
  <2> HIDE DEF Fine
  <2> QED BY <1>1, <2>1, <2>2, Onwards
<1> QED BY <1>8, <1>9, <1>10 DEF N, All

\* A list of a set has each member at one place.
LEMMA Listing ==
  ASSUME NEW S, IsFiniteSet(S)
  PROVE  LET N == Cardinality(S)
             at == SetToSeq(S)
         IN /\ N \in Nat /\ \A n \in 1..N : at[n] \in S
            /\ \A m, n \in 1..N : at[m] = at[n] => m = n
            /\ \A x \in S : \E n \in 1..N : at[n] = x
<1> DEFINE N == Cardinality(S)
           at == SetToSeq(S)
<1>1. N \in Nat /\ ExistsBijection(1..N, S)
  BY FS_CardinalityType
<1>2. \E f \in [1..N -> S] : IsInjective(f)
  BY <1>1 DEF ExistsBijection, Bijection, Injection
<1>3. at \in [1..N -> S] /\ IsInjective(at)
  BY <1>2 DEF SetToSeq
<1>4. IsFiniteSet(1..N) /\ Cardinality(1..N) = N
  BY <1>1, FS_Interval
<1> HIDE DEF at, N
<1>5. at \in Injection(1..N, S)
  BY <1>3 DEF Injection
<1>6. at \in Surjection(1..N, S)
  BY <1>4, <1>5, FS_Injection DEF N
<1>7. \A m, n \in 1..N : at[m] = at[n] => m = n
  BY <1>3 DEF IsInjective
<1>8. \A x \in S : \E n \in 1..N : at[n] = x
  BY <1>6 DEF Surjection
<1> QED BY <1>1, <1>3, <1>7, <1>8 DEF at, N
=============================================================================
