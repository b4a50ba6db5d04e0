------------------------------ MODULE Sli_proofs ------------------------------
(***************************************************************************)
(* Why the intervals of the derived SLA are the seconds in problem, for    *)
(* every history, window, time of asking and list of spans; why every      *)
(* figure is a count of such seconds, for all lists of intervals; why the  *)
(* windows of a maintenance are the seconds its periods run; why the       *)
(* availability and the noise report say what was down, whatever happened; *)
(* and why a history read in requests that fit is read whole, and once.    *)
(*                                                                         *)
(* The argument, for the lists: what each loop of intervals.ts has put out *)
(* so far is apart and holds the seconds it should of what it has seen;    *)
(* and the lengths of intervals apart add up to how many seconds they hold.*)
(*                                                                         *)
(* For the replay: the state is the same from one event to the next, so    *)
(* the first event, in the window or after it, says what it was before;    *)
(* and up to each event what intervalsFor has put out, with what it holds  *)
(* open, are the seconds in problem so far.                                *)
(*                                                                         *)
(* For the figures: a host that collected whenever another did lacks of    *)
(* the window only its own maintenance, what was declared and the gaps.    *)
(*                                                                         *)
(* For the windows: a day's span that holds a second of the range began on *)
(* a day the loop looks at, and what startsOn divides out is what counting *)
(* the days from the first one gives.                                      *)
(*                                                                         *)
(* For the reports: what an answer said stays so while Zabbix goes on, but *)
(* that the open may be resolved now, and what it lacks is new; joined by  *)
(* id, a problem that is in none of the answers has a recovery that asks   *)
(* for it, or is one that may be missed.                                   *)
(*                                                                         *)
(* For the reading: a window's halves hold its events in their order, so a *)
(* slice is right when those of shorter windows are; and which chunk an    *)
(* item is in, and which window a second, is what a division says.         *)
(***************************************************************************)
EXTENDS SliReplay, SliFigures, SliMaintenance, Incidents, SliFetch, SequenceLemmas, TLAPS

-----------------------------------------------------------------------------
(* The arithmetic of intervals.                                            *)

Intervals == Seq(Int \X Int)

\* Those of a list up to the nth.
SecondsTo(ivs, n) == UNION {ivs[m][1]..ivs[m][2] - 1 : m \in 1..n}

\* In order, none empty, and no two touch.
Apart(ivs) ==
  /\ ivs \in Intervals
  /\ \A n \in 1..Len(ivs) : ivs[n][1] < ivs[n][2]
  /\ \A m, n \in 1..Len(ivs) : m < n => ivs[m][2] < ivs[n][1]

LEMMA IntervalFacts ==
  ASSUME NEW ivs, ivs \in Intervals
  PROVE  /\ Len(ivs) \in Nat /\ DOMAIN ivs = 1..Len(ivs)
         /\ \A n \in 1..Len(ivs) : ivs[n] \in Int \X Int /\ ivs[n][1] \in Int /\ ivs[n][2] \in Int
         /\ Seconds(ivs) = SecondsTo(ivs, Len(ivs))
         /\ \A s : s \in Seconds(ivs) <=>
              \E n \in 1..Len(ivs) : s \in Int /\ ivs[n][1] <= s /\ s < ivs[n][2]
<1>1. /\ Len(ivs) \in Nat /\ DOMAIN ivs = 1..Len(ivs)
      /\ \A n \in 1..Len(ivs) : ivs[n] \in Int \X Int
  BY DEF Intervals
<1>2. \A n \in 1..Len(ivs) : ivs[n][1] \in Int /\ ivs[n][2] \in Int
  BY <1>1
<1>3. ASSUME NEW s PROVE s \in Seconds(ivs) <=>
        \E n \in 1..Len(ivs) : s \in Int /\ ivs[n][1] <= s /\ s < ivs[n][2]
  <2>1. s \in Seconds(ivs) <=> \E n \in 1..Len(ivs) : s \in ivs[n][1]..ivs[n][2] - 1
    BY DEF Seconds
  <2>2. \A n \in 1..Len(ivs) : s \in ivs[n][1]..ivs[n][2] - 1 <=>
                                 s \in Int /\ ivs[n][1] <= s /\ s < ivs[n][2]
    BY <1>2
  <2> QED BY <2>1, <2>2
<1>4. Seconds(ivs) = SecondsTo(ivs, Len(ivs))
  BY DEF Seconds, SecondsTo
<1> QED BY <1>1, <1>2, <1>3, <1>4

LEMMA SecondsOfMore ==
  ASSUME NEW ivs, ivs \in Intervals, NEW n \in 1..Len(ivs)
  PROVE  /\ SecondsTo(ivs, 0) = {}
         /\ SecondsTo(ivs, n) = SecondsTo(ivs, n - 1) \cup (ivs[n][1]..ivs[n][2] - 1)
<1>1. Len(ivs) \in Nat
  BY IntervalFacts
<1>2. \A m : m \in 1..n <=> m \in 1..(n - 1) \/ m = n
  BY <1>1
<1>3. 1..0 = {}
  OBVIOUS
<1> QED BY <1>2, <1>3 DEF SecondsTo

-----------------------------------------------------------------------------
(* Lists that grow by one.                                                 *)

Addable(out, a, b) == out \in Intervals /\ a \in Int /\ b \in Int

LEMMA OneMore ==
  ASSUME NEW out, NEW a, NEW b, Addable(out, a, b)
  PROVE  /\ Append(out, <<a, b>>) \in Intervals
         /\ Len(Append(out, <<a, b>>)) = Len(out) + 1
         /\ \A n \in 1..Len(out) : Append(out, <<a, b>>)[n] = out[n]
         /\ Append(out, <<a, b>>)[Len(out) + 1] = <<a, b>>
         /\ Seconds(Append(out, <<a, b>>)) = Seconds(out) \cup (a..b - 1)
<1> DEFINE more == Append(out, <<a, b>>)
<1>1. out \in Intervals /\ a \in Int /\ b \in Int /\ Len(out) \in Nat
  BY IntervalFacts DEF Addable
<1>2. /\ more \in Intervals
      /\ Len(more) = Len(out) + 1
      /\ \A n \in 1..Len(out) : more[n] = out[n]
      /\ more[Len(out) + 1] = <<a, b>>
  BY <1>1, AppendProperties DEF Intervals
<1> HIDE DEF more
<1>3. Seconds(more) = Seconds(out) \cup (a..b - 1)
  <2>1. ASSUME NEW s PROVE s \in Seconds(more) <=> s \in Seconds(out) \/ s \in a..b - 1
    <3>1. s \in Seconds(more) <=>
            \E n \in 1..(Len(out) + 1) : s \in Int /\ more[n][1] <= s /\ s < more[n][2]
      BY <1>2, IntervalFacts
    <3>2. s \in Seconds(out) <=>
            \E n \in 1..Len(out) : s \in Int /\ out[n][1] <= s /\ s < out[n][2]
      BY <1>1, IntervalFacts
    <3>3. \A n : n \in 1..(Len(out) + 1) <=> n \in 1..Len(out) \/ n = Len(out) + 1
      BY <1>1
    <3>4. s \in a..b - 1 <=> s \in Int /\ more[Len(out) + 1][1] <= s /\ s < more[Len(out) + 1][2]
      BY <1>1, <1>2
    <3> QED BY <1>2, <3>1, <3>2, <3>3, <3>4
  <2> QED BY <2>1
<1> QED BY <1>2, <1>3 DEF more

\* Apart stays so with one that begins after the others have ended.
LEMMA OneMoreApart ==
  ASSUME NEW out, NEW a, NEW b, Addable(out, a, b), Apart(out), a < b,
         \A n \in 1..Len(out) : out[n][2] < a
  PROVE  Apart(Append(out, <<a, b>>))
<1> DEFINE new == Append(out, <<a, b>>)
           N == Len(out)
<1>1. /\ new \in Intervals /\ Len(new) = N + 1 /\ new[N + 1] = <<a, b>>
      /\ \A m \in 1..N : new[m] = out[m]
  BY OneMore
<1>2. /\ N \in Nat
      /\ \A m \in 1..N : out[m][1] < out[m][2]
      /\ \A l, m \in 1..N : l < m => out[l][2] < out[m][1]
  BY IntervalFacts DEF Apart
<1> HIDE DEF new, N
<1>3. \A m : m \in 1..(N + 1) <=> m \in 1..N \/ m = N + 1
  BY <1>2
<1>4. \A m \in 1..(N + 1) : new[m][1] < new[m][2]
  <2> SUFFICES ASSUME NEW m \in 1..(N + 1) PROVE new[m][1] < new[m][2]
    OBVIOUS
  <2>1. CASE m \in 1..N
    BY <1>1, <1>2, <2>1
  <2>2. CASE m = N + 1
    BY <1>1, <2>2
  <2> QED BY <1>3, <2>1, <2>2
<1>5. \A l, m \in 1..(N + 1) : l < m => new[l][2] < new[m][1]
  <2> SUFFICES ASSUME NEW l \in 1..(N + 1), NEW m \in 1..(N + 1), l < m PROVE new[l][2] < new[m][1]
    OBVIOUS
  <2>1. l \in 1..N /\ new[l] = out[l]
    BY <1>1, <1>2, <1>3
  <2>2. CASE m \in 1..N
    BY <1>1, <1>2, <2>1, <2>2
  <2>3. CASE m = N + 1
    <3>1. out[l][2] < a
      BY <2>1 DEF N
    <3> QED BY <1>1, <2>1, <2>3, <3>1
  <2> QED BY <1>3, <2>2, <2>3
<1>6. Apart(new)
  BY <1>1, <1>4, <1>5 DEF Apart
<1> QED BY <1>6 DEF new

-----------------------------------------------------------------------------
(* mergeIntervals.                                                         *)

LEMMA NonEmptyKeeps ==
  ASSUME NEW ivs, ivs \in Intervals
  PROVE  /\ NonEmpty(ivs) \in Intervals
         /\ \A n \in 1..Len(NonEmpty(ivs)) : NonEmpty(ivs)[n][1] < NonEmpty(ivs)[n][2]
         /\ Seconds(NonEmpty(ivs)) = Seconds(ivs)
<1> DEFINE places == {n \in 1..Len(ivs) : ivs[n][1] < ivs[n][2]}
           kept == NonEmpty(ivs)
<1>1. kept = KeptEntries(ivs, places) /\ ivs \in Seq(Int \X Int) /\ places \in SUBSET (1..Len(ivs))
  BY DEF NonEmpty, Intervals
<1>2. \A n \in places : n \in 1..Len(ivs) /\ ivs[n][1] < ivs[n][2]
  OBVIOUS
<1>3. \A n \in 1..Len(ivs) : ivs[n][1] < ivs[n][2] => n \in places
  OBVIOUS
<1> HIDE DEF kept, places
<1>4. kept \in Intervals /\ \E at : TakenFrom(ivs, places, kept, at)
  BY <1>1, KeptProperties DEF Intervals
<1>5. PICK at : TakenFrom(ivs, places, kept, at)
  BY <1>4
<1>6. /\ \A n \in 1..Len(kept) : at[n] \in places /\ kept[n] = ivs[at[n]]
      /\ \A i \in places : \E n \in 1..Len(kept) : at[n] = i
  BY <1>5 DEF TakenFrom
<1>7. \A n \in 1..Len(kept) : kept[n][1] < kept[n][2]
  BY <1>2, <1>6
<1>8. ASSUME NEW s PROVE s \in Seconds(kept) <=> s \in Seconds(ivs)
  <2>1. ASSUME s \in Seconds(kept) PROVE s \in Seconds(ivs)
    <3>1. PICK n \in 1..Len(kept) : s \in Int /\ kept[n][1] <= s /\ s < kept[n][2]
      BY <1>4, <2>1, IntervalFacts
    <3>2. at[n] \in 1..Len(ivs) /\ kept[n] = ivs[at[n]]
      BY <1>2, <1>6
    <3> QED BY <3>1, <3>2, IntervalFacts
  <2>2. ASSUME s \in Seconds(ivs) PROVE s \in Seconds(kept)
    <3>1. PICK n \in 1..Len(ivs) : s \in Int /\ ivs[n][1] <= s /\ s < ivs[n][2]
      BY <2>2, IntervalFacts
    <3>2. ivs[n][1] < ivs[n][2]
      BY <3>1, IntervalFacts
    <3>3. PICK k \in 1..Len(kept) : at[k] = n /\ kept[k] = ivs[n]
      BY <1>3, <1>6, <3>2
    <3> QED BY <1>4, <3>1, <3>3, IntervalFacts
  <2> QED BY <2>1, <2>2
<1> QED BY <1>4, <1>7, <1>8 DEF kept

TotalOrder(N, R) ==
  /\ N \in Nat
  /\ \A n \in 1..N : <<n, n>> \in R
  /\ \A m, n \in 1..N : <<m, n>> \in R \/ <<n, m>> \in R
  /\ \A m, n \in 1..N : <<m, n>> \in R /\ <<n, m>> \in R => m = n
  /\ \A l, m, n \in 1..N : <<l, m>> \in R /\ <<m, n>> \in R => <<l, n>> \in R

UpTo(N, R, n) == {m \in 1..N : <<m, n>> \in R}

\* In a total order of N, to be the kth is to have k up to oneself.
LEMMA RankedOnce ==
  ASSUME NEW N, NEW R, TotalOrder(N, R)
  PROVE  /\ \A n \in 1..N : Cardinality(UpTo(N, R, n)) \in 1..N
         /\ \A m, n \in 1..N : Cardinality(UpTo(N, R, m)) <= Cardinality(UpTo(N, R, n)) => <<m, n>> \in R
         /\ \A k \in 1..N : \E n \in 1..N : Cardinality(UpTo(N, R, n)) = k
<1> DEFINE rank == [n \in 1..N |-> Cardinality(UpTo(N, R, n))]
<1>1. /\ N \in Nat /\ IsFiniteSet(1..N) /\ Cardinality(1..N) = N
  BY FS_Interval DEF TotalOrder
<1>2. ASSUME NEW n \in 1..N
      PROVE  UpTo(N, R, n) \in SUBSET (1..N) /\ IsFiniteSet(UpTo(N, R, n)) /\ n \in UpTo(N, R, n)
             /\ Cardinality(UpTo(N, R, n)) \in 1..N
  <2>1. UpTo(N, R, n) \in SUBSET (1..N) /\ n \in UpTo(N, R, n)
    BY DEF UpTo, TotalOrder
  <2>2. IsFiniteSet(UpTo(N, R, n)) /\ Cardinality(UpTo(N, R, n)) <= N
    BY <1>1, <2>1, FS_Subset
  <2>3. Cardinality(UpTo(N, R, n)) \in Nat /\ Cardinality(UpTo(N, R, n)) # 0
    BY <2>1, <2>2, FS_CardinalityType, FS_EmptySet
  <2> QED BY <1>1, <2>1, <2>2, <2>3
<1>3. ASSUME NEW m \in 1..N, NEW n \in 1..N, <<m, n>> \notin R
      PROVE  Cardinality(UpTo(N, R, n)) < Cardinality(UpTo(N, R, m))
  <2>1. <<n, m>> \in R
    BY <1>3 DEF TotalOrder
  <2>2. UpTo(N, R, n) \in SUBSET UpTo(N, R, m) /\ m \notin UpTo(N, R, n)
    BY <1>3, <2>1 DEF UpTo, TotalOrder
  <2>3. UpTo(N, R, n) # UpTo(N, R, m)
    BY <1>2, <2>2
  <2>4. Cardinality(UpTo(N, R, n)) <= Cardinality(UpTo(N, R, m))
        /\ Cardinality(UpTo(N, R, m)) # Cardinality(UpTo(N, R, n))
    BY <1>2, <2>2, <2>3, FS_Subset
  <2> QED BY <1>2, <2>4
<1>4. \A m, n \in 1..N : Cardinality(UpTo(N, R, m)) <= Cardinality(UpTo(N, R, n)) => <<m, n>> \in R
  <2> SUFFICES ASSUME NEW m \in 1..N, NEW n \in 1..N, <<m, n>> \notin R,
                      Cardinality(UpTo(N, R, m)) <= Cardinality(UpTo(N, R, n))
               PROVE  FALSE
    OBVIOUS
  <2>1. Cardinality(UpTo(N, R, n)) < Cardinality(UpTo(N, R, m))
    BY <1>3
  <2>2. Cardinality(UpTo(N, R, n)) \in Nat /\ Cardinality(UpTo(N, R, m)) \in Nat
    BY <1>2
  <2> QED BY <2>1, <2>2
<1>5. rank \in Injection(1..N, 1..N)
  <2>1. rank \in [1..N -> 1..N]
    BY <1>2
  <2>2. ASSUME NEW m \in 1..N, NEW n \in 1..N, rank[m] = rank[n] PROVE m = n
    <3>1. Cardinality(UpTo(N, R, m)) = Cardinality(UpTo(N, R, n)) /\ Cardinality(UpTo(N, R, n)) \in Nat
      BY <1>2, <2>2
    <3>2. <<m, n>> \in R /\ <<n, m>> \in R
      BY <1>4, <3>1
    <3> QED BY <3>2 DEF TotalOrder
  <2> QED BY <2>1, <2>2 DEF Injection, IsInjective
<1>6. rank \in Surjection(1..N, 1..N)
  BY <1>1, <1>5, FS_Injection
<1>7. \A k \in 1..N : \E n \in 1..N : Cardinality(UpTo(N, R, n)) = k
  BY <1>6 DEF Surjection
<1> QED BY <1>2, <1>4, <1>7

\* Sorting changes the order only, to that of the starts.
LEMMA SortedByStart ==
  ASSUME NEW ivs, ivs \in Intervals
  PROVE  /\ ByStart(ivs) \in Intervals /\ Len(ByStart(ivs)) = Len(ivs)
         /\ \A k \in 1..Len(ivs) : \E n \in 1..Len(ivs) : ByStart(ivs)[k] = ivs[n]
         /\ \A j, k \in 1..Len(ivs) : j <= k => ByStart(ivs)[j][1] <= ByStart(ivs)[k][1]
         /\ Seconds(ByStart(ivs)) = Seconds(ivs)
<1> DEFINE N == Len(ivs)
           before(m, n) == ivs[m][1] < ivs[n][1] \/ (ivs[m][1] = ivs[n][1] /\ m <= n)
           R == {p \in (1..N) \X (1..N) : before(p[1], p[2])}
           upTo(n) == {m \in 1..N : before(m, n)}
           nth(k) == CHOOSE n \in 1..N : Cardinality(upTo(n)) = k
           sorted == ByStart(ivs)
<1>1. N \in Nat /\ \A n \in 1..N : ivs[n] \in Int \X Int /\ ivs[n][1] \in Int /\ ivs[n][2] \in Int
  BY IntervalFacts
<1>2. sorted = [k \in 1..N |-> ivs[nth(k)]]
  BY DEF ByStart
<1>3. \A m, n \in 1..N : <<m, n>> \in R <=> before(m, n)
  OBVIOUS
<1>4. TotalOrder(N, R)
  <2> HIDE DEF R
  <2> HIDE DEF N
  <2>1. ASSUME NEW l \in 1..N, NEW m \in 1..N, NEW n \in 1..N
        PROVE  /\ before(n, n)
               /\ before(m, n) \/ before(n, m)
               /\ before(m, n) /\ before(n, m) => m = n
               /\ before(l, m) /\ before(m, n) => before(l, n)
    <3>1. l \in Nat /\ m \in Nat /\ n \in Nat /\ ivs[l][1] \in Int /\ ivs[m][1] \in Int /\ ivs[n][1] \in Int
      BY <1>1
    <3> QED BY <3>1
  <2> HIDE DEF before
  <2>2. \A n \in 1..N : <<n, n>> \in R
    BY <1>3, <2>1
  <2>3. \A m, n \in 1..N : <<m, n>> \in R \/ <<n, m>> \in R
    BY <1>3, <2>1
  <2>4. \A m, n \in 1..N : <<m, n>> \in R /\ <<n, m>> \in R => m = n
    BY <1>3, <2>1
  <2>5. \A l, m, n \in 1..N : <<l, m>> \in R /\ <<m, n>> \in R => <<l, n>> \in R
    BY <1>3, <2>1
  <2> QED BY <1>1, <2>2, <2>3, <2>4, <2>5 DEF TotalOrder
<1>5. \A n \in 1..N : upTo(n) = UpTo(N, R, n)
  BY <1>3 DEF UpTo
<1> HIDE DEF R, upTo, sorted
<1>6. /\ \A m, n \in 1..N : Cardinality(upTo(m)) <= Cardinality(upTo(n)) => before(m, n)
      /\ \A k \in 1..N : \E n \in 1..N : Cardinality(upTo(n)) = k
      /\ \A n \in 1..N : Cardinality(upTo(n)) \in 1..N
  <2>1. /\ \A n \in 1..N : Cardinality(UpTo(N, R, n)) \in 1..N
        /\ \A m, n \in 1..N : Cardinality(UpTo(N, R, m)) <= Cardinality(UpTo(N, R, n)) => <<m, n>> \in R
        /\ \A k \in 1..N : \E n \in 1..N : Cardinality(UpTo(N, R, n)) = k
    BY <1>4, RankedOnce
  <2> QED BY <1>3, <1>5, <2>1
<1>7. \A k \in 1..N : nth(k) \in 1..N /\ Cardinality(upTo(nth(k))) = k
  BY <1>6
<1> HIDE DEF nth, N
<1>8. /\ sorted \in Seq(Int \X Int) /\ Len(sorted) = N
      /\ \A k \in 1..N : sorted[k] = ivs[nth(k)] /\ nth(k) \in 1..N
  BY <1>1, <1>2, <1>7
<1>9. \A j, k \in 1..N : j <= k => sorted[j][1] <= sorted[k][1]
  <2> SUFFICES ASSUME NEW j \in 1..N, NEW k \in 1..N, j <= k PROVE ivs[nth(j)][1] <= ivs[nth(k)][1]
    BY <1>8
  <2>1. before(nth(j), nth(k))
    BY <1>6, <1>7
  <2> QED BY <1>1, <1>7, <2>1
<1>10. ASSUME NEW n \in 1..N PROVE \E k \in 1..N : nth(k) = n
  <2> DEFINE k == Cardinality(upTo(n))
  <2>1. k \in 1..N /\ nth(k) \in 1..N /\ Cardinality(upTo(nth(k))) = k
    BY <1>6, <1>7
  <2>2. before(nth(k), n) /\ before(n, nth(k))
    BY <1>6, <2>1
  <2>3. nth(k) = n
    BY <1>1, <2>1, <2>2
  <2> QED BY <2>1, <2>3
<1>11. ASSUME NEW s PROVE s \in Seconds(sorted) <=> s \in Seconds(ivs)
  <2>1. s \in Seconds(sorted) <=> \E k \in 1..N : s \in Int /\ sorted[k][1] <= s /\ s < sorted[k][2]
    BY <1>8, IntervalFacts DEF Intervals
  <2>2. s \in Seconds(ivs) <=> \E n \in 1..N : s \in Int /\ ivs[n][1] <= s /\ s < ivs[n][2]
    BY IntervalFacts DEF N
  <2>3. ASSUME NEW k \in 1..N, s \in Int, sorted[k][1] <= s, s < sorted[k][2] PROVE s \in Seconds(ivs)
    <3>1. nth(k) \in 1..N /\ sorted[k] = ivs[nth(k)]
      BY <1>8
    <3> QED BY <2>2, <2>3, <3>1
  <2>4. ASSUME NEW n \in 1..N, s \in Int, ivs[n][1] <= s, s < ivs[n][2] PROVE s \in Seconds(sorted)
    <3>1. PICK k \in 1..N : sorted[k] = ivs[n]
      BY <1>8, <1>10
    <3> QED BY <2>1, <2>4, <3>1
  <2> QED BY <2>1, <2>2, <2>3, <2>4
<1> QED BY <1>8, <1>9, <1>11 DEF sorted, N, Intervals

\* A list as mergeIntervals walks it.
InOrder(s) ==
  /\ s \in Intervals
  /\ \A n \in 1..Len(s) : s[n][1] < s[n][2]
  /\ \A m, n \in 1..Len(s) : m <= n => s[m][1] <= s[n][1]

\* What it has after n of them.
JoinedTo(s, n, out) ==
  /\ Apart(out)
  /\ Seconds(out) = SecondsTo(s, n)
  /\ out # <<>> => out[Len(out)][1] <= s[n][1] /\ n # 0

LEMMA FrontOf ==
  ASSUME NEW out, out \in Intervals, out # <<>>
  PROVE  /\ Len(out) \in Nat \ {0} /\ Last(out) = out[Len(out)]
         /\ Front(out) \in Intervals /\ Len(Front(out)) = Len(out) - 1
         /\ \A n \in 1..(Len(out) - 1) : Front(out)[n] = out[n]
         /\ Seconds(out) = Seconds(Front(out)) \cup (Last(out)[1]..Last(out)[2] - 1)
<1> DEFINE f == Front(out)
           N == Len(out)
<1>1. \A n \in 1..N : out[n] \in Int \X Int /\ out[n][1] \in Int /\ out[n][2] \in Int
  BY IntervalFacts
<1>2. out \in Seq(Int \X Int)
  BY DEF Intervals
<1>3. /\ N \in Nat \ {0} /\ Last(out) = out[N]
      /\ f \in Intervals /\ Len(f) = N - 1 /\ \A n \in 1..(N - 1) : f[n] = out[n]
  BY <1>2, FrontProperties DEF Intervals
<1> HIDE DEF f
<1>4. ASSUME NEW s PROVE s \in Seconds(out) <=> s \in Seconds(f) \/ s \in Last(out)[1]..Last(out)[2] - 1
  <2>1. s \in Seconds(out) <=> \E n \in 1..N : s \in Int /\ out[n][1] <= s /\ s < out[n][2]
    BY IntervalFacts
  <2>2. s \in Seconds(f) <=> \E n \in 1..(N - 1) : s \in Int /\ f[n][1] <= s /\ s < f[n][2]
    BY <1>3, IntervalFacts
  <2>3. \A n : n \in 1..N <=> n \in 1..(N - 1) \/ n = N
    BY <1>3
  <2>4. s \in Last(out)[1]..Last(out)[2] - 1 <=> s \in Int /\ out[N][1] <= s /\ s < out[N][2]
    BY <1>1, <1>3
  <2> QED BY <1>3, <2>1, <2>2, <2>3, <2>4
<1> QED BY <1>3, <1>4 DEF f

LEMMA JoinedType ==
  ASSUME NEW out \in Intervals, NEW i \in Int \X Int
  PROVE  Joined(out, i) \in Intervals
<1>1. i[1] \in Int /\ i[2] \in Int
  OBVIOUS
<1>2. CASE out # <<>> /\ i[1] <= Last(out)[2]
  <2> DEFINE f == Front(out)
             e == Greater(Last(out)[2], i[2])
  <2>1. f \in Intervals /\ Last(out)[1] \in Int /\ Last(out)[2] \in Int
    <3>1. f \in Intervals /\ Last(out) = out[Len(out)] /\ Len(out) \in 1..Len(out)
      BY <1>2, FrontOf
    <3> QED BY <3>1, IntervalFacts
  <2>2. e \in Int
    BY <1>1, <2>1 DEF Greater
  <2>3. Joined(out, i) = Append(f, <<Last(out)[1], e>>)
    BY <1>2 DEF Joined
  <2> HIDE DEF f, e
  <2> QED BY <2>1, <2>2, <2>3, OneMore DEF Addable
<1>3. CASE ~(out # <<>> /\ i[1] <= Last(out)[2])
  <2>1. Joined(out, i) = Append(out, i) /\ i = <<i[1], i[2]>>
    BY <1>3 DEF Joined
  <2> QED BY <1>1, <2>1, OneMore DEF Addable
<1> QED BY <1>2, <1>3

LEMMA JoinedGoesOn ==
  ASSUME NEW s, InOrder(s), NEW n \in 1..Len(s), NEW out, JoinedTo(s, n - 1, out)
  PROVE  JoinedTo(s, n, Joined(out, s[n]))
<1> DEFINE a == s[n][1]
           b == s[n][2]
           N == Len(out)
           more == Joined(out, s[n])
<1>1. /\ s[n] = <<a, b>> /\ a \in Int /\ b \in Int /\ a < b /\ n \in Nat /\ n # 0
      /\ SecondsTo(s, n) = SecondsTo(s, n - 1) \cup (a..b - 1)
  BY IntervalFacts, SecondsOfMore DEF InOrder
<1>2. /\ Apart(out) /\ out \in Intervals /\ Seconds(out) = SecondsTo(s, n - 1)
      /\ N \in Nat
      /\ \A m \in 1..N : out[m][1] \in Int /\ out[m][2] \in Int
      /\ \A m \in 1..N : out[m][1] < out[m][2]
      /\ \A l, m \in 1..N : l < m => out[l][2] < out[m][1]
  BY IntervalFacts DEF JoinedTo, Apart
<1>3. out # <<>> => N # 0 /\ out[N][1] <= a
  <2> SUFFICES ASSUME out # <<>> PROVE N # 0 /\ out[N][1] <= a
    OBVIOUS
  <2>1. out[N][1] <= s[n - 1][1] /\ n - 1 # 0
    BY DEF JoinedTo
  <2>2. n - 1 \in 1..Len(s) /\ n - 1 <= n
    BY <1>1, <2>1
  <2>3. s[n - 1][1] <= a /\ s[n - 1][1] \in Int
    BY <2>2, IntervalFacts DEF InOrder
  <2>4. N # 0
    BY <1>2, FrontOf
  <2> QED BY <1>1, <1>2, <2>1, <2>3, <2>4
<1> HIDE DEF a, b, N, more
<1>4. CASE out # <<>> /\ a <= Last(out)[2]
  <2> DEFINE f == Front(out)
             la == out[N][1]
             lb == out[N][2]
             e == Greater(lb, b)
             new == Append(f, <<la, e>>)
  <2>1. /\ N \in 1..N /\ Last(out) = out[N]
        /\ f \in Intervals /\ Len(f) = N - 1 /\ \A m \in 1..(N - 1) : f[m] = out[m]
        /\ Seconds(out) = Seconds(f) \cup (la..lb - 1)
    BY <1>2, <1>4, FrontOf DEF N
  <2>2. la \in Int /\ lb \in Int /\ la < lb /\ la <= a /\ a <= lb
    BY <1>2, <1>3, <1>4, <2>1
  <2>3. e \in Int /\ lb <= e /\ b <= e /\ (e = lb \/ e = b)
    BY <1>1, <2>2 DEF Greater
  <2>4. more = new
    BY <1>1, <1>4, <2>1 DEF Joined, more, a
  <2> HIDE DEF f, e, la, lb, new
  <2>5. /\ new \in Intervals /\ Len(new) = N /\ new[N] = <<la, e>>
        /\ \A m \in 1..(N - 1) : new[m] = out[m]
        /\ Seconds(new) = Seconds(f) \cup (la..e - 1)
    <3>1. Addable(f, la, e)
      BY <2>1, <2>2, <2>3 DEF Addable
    <3> QED BY <1>2, <2>1, <3>1, OneMore DEF new
  <2>6. la..e - 1 = (la..lb - 1) \cup (a..b - 1)
    BY <1>1, <2>2, <2>3
  <2>7. Seconds(new) = SecondsTo(s, n)
    BY <1>1, <1>2, <2>1, <2>5, <2>6
  <2>8. \A m \in 1..N : m = N \/ m \in 1..(N - 1)
    BY <1>2
  <2>9. \A m \in 1..N : new[m][1] = out[m][1] /\ (m # N => new[m][2] = out[m][2])
    BY <2>5, <2>8 DEF la
  <2>10. \A m \in 1..N : new[m][1] < new[m][2]
    BY <1>2, <2>2, <2>3, <2>5, <2>9
  <2>11. ASSUME NEW l \in 1..N, NEW m \in 1..N, l < m PROVE new[l][2] < new[m][1]
    <3>1. l # N /\ out[l][2] < out[m][1]
      BY <1>2, <2>11
    <3> QED BY <2>9, <3>1
  <2>12. Apart(new)
    BY <2>5, <2>10, <2>11 DEF Apart
  <2> QED BY <1>1, <2>2, <2>4, <2>5, <2>7, <2>12 DEF JoinedTo, more, a
<1>5. CASE ~(out # <<>> /\ a <= Last(out)[2])
  <2> DEFINE new == Append(out, <<a, b>>)
  <2>1. more = new
    BY <1>1, <1>5 DEF Joined, more, a
  <2> HIDE DEF new
  <2>2. /\ new \in Intervals /\ Len(new) = N + 1 /\ new[N + 1] = <<a, b>>
        /\ \A m \in 1..N : new[m] = out[m]
        /\ Seconds(new) = Seconds(out) \cup (a..b - 1)
    <3>1. Addable(out, a, b)
      BY <1>1, <1>2 DEF Addable
    <3> QED BY <3>1, OneMore DEF new, N
  <2>3. ASSUME NEW m \in 1..N PROVE out[m][2] < a
    <3>1. out # <<>>
      <4>1. out = <<>> => N = 0
        BY DEF N
      <4> QED BY <4>1
    <3>2. Last(out) = out[N] /\ N \in 1..N
      BY <1>2, <3>1, FrontOf DEF N
    <3>3. out[N][2] < a
      BY <1>1, <1>2, <1>5, <3>1, <3>2
    <3>4. m = N \/ out[m][2] < out[N][1]
      BY <1>2, <3>2
    <3> QED BY <1>1, <1>2, <3>2, <3>3, <3>4
  <2>4. Apart(new)
    BY <1>1, <1>2, <2>3, OneMoreApart DEF Addable, new, N
  <2>5. Seconds(new) = SecondsTo(s, n)
    BY <1>1, <1>2, <2>2
  <2> QED BY <1>1, <2>1, <2>2, <2>4, <2>5 DEF JoinedTo, more, a
<1> QED BY <1>4, <1>5

\* mergeIntervals, interval by interval.
LEMMA JoiningRuns ==
  ASSUME NEW s \in Seq((Int \X Int)), NEW base \in Intervals
  PROVE  \E run : /\ run[0] = base
                  /\ \A n \in 1..Len(s) : run[n] = Joined(run[n - 1], s[n])
                  /\ FoldLeft(Joined, base, s) = run[Len(s)]
<1> DEFINE N == Len(s)
           next == [p \in (1..N) \X Intervals |-> Joined(p[2], s[p[1]])]
           Folds(g) == g = [S \in SUBSET (1..N) |->
                              IF S = {} THEN base ELSE Joined(g[S \ {Max(S)}], s[Max(S)])]
           iter == CHOOSE g : Folds(g)
           run == [n \in 0..N |-> iter[1..n]]
<1>1. N \in Nat /\ DOMAIN s = 1..N /\ \A n \in 1..N : s[n] \in (Int \X Int)
  OBVIOUS
<1>2. \A n \in 1..N, a \in Intervals : next[<<n, a>>] = Joined(a, s[n]) /\ next[<<n, a>>] \in Intervals
  <2>1. ASSUME NEW n \in 1..N, NEW a \in Intervals
        PROVE  next[<<n, a>>] = Joined(a, s[n]) /\ Joined(a, s[n]) \in Intervals
    BY <1>1, JoinedType
  <2> HIDE DEF next
  <2> QED BY <2>1
<1>3. FoldLeft(Joined, base, s) = iter[1..N]
  BY <1>1 DEF FoldLeft, MapThenFoldSet
<1> HIDE DEF N, next
<1>4. PICK it : Folded(it, N, Intervals, base, next)
  BY <1>1, <1>2, FoldExists DEF Steps
<1>5. Folds(it)
  <2>1. ASSUME NEW S \in SUBSET (1..N), S # {} PROVE it[S] = Joined(it[S \ {Max(S)}], s[Max(S)])
    <3>1. Max(S) \in 1..N /\ it[S \ {Max(S)}] \in Intervals /\ it[S] = next[<<Max(S), it[S \ {Max(S)}]>>]
      BY <1>4, <2>1 DEF Folded
    <3> QED BY <1>2, <3>1
  <2>2. it = [S \in SUBSET (1..N) |-> it[S]] /\ it[{}] = base
    BY <1>4 DEF Folded
  <2> QED BY <2>1, <2>2
<1>6. Folds(iter)
  <2> HIDE DEF Folds
  <2> QED BY <1>5
<1> HIDE DEF iter
<1>7. iter[1..0] = base
  BY <1>6, Beginnings
<1>8. ASSUME NEW n \in 1..N PROVE iter[1..n] = Joined(iter[1..(n - 1)], s[n])
  <2>1. n \in Nat /\ n # 0 /\ 1..n \in SUBSET (1..N)
    BY <1>1
  <2>2. 1..n # {} /\ Max(1..n) = n /\ (1..n) \ {n} = 1..(n - 1)
    BY <2>1, Beginnings
  <2> QED BY <1>6, <2>1, <2>2
<1>9. run[0] = base /\ run[N] = iter[1..N] /\ \A n \in 1..N : run[n] = Joined(run[n - 1], s[n])
  BY <1>1, <1>7, <1>8
<1> QED BY <1>3, <1>9 DEF N

\* mergeIntervals: whatever order a list is in and however its intervals overlap
\* or touch, what becomes of it is in order, apart, and of the same seconds.
THEOREM MergedStayApart ==
  ASSUME NEW ivs, ivs \in Intervals
  PROVE  Apart(Merged(ivs)) /\ Merged(ivs) \in Intervals /\ Seconds(Merged(ivs)) = Seconds(ivs)
<1> DEFINE kept == NonEmpty(ivs)
           s == ByStart(kept)
           N == Len(s)
<1>1. /\ kept \in Intervals
      /\ \A n \in 1..Len(kept) : kept[n][1] < kept[n][2]
      /\ Seconds(kept) = Seconds(ivs)
  BY NonEmptyKeeps
<1>2. /\ s \in Intervals /\ N = Len(kept)
      /\ \A k \in 1..N : \E n \in 1..N : s[k] = kept[n]
      /\ \A j, k \in 1..N : j <= k => s[j][1] <= s[k][1]
      /\ Seconds(s) = Seconds(ivs)
  <2> HIDE DEF kept
  <2>1. /\ s \in Intervals /\ N = Len(kept)
        /\ \A k \in 1..Len(kept) : \E n \in 1..Len(kept) : s[k] = kept[n]
        /\ \A j, k \in 1..Len(kept) : j <= k => s[j][1] <= s[k][1]
        /\ Seconds(s) = Seconds(kept)
    BY <1>1, SortedByStart
  <2> QED BY <1>1, <2>1
<1>3. InOrder(s) /\ N \in Nat /\ Seconds(ivs) = SecondsTo(s, N)
  <2>1. \A k \in 1..N : s[k][1] < s[k][2]
    BY <1>1, <1>2
  <2> QED BY <1>2, <2>1, IntervalFacts DEF InOrder
<1>4. Merged(ivs) = FoldLeft(Joined, <<>>, s)
  BY DEF Merged
<1> HIDE DEF s, kept
<1>5. s \in Seq(Int \X Int) /\ <<>> \in Intervals
  BY <1>2 DEF Intervals
<1>6. PICK run : /\ run[0] = <<>>
                 /\ \A n \in 1..N : run[n] = Joined(run[n - 1], s[n])
                 /\ FoldLeft(Joined, <<>>, s) = run[N]
  BY <1>5, JoiningRuns
<1> DEFINE Fine == {n \in 0..N : JoinedTo(s, n, run[n])}
<1>7. 0 \in Fine
  <2>1. SecondsTo(s, 0) = {}
    BY DEF SecondsTo
  <2>2. Apart(<<>>) /\ Seconds(<<>>) = {}
    BY <1>5 DEF Apart, Seconds
  <2>3. JoinedTo(s, 0, <<>>)
    BY <2>1, <2>2 DEF JoinedTo
  <2> QED BY <1>3, <1>6, <2>3
<1>8. ASSUME NEW n \in 1..N, n - 1 \in Fine PROVE n \in Fine
  <2>1. JoinedTo(s, n, Joined(run[n - 1], s[n]))
    BY <1>3, <1>8, JoinedGoesOn
  <2> QED BY <1>3, <1>6, <2>1
<1>9. N \in Fine
  <2> HIDE DEF Fine, N
  <2>1. \A n \in 0..N : n \in Fine
    BY <1>3, <1>7, <1>8, Onwards
  <2> QED BY <1>3, <2>1
<1>10. JoinedTo(s, N, Merged(ivs))
  BY <1>4, <1>6, <1>9 DEF Fine
<1> QED BY <1>3, <1>10 DEF JoinedTo, Apart

-----------------------------------------------------------------------------
(* totalSeconds, clipIntervals.                                            *)

LEMMA LongerType ==
  ASSUME NEW n \in Int, NEW i \in Int \X Int
  PROVE  Longer(n, i) \in Int
<1>1. i[1] \in Int /\ i[2] \in Int
  OBVIOUS
<1> QED BY <1>1 DEF Longer


\* totalSeconds, interval by interval.
LEMMA LongerRuns ==
  ASSUME NEW s \in Seq((Int \X Int)), NEW base \in Int
  PROVE  \E run : /\ run[0] = base
                  /\ \A n \in 1..Len(s) : run[n] = Longer(run[n - 1], s[n])
                  /\ FoldLeft(Longer, base, s) = run[Len(s)]
<1> DEFINE N == Len(s)
           next == [p \in (1..N) \X Int |-> Longer(p[2], s[p[1]])]
           Folds(g) == g = [S \in SUBSET (1..N) |->
                              IF S = {} THEN base ELSE Longer(g[S \ {Max(S)}], s[Max(S)])]
           iter == CHOOSE g : Folds(g)
           run == [n \in 0..N |-> iter[1..n]]
<1>1. N \in Nat /\ DOMAIN s = 1..N /\ \A n \in 1..N : s[n] \in (Int \X Int)
  OBVIOUS
<1>2. \A n \in 1..N, a \in Int : next[<<n, a>>] = Longer(a, s[n]) /\ next[<<n, a>>] \in Int
  <2>1. ASSUME NEW n \in 1..N, NEW a \in Int
        PROVE  next[<<n, a>>] = Longer(a, s[n]) /\ Longer(a, s[n]) \in Int
    BY <1>1, LongerType
  <2> HIDE DEF next
  <2> QED BY <2>1
<1>3. FoldLeft(Longer, base, s) = iter[1..N]
  BY <1>1 DEF FoldLeft, MapThenFoldSet
<1> HIDE DEF N, next
<1>4. PICK it : Folded(it, N, Int, base, next)
  BY <1>1, <1>2, FoldExists DEF Steps
<1>5. Folds(it)
  <2>1. ASSUME NEW S \in SUBSET (1..N), S # {} PROVE it[S] = Longer(it[S \ {Max(S)}], s[Max(S)])
    <3>1. Max(S) \in 1..N /\ it[S \ {Max(S)}] \in Int /\ it[S] = next[<<Max(S), it[S \ {Max(S)}]>>]
      BY <1>4, <2>1 DEF Folded
    <3> QED BY <1>2, <3>1
  <2>2. it = [S \in SUBSET (1..N) |-> it[S]] /\ it[{}] = base
    BY <1>4 DEF Folded
  <2> QED BY <2>1, <2>2
<1>6. Folds(iter)
  <2> HIDE DEF Folds
  <2> QED BY <1>5
<1> HIDE DEF iter
<1>7. iter[1..0] = base
  BY <1>6, Beginnings
<1>8. ASSUME NEW n \in 1..N PROVE iter[1..n] = Longer(iter[1..(n - 1)], s[n])
  <2>1. n \in Nat /\ n # 0 /\ 1..n \in SUBSET (1..N)
    BY <1>1
  <2>2. 1..n # {} /\ Max(1..n) = n /\ (1..n) \ {n} = 1..(n - 1)
    BY <2>1, Beginnings
  <2> QED BY <1>6, <2>1, <2>2
<1>9. run[0] = base /\ run[N] = iter[1..N] /\ \A n \in 1..N : run[n] = Longer(run[n - 1], s[n])
  BY <1>1, <1>7, <1>8
<1> QED BY <1>3, <1>9 DEF N

LEMMA CountedOnce ==
  ASSUME NEW ivs, Apart(ivs), NEW n \in 1..Len(ivs), IsFiniteSet(SecondsTo(ivs, n - 1)),
         NEW sum, sum = Cardinality(SecondsTo(ivs, n - 1))
  PROVE  IsFiniteSet(SecondsTo(ivs, n)) /\ Longer(sum, ivs[n]) = Cardinality(SecondsTo(ivs, n))
<1> DEFINE a == ivs[n][1]
           b == ivs[n][2]
           T == a..b - 1
           S == SecondsTo(ivs, n - 1)
<1>1. /\ ivs \in Intervals /\ Len(ivs) \in Nat
      /\ \A m \in 1..Len(ivs) : ivs[m][1] \in Int /\ ivs[m][2] \in Int
  BY IntervalFacts DEF Apart
<1>2. a \in Int /\ b \in Int /\ a < b
  BY <1>1 DEF Apart
<1>3. SecondsTo(ivs, n) = S \cup T
  BY <1>1, SecondsOfMore
<1>4. S \cap T = {}
  <2> SUFFICES ASSUME NEW s \in S, s \in T PROVE FALSE
    OBVIOUS
  <2>1. PICK m \in 1..(n - 1) : s \in ivs[m][1]..ivs[m][2] - 1
    BY DEF SecondsTo
  <2>2. m \in 1..Len(ivs) /\ m < n
    BY <1>1
  <2>3. ivs[m][2] < a /\ ivs[m][2] \in Int
    BY <1>1, <2>2 DEF Apart
  <2> QED BY <1>1, <1>2, <2>1, <2>2, <2>3
<1>5. IsFiniteSet(T) /\ Cardinality(T) = b - a
  <2> HIDE DEF a, b
  <2>1. b - 1 \in Int /\ ~(a > b - 1) /\ (b - 1) - a + 1 = b - a
    BY <1>2
  <2> QED BY <1>2, <2>1, FS_Interval
<1>6. Longer(sum, ivs[n]) = Cardinality(S) + (b - a)
  BY DEF Longer
<1> HIDE DEF S, T, a, b
<1>7. IsFiniteSet(S) /\ Cardinality(S) \in Nat /\ Cardinality(S \cap T) = 0
  BY <1>4, FS_CardinalityType, FS_EmptySet DEF S
<1>8. IsFiniteSet(S \cup T) /\ Cardinality(S \cup T) = Cardinality(S) + Cardinality(T) - Cardinality(S \cap T)
  BY <1>5, <1>7, FS_Union
<1> QED BY <1>2, <1>3, <1>5, <1>6, <1>7, <1>8

\* totalSeconds: overlapping or not, in any order, each second counts once.
THEOREM TotalIsCount ==
  ASSUME NEW ivs, ivs \in Intervals
  PROVE  IsFiniteSet(Seconds(ivs)) /\ TotalSeconds(ivs) = Cardinality(Seconds(ivs))
<1> DEFINE s == Merged(ivs)
           N == Len(s)
<1>1. Apart(s) /\ s \in Intervals /\ Seconds(s) = Seconds(ivs)
  BY MergedStayApart
<1>2. TotalSeconds(ivs) = FoldLeft(Longer, 0, s)
  BY DEF TotalSeconds
<1> HIDE DEF s
<1>3. N \in Nat /\ Seconds(s) = SecondsTo(s, N) /\ s \in Seq(Int \X Int)
  BY <1>1, IntervalFacts DEF Intervals
<1>4. PICK run : /\ run[0] = 0
                 /\ \A n \in 1..N : run[n] = Longer(run[n - 1], s[n])
                 /\ FoldLeft(Longer, 0, s) = run[N]
  <2>1. 0 \in Int /\ s \in Seq(Int \X Int)
    BY <1>3
  <2> QED BY <2>1, LongerRuns, Zenon
<1> DEFINE Fine == {n \in 0..N : IsFiniteSet(SecondsTo(s, n)) /\ run[n] = Cardinality(SecondsTo(s, n))}
<1>5. 0 \in Fine
  <2>1. SecondsTo(s, 0) = {}
    BY DEF SecondsTo
  <2>2. IsFiniteSet(SecondsTo(s, 0)) /\ Cardinality(SecondsTo(s, 0)) = 0
    BY <2>1, FS_EmptySet
  <2> QED BY <1>3, <1>4, <2>2
<1>6. ASSUME NEW n \in 1..N, n - 1 \in Fine PROVE n \in Fine
  <2>1. IsFiniteSet(SecondsTo(s, n)) /\ Longer(run[n - 1], s[n]) = Cardinality(SecondsTo(s, n))
    BY <1>1, <1>6, CountedOnce
  <2> QED BY <1>3, <1>4, <2>1
<1>7. N \in Fine
  <2> HIDE DEF Fine, N
  <2>1. \A n \in 0..N : n \in Fine
    BY <1>3, <1>5, <1>6, Onwards
  <2> QED BY <1>3, <2>1
<1> QED BY <1>1, <1>2, <1>3, <1>4, <1>7

\* clipIntervals: the seconds within the window, no others.
LEMMA ClippedToWindow ==
  ASSUME NEW ivs, ivs \in Intervals, NEW from \in Int, NEW to \in Int
  PROVE  /\ Clipped(ivs, from, to) \in Intervals
         /\ Seconds(Clipped(ivs, from, to)) = Seconds(ivs) \cap (from..to - 1)
<1> DEFINE N == Len(ivs)
           cut == [n \in 1..N |-> <<Greater(ivs[n][1], from), Lesser(ivs[n][2], to)>>]
<1>1. N \in Nat /\ \A n \in 1..N : ivs[n][1] \in Int /\ ivs[n][2] \in Int
  BY IntervalFacts
<1>2. cut \in Intervals /\ Len(cut) = N
  <2>1. \A n \in 1..N : cut[n] \in Int \X Int
    BY <1>1 DEF Greater, Lesser
  <2> QED BY <1>1, <2>1 DEF Intervals
<1>3. \A n \in 1..N : cut[n][1] = Greater(ivs[n][1], from) /\ cut[n][2] = Lesser(ivs[n][2], to)
  OBVIOUS
<1>4. Clipped(ivs, from, to) = NonEmpty(cut)
  BY DEF Clipped
<1> HIDE DEF cut, N
<1>5. ASSUME NEW s PROVE s \in Seconds(cut) <=> s \in Seconds(ivs) /\ s \in from..to - 1
  <2>1. s \in Seconds(cut) <=> \E n \in 1..N : s \in Int /\ cut[n][1] <= s /\ s < cut[n][2]
    BY <1>2, IntervalFacts
  <2>2. s \in Seconds(ivs) <=> \E n \in 1..N : s \in Int /\ ivs[n][1] <= s /\ s < ivs[n][2]
    BY IntervalFacts DEF N
  <2>3. ASSUME NEW n \in 1..N, s \in Int
        PROVE  cut[n][1] <= s /\ s < cut[n][2] <=>
                 ivs[n][1] <= s /\ s < ivs[n][2] /\ from <= s /\ s < to
    BY <1>1, <1>3, <2>3 DEF Greater, Lesser
  <2>4. s \in from..to - 1 <=> s \in Int /\ from <= s /\ s < to
    OBVIOUS
  <2> QED BY <2>1, <2>2, <2>3, <2>4
<1>6. NonEmpty(cut) \in Intervals /\ Seconds(NonEmpty(cut)) = Seconds(cut)
  BY <1>2, NonEmptyKeeps
<1> QED BY <1>4, <1>5, <1>6

-----------------------------------------------------------------------------
(* intersectIntervals.                                                     *)

LEMMA SpanAdds ==
  ASSUME NEW out, NEW a, NEW b, Addable(out, a, b)
  PROVE  /\ out \o Span(a, b) = IF a < b THEN Append(out, <<a, b>>) ELSE out
         /\ out \o Span(a, b) \in Intervals
         /\ Seconds(out \o Span(a, b)) = Seconds(out) \cup (a..b - 1)
<1>1. out \in Seq(Int \X Int) /\ a \in Int /\ b \in Int
  BY DEF Addable, Intervals
<1>2. CASE a < b
  <2> DEFINE e == <<a, b>>
  <2>1. e \in Int \X Int /\ Span(a, b) = <<e>>
    BY <1>1, <1>2 DEF Span
  <2> HIDE DEF e
  <2>2. out \o <<e>> = Append(out, e)
    BY <1>1, <2>1, AppendIsConcat
  <2>3. Append(out, e) \in Intervals /\ Seconds(Append(out, e)) = Seconds(out) \cup (a..b - 1)
    BY OneMore DEF e
  <2>4. out \o Span(a, b) = Append(out, e)
    BY <2>1, <2>2
  <2> QED BY <1>2, <2>3, <2>4 DEF e
<1>3. CASE ~(a < b)
  <2>1. out \o Span(a, b) = out
    BY <1>1, <1>3 DEF Span
  <2>2. a..b - 1 = {}
    BY <1>1, <1>3
  <2> QED BY <1>1, <1>3, <2>1, <2>2 DEF Intervals
<1> QED BY <1>2, <1>3

LEMMA InSecondsTo ==
  ASSUME NEW ivs, ivs \in Intervals, NEW n \in 0..Len(ivs), NEW s
  PROVE  s \in SecondsTo(ivs, n) <=> \E m \in 1..n : s \in Int /\ ivs[m][1] <= s /\ s < ivs[m][2]
<1>1. Len(ivs) \in Nat /\ \A m \in 1..n : ivs[m][1] \in Int /\ ivs[m][2] \in Int
  BY IntervalFacts
<1>2. s \in SecondsTo(ivs, n) <=> \E m \in 1..n : s \in ivs[m][1]..ivs[m][2] - 1
  BY DEF SecondsTo
<1>3. \A m \in 1..n : s \in ivs[m][1]..ivs[m][2] - 1 <=> s \in Int /\ ivs[m][1] <= s /\ s < ivs[m][2]
  BY <1>1
<1> QED BY <1>2, <1>3

\* Of intervals apart, those that end later hold nothing from before.
LEMMA NoneBeyond ==
  ASSUME NEW ivs, Apart(ivs), NEW n \in 1..Len(ivs), NEW s \in Seconds(ivs), s < ivs[n][2]
  PROVE  s \in SecondsTo(ivs, n)
<1>1. /\ ivs \in Intervals /\ Len(ivs) \in Nat
      /\ \A m \in 1..Len(ivs) : ivs[m][1] \in Int /\ ivs[m][2] \in Int
  BY IntervalFacts DEF Apart
<1>2. PICK m \in 1..Len(ivs) : s \in Int /\ ivs[m][1] <= s /\ s < ivs[m][2]
  BY <1>1, IntervalFacts
<1>3. ~(n < m)
  <2> SUFFICES ASSUME n < m PROVE FALSE
    OBVIOUS
  <2>1. ivs[n][2] < ivs[m][1]
    BY DEF Apart
  <2> QED BY <1>1, <1>2, <2>1
<1>4. m \in 1..n /\ n \in 0..Len(ivs)
  BY <1>1, <1>3
<1> QED BY <1>1, <1>2, <1>4, InSecondsTo

Place == [i : Nat \ {0}, j : Nat \ {0}, out : Intervals]

LEMMA WalkedType ==
  ASSUME NEW x \in Intervals, NEW y \in Intervals, NEW at \in Place
  PROVE  Walked(x, y, at) \in Place
<1>1. at.i \in Nat \ {0} /\ at.j \in Nat \ {0} /\ at.out \in Intervals
  BY DEF Place
<1>2. CASE at.i > Len(x) \/ at.j > Len(y)
  BY <1>2 DEF Walked
<1>3. CASE ~(at.i > Len(x) \/ at.j > Len(y))
  <2> DEFINE first == x[at.i][2] < y[at.j][2]
             a == Greater(x[at.i][1], y[at.j][1])
             b == Lesser(x[at.i][2], y[at.j][2])
             i == IF first THEN at.i + 1 ELSE at.i
             j == IF first THEN at.j ELSE at.j + 1
             out == at.out \o Span(a, b)
  <2>1. at.i \in 1..Len(x) /\ at.j \in 1..Len(y)
    BY <1>1, <1>3, IntervalFacts
  <2>2. x[at.i][1] \in Int /\ x[at.i][2] \in Int /\ y[at.j][1] \in Int /\ y[at.j][2] \in Int
    BY <2>1, IntervalFacts
  <2>3. a \in Int /\ b \in Int
    BY <2>2 DEF Greater, Lesser
  <2>4. Walked(x, y, at) = [i |-> i, j |-> j, out |-> out]
    BY <1>3 DEF Walked
  <2>5. i \in Nat \ {0} /\ j \in Nat \ {0}
    BY <1>1
  <2> HIDE DEF a, b
  <2>6. out \in Intervals
    BY <1>1, <2>3, SpanAdds DEF Addable
  <2> QED BY <2>4, <2>5, <2>6 DEF Place
<1> QED BY <1>2, <1>3

\* How far intersectIntervals has come in t turns.
Walking(x, y, t, at) ==
  /\ at \in Place /\ at.i <= Len(x) + 1 /\ at.j <= Len(y) + 1
  /\ at.i + at.j = t + 2 \/ at.i > Len(x) \/ at.j > Len(y)
  /\ Apart(at.out)
  /\ \A n \in 1..Len(at.out) :
       \/ \E m \in 1..(at.i - 1) : at.out[n][2] <= x[m][2]
       \/ \E m \in 1..(at.j - 1) : at.out[n][2] <= y[m][2]
  /\ \A s \in Int : s \in Seconds(at.out) <=>
       /\ s \in Seconds(x) /\ s \in Seconds(y)
       /\ s \in SecondsTo(x, at.i - 1) \/ s \in SecondsTo(y, at.j - 1)

LEMMA WalkedGoesOn ==
  ASSUME NEW x, Apart(x), NEW y, Apart(y), NEW t \in Nat, NEW at, Walking(x, y, t, at)
  PROVE  Walking(x, y, t + 1, Walked(x, y, at))
<1>1. /\ x \in Intervals /\ Len(x) \in Nat
      /\ \A n \in 1..Len(x) : x[n][1] \in Int /\ x[n][2] \in Int
  BY IntervalFacts DEF Apart
<1>2. /\ y \in Intervals /\ Len(y) \in Nat
      /\ \A n \in 1..Len(y) : y[n][1] \in Int /\ y[n][2] \in Int
  BY IntervalFacts DEF Apart
<1>3. CASE at.i > Len(x) \/ at.j > Len(y)
  <2>1. Walked(x, y, at) = at
    BY <1>3 DEF Walked
  <2> QED BY <1>3, <2>1 DEF Walking
<1>4. CASE ~(at.i > Len(x) \/ at.j > Len(y))
  <2> DEFINE i == at.i
             j == at.j
             out == at.out
             first == x[i][2] < y[j][2]
             a == Greater(x[i][1], y[j][1])
             b == Lesser(x[i][2], y[j][2])
             ni == IF first THEN i + 1 ELSE i
             nj == IF first THEN j ELSE j + 1
             new == out \o Span(a, b)
             next == Walked(x, y, at)
  <2>1. i \in Nat \ {0} /\ j \in Nat \ {0} /\ Apart(out) /\ out \in Intervals
    BY DEF Walking, Place
  <2>2. i \in 1..Len(x) /\ j \in 1..Len(y) /\ i + j = t + 2
    BY <1>1, <1>2, <1>4, <2>1 DEF Walking
  <2>3. x[i][1] \in Int /\ x[i][2] \in Int /\ y[j][1] \in Int /\ y[j][2] \in Int
    BY <1>1, <1>2, <2>2
  <2>4. /\ a \in Int /\ b \in Int /\ x[i][1] <= a /\ y[j][1] <= a /\ b <= x[i][2] /\ b <= y[j][2]
        /\ \A s \in Int : s \in a..b - 1 <=>
             x[i][1] <= s /\ s < x[i][2] /\ y[j][1] <= s /\ s < y[j][2]
    BY <2>3 DEF Greater, Lesser
  <2>5. next.i = ni /\ next.j = nj /\ next.out = new
    BY <1>4 DEF Walked
  <2>6. next \in Place
    BY <1>1, <1>2, WalkedType DEF Walking
  <2>7. /\ ni <= Len(x) + 1 /\ nj <= Len(y) + 1 /\ ni + nj = (t + 1) + 2
        /\ i <= ni /\ j <= nj /\ ni \in Nat /\ nj \in Nat
        /\ ni = i + 1 \/ nj = j + 1
    <3> HIDE DEF first
    <3>1. CASE first
      <4>1. ni = i + 1 /\ nj = j
        BY <3>1
      <4>2. i \in Nat /\ j \in Nat /\ t \in Nat /\ i <= Len(x) /\ j <= Len(y) /\ i + j = t + 2
        BY <1>1, <1>2, <2>2
      <4> HIDE DEF ni, nj, i, j
      <4> QED BY <1>1, <1>2, <4>1, <4>2
    <3>2. CASE ~first
      <4>1. ni = i /\ nj = j + 1
        BY <3>2
      <4>2. i \in Nat /\ j \in Nat /\ t \in Nat /\ i <= Len(x) /\ j <= Len(y) /\ i + j = t + 2
        BY <1>1, <1>2, <2>2
      <4> HIDE DEF ni, nj, i, j
      <4> QED BY <1>1, <1>2, <4>1, <4>2
    <3> QED BY <3>1, <3>2
  <2>8. /\ new = IF a < b THEN Append(out, <<a, b>>) ELSE out
        /\ new \in Intervals /\ Seconds(new) = Seconds(out) \cup (a..b - 1)
    <3>1. Addable(out, a, b)
      BY <2>1, <2>4 DEF Addable
    <3> HIDE DEF a, b, out
    <3> QED BY <3>1, SpanAdds
  <2> HIDE DEF next, new, a, b, ni, nj
  <2>9. ASSUME NEW n \in 1..Len(out) PROVE out[n][2] < a
    <3>1. out[n][2] \in Int
      BY <2>1, IntervalFacts
    <3>2. CASE \E m \in 1..(i - 1) : out[n][2] <= x[m][2]
      <4>1. PICK m \in 1..(i - 1) : out[n][2] <= x[m][2]
        BY <3>2
      <4>2. m \in 1..Len(x) /\ m < i
        BY <2>2, <1>1
      <4>3. x[m][2] < x[i][1] /\ x[m][2] \in Int
        BY <1>1, <2>2, <4>2 DEF Apart
      <4> QED BY <2>3, <2>4, <3>1, <4>1, <4>3
    <3>3. CASE \E m \in 1..(j - 1) : out[n][2] <= y[m][2]
      <4>1. PICK m \in 1..(j - 1) : out[n][2] <= y[m][2]
        BY <3>3
      <4>2. m \in 1..Len(y) /\ m < j
        BY <2>2, <1>2
      <4>3. y[m][2] < y[j][1] /\ y[m][2] \in Int
        BY <1>2, <2>2, <4>2 DEF Apart
      <4> QED BY <2>3, <2>4, <3>1, <4>1, <4>3
    <3> QED BY <3>2, <3>3 DEF Walking
  <2>10. Apart(new)
    <3>1. CASE ~(a < b)
      BY <2>1, <2>8, <3>1
    <3>2. CASE a < b
      BY <2>1, <2>4, <2>8, <2>9, <3>2, OneMoreApart DEF Addable
    <3> QED BY <3>1, <3>2
  <2>11. ASSUME NEW n \in 1..Len(new)
         PROVE  \/ \E m \in 1..(ni - 1) : new[n][2] <= x[m][2]
                \/ \E m \in 1..(nj - 1) : new[n][2] <= y[m][2]
    <3>1. CASE n \in 1..Len(out) /\ new[n] = out[n]
      <4>1. \/ \E m \in 1..(i - 1) : new[n][2] <= x[m][2]
            \/ \E m \in 1..(j - 1) : new[n][2] <= y[m][2]
        BY <3>1 DEF Walking
      <4>2. /\ \A m \in 1..(i - 1) : m \in 1..(ni - 1)
            /\ \A m \in 1..(j - 1) : m \in 1..(nj - 1)
        <5>1. i \in Nat /\ j \in Nat /\ ni \in Nat /\ nj \in Nat /\ i <= ni /\ j <= nj
          BY <2>1, <2>7
        <5> HIDE DEF i, j, ni, nj
        <5> QED BY <5>1
      <4>3. CASE \E m \in 1..(i - 1) : new[n][2] <= x[m][2]
        BY <4>2, <4>3
      <4>4. CASE \E m \in 1..(j - 1) : new[n][2] <= y[m][2]
        BY <4>2, <4>4
      <4> QED BY <4>1, <4>3, <4>4
    <3>2. CASE a < b /\ new[n] = <<a, b>>
      <4>1. i \in 1..(ni - 1) \/ j \in 1..(nj - 1)
        BY <2>1, <2>7
      <4> QED BY <2>4, <3>2, <4>1
    <3>3. \/ n \in 1..Len(out) /\ new[n] = out[n]
          \/ a < b /\ new[n] = <<a, b>>
      <4>1. CASE ~(a < b)
        BY <2>8, <4>1
      <4>2. CASE a < b
        <5>1. /\ Len(new) = Len(out) + 1 /\ new[Len(out) + 1] = <<a, b>>
              /\ \A m \in 1..Len(out) : new[m] = out[m]
          BY <2>1, <2>4, <2>8, <4>2, OneMore DEF Addable
        <5>2. n \in 1..Len(out) \/ n = Len(out) + 1
          BY <2>1, <5>1, IntervalFacts
        <5> QED BY <4>2, <5>1, <5>2
      <4> QED BY <4>1, <4>2
    <3> QED BY <3>1, <3>2, <3>3
  <2>12. ASSUME NEW s \in Int
         PROVE  s \in Seconds(new) <=>
                  /\ s \in Seconds(x) /\ s \in Seconds(y)
                  /\ s \in SecondsTo(x, ni - 1) \/ s \in SecondsTo(y, nj - 1)
    <3> DEFINE inX == x[i][1] <= s /\ s < x[i][2]
               inY == y[j][1] <= s /\ s < y[j][2]
               oldX == s \in SecondsTo(x, i - 1)
               oldY == s \in SecondsTo(y, j - 1)
    <3>1. s \in Seconds(new) <=> s \in Seconds(out) \/ (inX /\ inY)
      BY <2>4, <2>8
    <3>2. s \in Seconds(out) <=> s \in Seconds(x) /\ s \in Seconds(y) /\ (oldX \/ oldY)
      BY DEF Walking
    <3>3. (inX => s \in Seconds(x)) /\ (inY => s \in Seconds(y))
      BY <1>1, <1>2, <2>2, IntervalFacts
    <3>4. s \in SecondsTo(x, i) <=> oldX \/ inX
      <4>1. SecondsTo(x, i) = SecondsTo(x, i - 1) \cup (x[i][1]..x[i][2] - 1)
        BY <1>1, <2>2, SecondsOfMore
      <4> QED BY <2>3, <4>1
    <3>5. s \in SecondsTo(y, j) <=> oldY \/ inY
      <4>1. SecondsTo(y, j) = SecondsTo(y, j - 1) \cup (y[j][1]..y[j][2] - 1)
        BY <1>2, <2>2, SecondsOfMore
      <4> QED BY <2>3, <4>1
    <3>6. CASE first
      <4>1. ni - 1 = i /\ nj - 1 = j - 1
        BY <2>2, <3>6 DEF ni, nj
      <4>2. s \in Seconds(y) /\ inX => oldY \/ inY
        <5> SUFFICES ASSUME s \in Seconds(y), inX PROVE s \in SecondsTo(y, j)
          BY <3>5
        <5>1. s < y[j][2]
          BY <2>3, <3>6
        <5> QED BY <2>2, <5>1, NoneBeyond
      <4> QED BY <3>1, <3>2, <3>3, <3>4, <4>1, <4>2
    <3>7. CASE ~first
      <4>1. ni - 1 = i - 1 /\ nj - 1 = j
        BY <2>2, <3>7 DEF ni, nj
      <4>2. s \in Seconds(x) /\ inY => oldX \/ inX
        <5> SUFFICES ASSUME s \in Seconds(x), inY PROVE s \in SecondsTo(x, i)
          BY <3>4
        <5>1. s < x[i][2]
          BY <2>3, <3>7
        <5> QED BY <2>2, <5>1, NoneBeyond
      <4> QED BY <3>1, <3>2, <3>3, <3>5, <4>1, <4>2
    <3> QED BY <3>6, <3>7
  <2> QED BY <2>5, <2>6, <2>7, <2>10, <2>11, <2>12 DEF Walking, next
<1> QED BY <1>3, <1>4


FirstPlace == [i |-> 1, j |-> 1, out |-> <<>>]

\* intersectIntervals, turn by turn.
LEMMA WalkRuns ==
  ASSUME NEW x \in Intervals, NEW y \in Intervals
  PROVE  \E run : /\ run[0] = FirstPlace
                  /\ \A n \in 1..(Len(x) + Len(y)) : run[n] = Walked(x, y, run[n - 1])
                  /\ Walk(x, y) = run[Len(x) + Len(y)].out
<1> DEFINE s == x \o y
           base == FirstPlace
           N == Len(x) + Len(y)
           next == [p \in (1..N) \X Place |-> Walked(x, y, p[2])]
           Folds(g) == g = [S \in SUBSET (1..N) |->
                              IF S = {} THEN base ELSE Walked(x, y, g[S \ {Max(S)}])]
           iter == CHOOSE g : Folds(g)
           run == [n \in 0..N |-> iter[1..n]]
<1>1. N \in Nat /\ DOMAIN s = 1..N /\ base \in Place
  <2>1. s \in Seq(Int \X Int) /\ Len(s) = N /\ N \in Nat
    BY ConcatProperties DEF Intervals
  <2>2. DOMAIN s = 1..N
    <3> HIDE DEF s, N
    <3> QED BY <2>1
  <2> QED BY <2>1, <2>2 DEF Place, FirstPlace, Intervals
<1>2. \A n \in 1..N, a \in Place : next[<<n, a>>] = Walked(x, y, a) /\ next[<<n, a>>] \in Place
  <2>1. ASSUME NEW n \in 1..N, NEW a \in Place
        PROVE  next[<<n, a>>] = Walked(x, y, a) /\ Walked(x, y, a) \in Place
    BY <1>1, WalkedType
  <2> HIDE DEF next
  <2> QED BY <2>1
<1>3. Walk(x, y) = iter[1..N].out
  BY <1>1 DEF Walk, FirstPlace, FoldLeft, MapThenFoldSet
<1> HIDE DEF N, next, s, base
<1>4. PICK it : Folded(it, N, Place, base, next)
  BY <1>1, <1>2, FoldExists DEF Steps
<1>5. Folds(it)
  <2>1. ASSUME NEW S \in SUBSET (1..N), S # {} PROVE it[S] = Walked(x, y, it[S \ {Max(S)}])
    <3>1. Max(S) \in 1..N /\ it[S \ {Max(S)}] \in Place /\ it[S] = next[<<Max(S), it[S \ {Max(S)}]>>]
      BY <1>4, <2>1 DEF Folded
    <3> QED BY <1>2, <3>1
  <2>2. it = [S \in SUBSET (1..N) |-> it[S]] /\ it[{}] = base
    BY <1>4 DEF Folded
  <2> QED BY <2>1, <2>2
<1>6. Folds(iter)
  <2> HIDE DEF Folds
  <2> QED BY <1>5
<1> HIDE DEF iter
<1>7. iter[1..0] = base
  BY <1>6, Beginnings
<1>8. ASSUME NEW n \in 1..N PROVE iter[1..n] = Walked(x, y, iter[1..(n - 1)])
  <2>1. n \in Nat /\ n # 0 /\ 1..n \in SUBSET (1..N)
    BY <1>1
  <2>2. 1..n # {} /\ Max(1..n) = n /\ (1..n) \ {n} = 1..(n - 1)
    BY <2>1, Beginnings
  <2> QED BY <1>6, <2>1, <2>2
<1>9. run[0] = base /\ run[N] = iter[1..N] /\ \A n \in 1..N : run[n] = Walked(x, y, run[n - 1])
  <2>1. \A n \in 0..N : run[n] = iter[1..n]
    OBVIOUS
  <2>2. 0 \in 0..N /\ N \in 0..N /\ \A n \in 1..N : n \in 0..N /\ n - 1 \in 0..N
    BY <1>1
  <2> HIDE DEF run
  <2> QED BY <1>7, <1>8, <2>1, <2>2
<1> QED BY <1>3, <1>9 DEF N, base

\* intersectIntervals: the seconds two lists have in common, whatever order
\* they are in.
THEOREM IntersectionIsExact ==
  ASSUME NEW c, c \in Intervals, NEW d, d \in Intervals
  PROVE  /\ Apart(Intersected(c, d)) /\ Intersected(c, d) \in Intervals
         /\ Seconds(Intersected(c, d)) = Seconds(c) \cap Seconds(d)
<1> DEFINE x == Merged(c)
           y == Merged(d)
           N == Len(x) + Len(y)
<1>1. Apart(x) /\ x \in Intervals /\ Seconds(x) = Seconds(c)
  BY MergedStayApart
<1>2. Apart(y) /\ y \in Intervals /\ Seconds(y) = Seconds(d)
  BY MergedStayApart
<1>3. Intersected(c, d) = Walk(x, y)
  BY DEF Intersected
<1> HIDE DEF x, y
<1>4. /\ Len(x) \in Nat /\ Len(y) \in Nat /\ N \in Nat
      /\ Seconds(x) = SecondsTo(x, Len(x)) /\ Seconds(y) = SecondsTo(y, Len(y))
  BY <1>1, <1>2, IntervalFacts
<1>5. FirstPlace \in Place /\ Apart(<<>>) /\ Seconds(<<>>) = {}
  BY DEF FirstPlace, Place, Intervals, Apart, Seconds
<1>6. /\ FirstPlace.i = 1 /\ FirstPlace.j = 1 /\ FirstPlace.out = <<>>
  BY DEF FirstPlace
<1>7. PICK run : /\ run[0] = FirstPlace
                 /\ \A n \in 1..N : run[n] = Walked(x, y, run[n - 1])
                 /\ Walk(x, y) = run[N].out
  BY <1>1, <1>2, WalkRuns
<1> DEFINE Fine == {n \in 0..N : Walking(x, y, n, run[n])}
<1>8. 0 \in Fine
  <2>1. SecondsTo(x, 0) = {} /\ SecondsTo(y, 0) = {}
    BY DEF SecondsTo
  <2>2. Walking(x, y, 0, FirstPlace)
    BY <1>4, <1>5, <1>6, <2>1 DEF Walking
  <2> QED BY <1>4, <1>7, <2>2
<1>9. ASSUME NEW n \in 1..N, n - 1 \in Fine PROVE n \in Fine
  <2>1. n - 1 \in Nat /\ (n - 1) + 1 = n
    BY <1>4
  <2>2. Walking(x, y, (n - 1) + 1, Walked(x, y, run[n - 1]))
    BY <1>1, <1>2, <1>9, <2>1, WalkedGoesOn
  <2>3. n \in 0..N /\ run[n] = Walked(x, y, run[n - 1])
    BY <1>4, <1>7
  <2> HIDE DEF N
  <2> QED BY <2>1, <2>2, <2>3
<1>10. N \in Fine
  <2> HIDE DEF Fine, N
  <2>1. \A n \in 0..N : n \in Fine
    BY <1>4, <1>8, <1>9, Onwards
  <2> QED BY <1>4, <2>1
<1> DEFINE at == run[N]
<1>11. Walking(x, y, N, at) /\ Intersected(c, d) = at.out
  BY <1>3, <1>7, <1>10
<1> HIDE DEF at, Fine
<1>12. Apart(at.out) /\ at.out \in Intervals
  BY <1>11 DEF Walking, Apart
<1>13. at.i - 1 = Len(x) \/ at.j - 1 = Len(y)
  <2>1. /\ at.i \in Nat \ {0} /\ at.j \in Nat \ {0} /\ at.i <= Len(x) + 1 /\ at.j <= Len(y) + 1
        /\ at.i + at.j = N + 2 \/ at.i > Len(x) \/ at.j > Len(y)
    BY <1>11 DEF Walking, Place
  <2> QED BY <1>4, <2>1
<1>14. ASSUME NEW t \in Int PROVE t \in Seconds(at.out) <=> t \in Seconds(x) /\ t \in Seconds(y)
  BY <1>4, <1>11, <1>13 DEF Walking
<1>15. \A t : t \in Seconds(at.out) \/ t \in Seconds(x) => t \in Int
  BY <1>1, <1>12, IntervalFacts
<1> QED BY <1>1, <1>2, <1>11, <1>12, <1>14, <1>15

-----------------------------------------------------------------------------
(* complementIntervals.                                                    *)

Passing == [cursor : Int, out : Intervals]

LEMMA PastType ==
  ASSUME NEW acc \in Passing, NEW i \in Int \X Int
  PROVE  Past(acc, i) \in Passing
<1>1. acc.cursor \in Int /\ acc.out \in Intervals /\ i[1] \in Int /\ i[2] \in Int
  BY DEF Passing
<1>2. Addable(acc.out, acc.cursor, i[1])
  BY <1>1 DEF Addable
<1>3. acc.out \o Span(acc.cursor, i[1]) \in Intervals
  BY <1>2, SpanAdds
<1>4. Greater(acc.cursor, i[2]) \in Int
  BY <1>1 DEF Greater
<1> QED BY <1>3, <1>4 DEF Past, Passing


\* complementIntervals, hole by hole.
LEMMA PassingRuns ==
  ASSUME NEW s \in Seq((Int \X Int)), NEW base \in Passing
  PROVE  \E run : /\ run[0] = base
                  /\ \A n \in 1..Len(s) : run[n] = Past(run[n - 1], s[n])
                  /\ FoldLeft(Past, base, s) = run[Len(s)]
<1> DEFINE N == Len(s)
           next == [p \in (1..N) \X Passing |-> Past(p[2], s[p[1]])]
           Folds(g) == g = [S \in SUBSET (1..N) |->
                              IF S = {} THEN base ELSE Past(g[S \ {Max(S)}], s[Max(S)])]
           iter == CHOOSE g : Folds(g)
           run == [n \in 0..N |-> iter[1..n]]
<1>1. N \in Nat /\ DOMAIN s = 1..N /\ \A n \in 1..N : s[n] \in (Int \X Int)
  OBVIOUS
<1>2. \A n \in 1..N, a \in Passing : next[<<n, a>>] = Past(a, s[n]) /\ next[<<n, a>>] \in Passing
  <2>1. ASSUME NEW n \in 1..N, NEW a \in Passing
        PROVE  next[<<n, a>>] = Past(a, s[n]) /\ Past(a, s[n]) \in Passing
    BY <1>1, PastType
  <2> HIDE DEF next
  <2> QED BY <2>1
<1>3. FoldLeft(Past, base, s) = iter[1..N]
  BY <1>1 DEF FoldLeft, MapThenFoldSet
<1> HIDE DEF N, next
<1>4. PICK it : Folded(it, N, Passing, base, next)
  BY <1>1, <1>2, FoldExists DEF Steps
<1>5. Folds(it)
  <2>1. ASSUME NEW S \in SUBSET (1..N), S # {} PROVE it[S] = Past(it[S \ {Max(S)}], s[Max(S)])
    <3>1. Max(S) \in 1..N /\ it[S \ {Max(S)}] \in Passing /\ it[S] = next[<<Max(S), it[S \ {Max(S)}]>>]
      BY <1>4, <2>1 DEF Folded
    <3> QED BY <1>2, <3>1
  <2>2. it = [S \in SUBSET (1..N) |-> it[S]] /\ it[{}] = base
    BY <1>4 DEF Folded
  <2> QED BY <2>1, <2>2
<1>6. Folds(iter)
  <2> HIDE DEF Folds
  <2> QED BY <1>5
<1> HIDE DEF iter
<1>7. iter[1..0] = base
  BY <1>6, Beginnings
<1>8. ASSUME NEW n \in 1..N PROVE iter[1..n] = Past(iter[1..(n - 1)], s[n])
  <2>1. n \in Nat /\ n # 0 /\ 1..n \in SUBSET (1..N)
    BY <1>1
  <2>2. 1..n # {} /\ Max(1..n) = n /\ (1..n) \ {n} = 1..(n - 1)
    BY <2>1, Beginnings
  <2> QED BY <1>6, <2>1, <2>2
<1>9. run[0] = base /\ run[N] = iter[1..N] /\ \A n \in 1..N : run[n] = Past(run[n - 1], s[n])
  BY <1>1, <1>7, <1>8
<1> QED BY <1>3, <1>9 DEF N

\* What it has after n holes, all within the window.
PassedTo(x, from, n, acc) ==
  /\ acc \in Passing /\ from <= acc.cursor
  /\ \A m \in 1..n : x[m][2] <= acc.cursor
  /\ acc.cursor = from \/ \E m \in 1..n : acc.cursor = x[m][2]
  /\ \A m \in (n + 1)..Len(x) : acc.cursor <= x[m][1]
  /\ \A s \in Int : s \in Seconds(acc.out) <=>
       from <= s /\ s < acc.cursor /\ s \notin SecondsTo(x, n)

LEMMA PassedGoesOn ==
  ASSUME NEW x, Apart(x), NEW from \in Int, NEW n \in 1..Len(x), NEW acc, PassedTo(x, from, n - 1, acc)
  PROVE  PassedTo(x, from, n, Past(acc, x[n]))
<1> DEFINE a == x[n][1]
           b == x[n][2]
           c == acc.cursor
           next == Past(acc, x[n])
           new == acc.out \o Span(c, a)
<1>1. /\ x \in Intervals /\ Len(x) \in Nat /\ n \in Nat
      /\ \A m \in 1..Len(x) : x[m] \in Int \X Int /\ x[m][1] \in Int /\ x[m][2] \in Int
  BY IntervalFacts DEF Apart
<1>2. a \in Int /\ b \in Int /\ a < b /\ x[n] \in Int \X Int
  BY <1>1 DEF Apart
<1>3. acc \in Passing /\ c \in Int /\ acc.out \in Intervals /\ from <= c
  BY DEF PassedTo, Passing
<1>4. c <= a
  <2>1. n \in ((n - 1) + 1)..Len(x)
    BY <1>1
  <2> QED BY <2>1 DEF PassedTo
<1>5. next.cursor = b /\ next.out = new
  <2>1. next.cursor = Greater(c, b) /\ next.out = new
    BY DEF Past
  <2> HIDE DEF next, new, a, b, c
  <2> QED BY <1>2, <1>3, <1>4, <2>1 DEF Greater
<1>6. next \in Passing
  BY <1>2, <1>3, PastType
<1>7. Seconds(new) = Seconds(acc.out) \cup (c..a - 1)
  <2>1. Addable(acc.out, c, a)
    BY <1>2, <1>3 DEF Addable
  <2> HIDE DEF c, a
  <2> QED BY <2>1, SpanAdds
<1>8. SecondsTo(x, n) = SecondsTo(x, n - 1) \cup (a..b - 1)
  BY <1>1, SecondsOfMore
<1> HIDE DEF next, new, a, b, c
<1>9. \A m \in 1..n : x[m][2] <= b
  <2> SUFFICES ASSUME NEW m \in 1..n PROVE x[m][2] <= b
    OBVIOUS
  <2>1. m = n \/ m \in 1..(n - 1)
    BY <1>1
  <2>2. CASE m \in 1..(n - 1)
    <3>1. x[m][2] <= c /\ x[m][2] \in Int
      BY <1>1, <2>2 DEF PassedTo, c
    <3> QED BY <1>2, <1>3, <1>4, <3>1
  <2> QED BY <1>2, <2>1, <2>2 DEF b
<1>10. \A m \in (n + 1)..Len(x) : b <= x[m][1]
  <2> SUFFICES ASSUME NEW m \in (n + 1)..Len(x) PROVE b <= x[m][1]
    OBVIOUS
  <2>1. m \in 1..Len(x) /\ n < m
    BY <1>1
  <2>2. b < x[m][1] /\ x[m][1] \in Int
    BY <1>1, <2>1 DEF Apart, b
  <2> QED BY <1>2, <2>2
<1>11. ASSUME NEW s \in Int
       PROVE  s \in Seconds(new) <=> from <= s /\ s < b /\ s \notin SecondsTo(x, n)
  <2>1. s \in Seconds(acc.out) <=> from <= s /\ s < c /\ s \notin SecondsTo(x, n - 1)
    BY DEF PassedTo, c
  <2>2. s \in SecondsTo(x, n - 1) => s < c
    <3> SUFFICES ASSUME s \in SecondsTo(x, n - 1) PROVE s < c
      OBVIOUS
    <3>1. n - 1 \in 0..Len(x)
      BY <1>1
    <3>2. PICK m \in 1..(n - 1) : s < x[m][2]
      BY <1>1, <3>1, InSecondsTo
    <3>3. x[m][2] <= c
      BY DEF PassedTo, c
    <3>4. m \in 1..Len(x)
      BY <1>1
    <3>5. x[m][2] \in Int
      BY <1>1, <3>4
    <3> QED BY <1>3, <3>2, <3>3, <3>5
  <2>3. s \in SecondsTo(x, n) <=> s \in SecondsTo(x, n - 1) \/ (a <= s /\ s < b)
    BY <1>2, <1>8
  <2>4. s \in Seconds(new) <=> s \in Seconds(acc.out) \/ (c <= s /\ s < a)
    BY <1>2, <1>3, <1>7
  <2> QED BY <1>2, <1>3, <1>4, <2>1, <2>2, <2>3, <2>4
<1>12. from <= b /\ \E m \in 1..n : b = x[m][2]
  BY <1>1, <1>2, <1>3, <1>4 DEF b
<1>13. PassedTo(x, from, n, next)
  BY <1>5, <1>6, <1>9, <1>10, <1>11, <1>12 DEF PassedTo
<1> QED BY <1>13 DEF next

\* complementIntervals: what the holes leave of a window.
THEOREM ComplementIsExact ==
  ASSUME NEW holes, holes \in Intervals, NEW from \in Int, NEW to \in Int, from <= to
  PROVE  /\ Complement(holes, from, to) \in Intervals
         /\ Seconds(Complement(holes, from, to)) = (from..to - 1) \ Seconds(holes)
<1> DEFINE x == Merged(Clipped(holes, from, to))
           N == Len(x)
           base == [cursor |-> from, out |-> <<>>]
<1>1. /\ Apart(x) /\ x \in Intervals
      /\ Seconds(x) = Seconds(holes) \cap (from..to - 1)
  BY ClippedToWindow, MergedStayApart
<1>2. Complement(holes, from, to) =
        FoldLeft(Past, base, x).out \o Span(FoldLeft(Past, base, x).cursor, to)
  BY DEF Complement
<1> HIDE DEF x
<1>3. /\ N \in Nat /\ x \in Seq(Int \X Int) /\ Seconds(x) = SecondsTo(x, N)
      /\ \A n \in 1..N : x[n][1] \in Int /\ x[n][2] \in Int
  BY <1>1, IntervalFacts DEF Intervals
<1>4. base \in Passing /\ base.cursor = from /\ base.out = <<>> /\ Seconds(<<>>) = {}
  BY DEF Passing, Intervals, Seconds
<1>5. PICK run : /\ run[0] = base
                 /\ \A n \in 1..N : run[n] = Past(run[n - 1], x[n])
                 /\ FoldLeft(Past, base, x) = run[N]
  <2> HIDE DEF base
  <2> QED BY <1>3, <1>4, PassingRuns
<1>6. ASSUME NEW n \in 1..N PROVE from <= x[n][1] /\ x[n][2] <= to
  <2>1. x[n][1] < x[n][2]
    BY <1>1 DEF Apart
  <2>2. x[n][1] \in Seconds(x) /\ x[n][2] - 1 \in Seconds(x)
    <3>1. /\ x[n][1] \in Int /\ x[n][2] - 1 \in Int
          /\ x[n][1] <= x[n][1] /\ x[n][1] <= x[n][2] - 1 /\ x[n][2] - 1 < x[n][2]
      BY <1>3, <2>1
    <3> QED BY <1>1, <2>1, <3>1, IntervalFacts
  <2> QED BY <1>1, <1>3, <2>2
<1> HIDE DEF base
<1> DEFINE Fine == {n \in 0..N : PassedTo(x, from, n, run[n])}
<1>7. 0 \in Fine
  <2>1. SecondsTo(x, 0) = {} /\ 1..0 = {}
    BY DEF SecondsTo
  <2>2. \A m \in (0 + 1)..Len(x) : from <= x[m][1]
    BY <1>6
  <2>3. PassedTo(x, from, 0, base)
    BY <1>4, <2>1, <2>2 DEF PassedTo
  <2> QED BY <1>3, <1>5, <2>3
<1>8. ASSUME NEW n \in 1..N, n - 1 \in Fine PROVE n \in Fine
  <2>1. PassedTo(x, from, n, Past(run[n - 1], x[n]))
    BY <1>1, <1>8, PassedGoesOn
  <2>2. n \in 0..N /\ run[n] = Past(run[n - 1], x[n])
    BY <1>3, <1>5
  <2> HIDE DEF N
  <2> QED BY <2>1, <2>2
<1>9. N \in Fine
  <2> HIDE DEF Fine, N
  <2>1. \A n \in 0..N : n \in Fine
    BY <1>3, <1>7, <1>8, Onwards
  <2> QED BY <1>3, <2>1
<1> DEFINE all == run[N]
<1>10. PassedTo(x, from, N, all)
  BY <1>9
<1>11. Complement(holes, from, to) = all.out \o Span(all.cursor, to)
  BY <1>2, <1>5
<1> HIDE DEF all, Fine
<1>12. all.cursor \in Int /\ all.out \in Intervals /\ from <= all.cursor
  BY <1>10 DEF PassedTo, Passing
<1>13. /\ all.out \o Span(all.cursor, to) \in Intervals
       /\ Seconds(all.out \o Span(all.cursor, to)) = Seconds(all.out) \cup (all.cursor..to - 1)
  <2>1. Addable(all.out, all.cursor, to)
    BY <1>12 DEF Addable
  <2> QED BY <2>1, SpanAdds
<1>14. ASSUME NEW s
       PROVE  s \in Seconds(all.out) \/ s \in all.cursor..to - 1 <=> s \in from..to - 1 /\ s \notin Seconds(x)
  <2>1. s \in Seconds(all.out) => s \in Int
    BY <1>12, IntervalFacts
  <2>2. CASE s \in Int
    <3>1. s \in Seconds(all.out) <=> from <= s /\ s < all.cursor /\ s \notin Seconds(x)
      BY <1>3, <1>10, <2>2 DEF PassedTo
    <3>2. s \in Seconds(x) => s < all.cursor
      <4> SUFFICES ASSUME s \in Seconds(x) PROVE s < all.cursor
        OBVIOUS
      <4>1. PICK m \in 1..N : s < x[m][2]
        BY <1>1, IntervalFacts
      <4>2. x[m][2] <= all.cursor
        BY <1>10 DEF PassedTo
      <4> QED BY <1>3, <1>12, <2>2, <4>1, <4>2
    <3>3. s \in Seconds(all.out) => s < to
      <4> SUFFICES ASSUME s \in Seconds(all.out), ~(s < to) PROVE FALSE
        BY <2>2
      <4>1. all.cursor = from \/ all.cursor <= to
        BY <1>6, <1>10 DEF PassedTo
      <4> QED BY <1>12, <2>2, <3>1, <4>1
    <3> QED BY <1>12, <2>2, <3>1, <3>2, <3>3
  <2> QED BY <2>1, <2>2
<1> QED BY <1>1, <1>11, <1>13, <1>14

-----------------------------------------------------------------------------
(* The longest run.                                                        *)

LEMMA FartherType ==
  ASSUME NEW m \in Int, NEW i \in Int \X Int
  PROVE  Farther(m, i) \in Int
<1>1. i[1] \in Int /\ i[2] \in Int
  OBVIOUS
<1> QED BY <1>1 DEF Farther, Greater

\* The longest so far, interval by interval.
LEMMA FartherRuns ==
  ASSUME NEW s \in Seq((Int \X Int)), NEW base \in Int
  PROVE  \E run : /\ run[0] = base
                  /\ \A n \in 1..Len(s) : run[n] = Farther(run[n - 1], s[n])
                  /\ FoldLeft(Farther, base, s) = run[Len(s)]
<1> DEFINE N == Len(s)
           next == [p \in (1..N) \X Int |-> Farther(p[2], s[p[1]])]
           Folds(g) == g = [S \in SUBSET (1..N) |->
                              IF S = {} THEN base ELSE Farther(g[S \ {Max(S)}], s[Max(S)])]
           iter == CHOOSE g : Folds(g)
           run == [n \in 0..N |-> iter[1..n]]
<1>1. N \in Nat /\ DOMAIN s = 1..N /\ \A n \in 1..N : s[n] \in (Int \X Int)
  OBVIOUS
<1>2. \A n \in 1..N, a \in Int : next[<<n, a>>] = Farther(a, s[n]) /\ next[<<n, a>>] \in Int
  <2>1. ASSUME NEW n \in 1..N, NEW a \in Int
        PROVE  next[<<n, a>>] = Farther(a, s[n]) /\ Farther(a, s[n]) \in Int
    BY <1>1, FartherType
  <2> HIDE DEF next
  <2> QED BY <2>1
<1>3. FoldLeft(Farther, base, s) = iter[1..N]
  BY <1>1 DEF FoldLeft, MapThenFoldSet
<1> HIDE DEF N, next
<1>4. PICK it : Folded(it, N, Int, base, next)
  BY <1>1, <1>2, FoldExists DEF Steps
<1>5. Folds(it)
  <2>1. ASSUME NEW S \in SUBSET (1..N), S # {} PROVE it[S] = Farther(it[S \ {Max(S)}], s[Max(S)])
    <3>1. Max(S) \in 1..N /\ it[S \ {Max(S)}] \in Int /\ it[S] = next[<<Max(S), it[S \ {Max(S)}]>>]
      BY <1>4, <2>1 DEF Folded
    <3> QED BY <1>2, <3>1
  <2>2. it = [S \in SUBSET (1..N) |-> it[S]] /\ it[{}] = base
    BY <1>4 DEF Folded
  <2> QED BY <2>1, <2>2
<1>6. Folds(iter)
  <2> HIDE DEF Folds
  <2> QED BY <1>5
<1> HIDE DEF iter
<1>7. iter[1..0] = base
  BY <1>6, Beginnings
<1>8. ASSUME NEW n \in 1..N PROVE iter[1..n] = Farther(iter[1..(n - 1)], s[n])
  <2>1. n \in Nat /\ n # 0 /\ 1..n \in SUBSET (1..N)
    BY <1>1
  <2>2. 1..n # {} /\ Max(1..n) = n /\ (1..n) \ {n} = 1..(n - 1)
    BY <2>1, Beginnings
  <2> QED BY <1>6, <2>1, <2>2
<1>9. run[0] = base /\ run[N] = iter[1..N] /\ \A n \in 1..N : run[n] = Farther(run[n - 1], s[n])
  BY <1>1, <1>7, <1>8
<1> QED BY <1>3, <1>9 DEF N

LEMMA LongestIs ==
  ASSUME NEW ivs, ivs \in Intervals
  PROVE  /\ Longest(ivs) \in Int /\ 0 <= Longest(ivs)
         /\ \A n \in 1..Len(ivs) : ivs[n][2] - ivs[n][1] <= Longest(ivs)
         /\ Longest(ivs) # 0 => \E n \in 1..Len(ivs) : Longest(ivs) = ivs[n][2] - ivs[n][1]
<1> DEFINE N == Len(ivs)
           size(n) == ivs[n][2] - ivs[n][1]
<1>1. /\ N \in Nat /\ ivs \in Seq(Int \X Int)
      /\ \A n \in 1..N : ivs[n][1] \in Int /\ ivs[n][2] \in Int /\ size(n) \in Int
  BY IntervalFacts DEF Intervals
<1>2. Longest(ivs) = FoldLeft(Farther, 0, ivs)
  BY DEF Longest
<1>3. PICK run : /\ run[0] = 0
                 /\ \A n \in 1..N : run[n] = Farther(run[n - 1], ivs[n])
                 /\ FoldLeft(Farther, 0, ivs) = run[N]
  <2>1. 0 \in Int /\ ivs \in Seq(Int \X Int)
    BY <1>1
  <2> QED BY <2>1, FartherRuns, Zenon
<1> DEFINE Fine == {n \in 0..N :
                      /\ run[n] \in Int /\ 0 <= run[n] /\ \A m \in 1..n : size(m) <= run[n]
                      /\ run[n] # 0 => \E m \in 1..n : run[n] = size(m)}
<1>4. 0 \in Fine
  BY <1>1, <1>3
<1>5. ASSUME NEW n \in 1..N, n - 1 \in Fine PROVE n \in Fine
  <2>1. /\ run[n - 1] \in Int /\ 0 <= run[n - 1] /\ \A m \in 1..(n - 1) : size(m) <= run[n - 1]
        /\ run[n - 1] # 0 => \E m \in 1..(n - 1) : run[n - 1] = size(m)
    <3> HIDE DEF size
    <3> QED BY <1>5
  <2>2. run[n] = Greater(run[n - 1], size(n)) /\ size(n) \in Int
    BY <1>1, <1>3 DEF Farther
  <2>3. \A m \in 1..n : m \in 1..N /\ (m = n \/ m \in 1..(n - 1))
    BY <1>1
  <2>4. \A m \in 1..n : size(m) \in Int
    BY <1>1, <2>3
  <2> HIDE DEF size
  <2>5. run[n] \in Int /\ 0 <= run[n] /\ run[n - 1] <= run[n] /\ size(n) <= run[n]
    BY <2>1, <2>2 DEF Greater
  <2>6. \A m \in 1..n : size(m) <= run[n]
    BY <2>1, <2>3, <2>4, <2>5
  <2>7. ASSUME run[n] # 0 PROVE \E m \in 1..n : run[n] = size(m)
    <3>1. n \in 1..n /\ \A m \in 1..(n - 1) : m \in 1..n
      BY <1>1
    <3>2. run[n] = run[n - 1] \/ run[n] = size(n)
      BY <2>2 DEF Greater
    <3> QED BY <2>1, <2>7, <3>1, <3>2
  <2>8. n \in 0..N
    BY <1>1
  <2> QED BY <2>5, <2>6, <2>7, <2>8
<1>6. N \in Fine
  <2> HIDE DEF Fine, N
  <2>1. \A n \in 0..N : n \in Fine
    BY <1>1, <1>4, <1>5, Onwards
  <2> QED BY <1>1, <2>1
<1> QED BY <1>2, <1>3, <1>6

\* Seconds on end are of one interval, of those apart.
LEMMA WithinOne ==
  ASSUME NEW ivs, Apart(ivs), NEW a \in Int, NEW b \in Int, a <= b, a..b \subseteq Seconds(ivs)
  PROVE  \E n \in 1..Len(ivs) : ivs[n][1] <= a /\ b < ivs[n][2]
<1>1. /\ ivs \in Intervals
      /\ \A n \in 1..Len(ivs) : ivs[n][1] \in Int /\ ivs[n][2] \in Int
      /\ Len(ivs) \in Nat
  BY IntervalFacts DEF Apart
<1>2. a \in Seconds(ivs)
  OBVIOUS
<1>3. PICK n \in 1..Len(ivs) : ivs[n][1] <= a /\ a < ivs[n][2]
  BY <1>1, <1>2, IntervalFacts
<1>4. ASSUME ivs[n][2] <= b PROVE FALSE
  <2> DEFINE e == ivs[n][2]
  <2>1. e \in Int /\ e \in a..b
    BY <1>1, <1>3, <1>4
  <2>2. PICK m \in 1..Len(ivs) : ivs[m][1] <= e /\ e < ivs[m][2]
    BY <1>1, <2>1, IntervalFacts
  <2>3. m < n => ivs[m][2] < ivs[n][1]
    BY DEF Apart
  <2>4. n < m => e < ivs[m][1]
    BY DEF Apart
  <2>5. ivs[m][1] \in Int /\ ivs[m][2] \in Int /\ ivs[n][1] \in Int /\ m \in Nat /\ n \in Nat
    BY <1>1
  <2>6. m = n => e < e
    BY <2>2
  <2> HIDE DEF e
  <2> QED BY <1>3, <2>1, <2>2, <2>3, <2>4, <2>5, <2>6 DEF e
<1> QED BY <1>1, <1>3, <1>4

\* What a run of seconds counts is no more than the longest interval.
LEMMA NoRunIsLonger ==
  ASSUME NEW ivs, Apart(ivs), NEW a \in Int, NEW b \in Int, a..b \subseteq Seconds(ivs)
  PROVE  b - a + 1 <= Longest(ivs)
<1>1. /\ ivs \in Intervals /\ Longest(ivs) \in Int /\ 0 <= Longest(ivs)
      /\ \A n \in 1..Len(ivs) : ivs[n][1] \in Int /\ ivs[n][2] \in Int
      /\ \A n \in 1..Len(ivs) : ivs[n][2] - ivs[n][1] <= Longest(ivs)
  BY IntervalFacts, LongestIs DEF Apart
<1>2. CASE a <= b
  <2>1. PICK n \in 1..Len(ivs) : ivs[n][1] <= a /\ b < ivs[n][2]
    BY <1>2, WithinOne
  <2> QED BY <1>1, <2>1
<1>3. CASE ~(a <= b)
  BY <1>1, <1>3
<1> QED BY <1>2, <1>3

-----------------------------------------------------------------------------
(* What happened, and what Zabbix has of it.                               *)

ReplayEvent == [clock : Nat, value : BOOLEAN]

\* The changes of the seconds lo to hi, as a set.
ChangesIn(lo, hi) == {c \in Nat : lo <= c /\ c <= hi /\ c >= 2 /\ c <= Len(problem)
                                   /\ problem[c] # problem[c - 1]}

\* The changes of K, one event each, in order.
AreEventsOf(evs, K) ==
  /\ evs \in Seq(ReplayEvent)
  /\ \A n \in 1..Len(evs) : evs[n].clock \in K /\ evs[n].value = problem[evs[n].clock]
  /\ \A m, n \in 1..Len(evs) : m < n => evs[m].clock < evs[n].clock
  /\ \A c \in K : \E n \in 1..Len(evs) : evs[n].clock = c

History == problem \in Seq(BOOLEAN) /\ problem # <<>>

LEMMA ChangesAre ==
  ASSUME History, NEW lo \in Int, NEW hi \in Int
  PROVE  Changes(lo, hi) = ChangesIn(lo, hi) /\ Changes(lo, hi) \in SUBSET (1..Len(problem))
BY DEF Changes, ChangesIn, Greater, Lesser, History

LEMMA EventsAre ==
  ASSUME History, NEW lo \in Int, NEW hi \in Int
  PROVE  AreEventsOf(Events(lo, hi), ChangesIn(lo, hi))
<1> DEFINE all == [c \in 1..Len(problem) |-> [clock |-> c, value |-> problem[c]]]
           K == ChangesIn(lo, hi)
           evs == KeptEntries(all, K)
<1>1. Len(problem) \in Nat /\ \A c \in 1..Len(problem) : problem[c] \in BOOLEAN
  BY DEF History
<1>2. /\ all \in Seq(ReplayEvent) /\ Len(all) = Len(problem)
      /\ \A c \in 1..Len(problem) : all[c].clock = c /\ all[c].value = problem[c]
  <2>1. \A c \in 1..Len(problem) : all[c] \in ReplayEvent
    BY <1>1 DEF ReplayEvent
  <2> QED BY <1>1, <2>1
<1>3. Events(lo, hi) = evs /\ K \in SUBSET (1..Len(all))
  BY <1>2, ChangesAre DEF Events
<1> HIDE DEF all, K, evs
<1>4. evs \in Seq(ReplayEvent) /\ \E at : TakenFrom(all, K, evs, at)
  BY <1>2, <1>3, KeptProperties DEF evs
<1>5. PICK at : TakenFrom(all, K, evs, at)
  BY <1>4
<1>6. \A n \in 1..Len(evs) : at[n] \in K /\ evs[n] = all[at[n]]
  BY <1>5 DEF TakenFrom
<1>7. \A n \in 1..Len(evs) : evs[n].clock = at[n] /\ evs[n].value = problem[at[n]]
  BY <1>2, <1>3, <1>6
<1>8. /\ \A m, n \in 1..Len(evs) : m < n => at[m] < at[n]
      /\ \A c \in K : \E n \in 1..Len(evs) : at[n] = c
  BY <1>5, Zenon DEF TakenFrom
<1>9. \A n \in 1..Len(evs) : evs[n].clock \in K /\ evs[n].value = problem[evs[n].clock]
  BY <1>6, <1>7
<1>10. \A m, n \in 1..Len(evs) : m < n => evs[m].clock < evs[n].clock
  BY <1>7, <1>8
<1>11. \A c \in K : \E n \in 1..Len(evs) : evs[n].clock = c
  BY <1>7, <1>8
<1>12. AreEventsOf(evs, K)
  BY <1>4, <1>9, <1>10, <1>11, Zenon DEF AreEventsOf
<1> QED BY <1>3, <1>12 DEF K

\* Without a change the state stays.
LEMMA SameUntilChange ==
  ASSUME History, NEW a \in 1..Len(problem), NEW b \in 1..Len(problem), a <= b,
         \A c \in (a + 1)..b : problem[c] = problem[c - 1]
  PROVE  problem[a] = problem[b]
<1> DEFINE Other == {c \in a..b : problem[c] # problem[a]}
<1>1. Len(problem) \in Nat
  BY DEF History
<1>2. ASSUME Other # {} PROVE FALSE
  <2>1. Other \in SUBSET Nat
    BY <1>1
  <2>2. PICK c \in Other : \A d \in Other : c <= d
    BY <1>2, <2>1, HasALeast
  <2>3. c \in a..b /\ problem[c] # problem[a] /\ c # a
    BY <2>2
  <2>4. c - 1 \in a..b /\ c - 1 \notin Other /\ c \in (a + 1)..b
    BY <1>1, <2>2, <2>3
  <2>5. problem[c - 1] = problem[a] /\ problem[c] = problem[c - 1]
    BY <2>4
  <2> QED BY <2>3, <2>5
<1>3. b \in a..b /\ b \notin Other
  BY <1>1, <1>2
<1> QED BY <1>3

LEMMA SameBetween ==
  ASSUME History, NEW a \in 1..Len(problem), NEW b \in 1..Len(problem), a <= b,
         ChangesIn(a + 1, b) = {}
  PROVE  problem[a] = problem[b]
<1>1. Len(problem) \in Nat
  BY DEF History
<1>2. ASSUME NEW c \in (a + 1)..b PROVE problem[c] = problem[c - 1]
  <2>1. c \in Nat /\ a + 1 <= c /\ c <= b /\ c >= 2 /\ c <= Len(problem)
    BY <1>1
  <2>2. c \notin ChangesIn(a + 1, b)
    OBVIOUS
  <2> QED BY <2>1, <2>2 DEF ChangesIn
<1> QED BY <1>2, SameUntilChange

\* The first of some events: what it changed from was so since `lo'.
LEMMA BeforeTheFirst ==
  ASSUME History, NEW lo \in 1..Len(problem), NEW hi \in Int, NEW evs,
         AreEventsOf(evs, ChangesIn(lo + 1, hi)), evs # <<>>,
         NEW s \in lo..(evs[1].clock - 1)
  PROVE  problem[s] = ~evs[1].value
<1> DEFINE c == evs[1].clock
<1>1. Len(problem) \in Nat /\ \A i \in 1..Len(problem) : problem[i] \in BOOLEAN
  BY DEF History
<1>2. Len(evs) \in Nat /\ 1 \in 1..Len(evs)
  BY DEF AreEventsOf
<1>3. c \in ChangesIn(lo + 1, hi) /\ evs[1].value = problem[c]
  BY <1>2 DEF AreEventsOf
<1> HIDE DEF c
<1>4. c \in 2..Len(problem) /\ c <= hi /\ problem[c] # problem[c - 1]
  BY <1>3 DEF ChangesIn
<1>5. s \in Nat /\ s \in 1..Len(problem) /\ c - 1 \in 1..Len(problem) /\ s <= c - 1 /\ lo <= s
  BY <1>1, <1>4 DEF c
<1>6. ASSUME NEW d \in ChangesIn(s + 1, c - 1) PROVE FALSE
  <2>1. d \in Nat /\ d < c /\ d \in ChangesIn(lo + 1, hi)
    BY <1>4, <1>5, <1>6 DEF ChangesIn
  <2>2. PICK n \in 1..Len(evs) : evs[n].clock = d
    BY <2>1, Zenon DEF AreEventsOf
  <2>3. n = 1 \/ c < evs[n].clock
    <3>1. 1 < n => evs[1].clock < evs[n].clock
      BY <1>2, <2>2, Zenon DEF AreEventsOf
    <3> QED BY <1>2, <2>2, <3>1 DEF c
  <2> QED BY <1>4, <2>1, <2>2, <2>3 DEF c
<1>7. problem[s] = problem[c - 1]
  BY <1>5, <1>6, SameBetween
<1> QED BY <1>1, <1>3, <1>4, <1>5, <1>7

\* A window as AskFor takes it.
WindowOK ==
  /\ job.from \in Nat /\ job.to \in Nat /\ job.now \in Nat /\ job.strict \in BOOLEAN
  /\ 2 <= job.from /\ job.from < job.to
  /\ job.from <= job.now /\ job.now <= Len(problem) /\ job.from >= job.now - EventsKept

LEMMA WindowEnds ==
  ASSUME History, WindowOK
  PROVE  /\ End \in Nat /\ job.from <= End /\ End <= job.now /\ End <= Len(problem)
         /\ EndClip \in Nat /\ End - 1 <= EndClip /\ EndClip <= End /\ job.from <= EndClip
BY DEF History, WindowOK, End, EndClip, Closed, Lesser

Extendable(out, a, b) == out \in Seq(Nat \X Nat) /\ a \in Nat /\ b \in Nat

\* A span appended adds its seconds.
LEMMA OneMoreSpan ==
  ASSUME NEW out, NEW a, NEW b, Extendable(out, a, b)
  PROVE  /\ out \o Span(a, b) \in Seq(Nat \X Nat)
         /\ Seconds(out \o Span(a, b)) = Seconds(out) \cup (a..(b - 1))
<1>1. /\ out \in Seq(Nat \X Nat) /\ Span(a, b) \in Seq(Nat \X Nat)
      /\ a \in Nat /\ b \in Nat
  <2>1. /\ out \in Seq(Nat \X Nat) /\ a \in Nat /\ b \in Nat
        /\ <<>> \in Seq(Nat \X Nat) /\ <<<<a, b>>>> \in Seq(Nat \X Nat)
    BY DEF Extendable
  <2> QED BY <2>1 DEF Span
<1>2. out \o Span(a, b) \in Seq(Nat \X Nat)
  BY <1>1, ConcatProperties, Zenon
<1>3. out \in Intervals
  <2>1. Len(out) \in Nat /\ \A n \in 1..Len(out) : out[n] \in Nat \X Nat
    BY <1>1
  <2> DEFINE Pair == Int \X Int
  <2>2. \A n \in 1..Len(out) : out[n] \in Pair
    <3>1. ASSUME NEW p \in Nat \X Nat PROVE p \in Int \X Int
      OBVIOUS
    <3> QED BY <2>1, <3>1
  <2>3. out = [n \in 1..Len(out) |-> out[n]]
    BY <1>1
  <2> HIDE DEF Pair
  <2>4. out \in Seq(Pair)
    BY <2>1, <2>2, <2>3
  <2> QED BY <2>4 DEF Intervals, Pair
<1>4. Addable(out, a, b)
  BY <1>1, <1>3 DEF Addable
<1> QED BY <1>2, <1>4, SpanAdds

-----------------------------------------------------------------------------
(* intervalsFor.                                                           *)

Doing == [open : Nat, out : Seq(Nat \X Nat)]

\* The state from the n-th event on, and the second it begins with.
Begins(evs, n) == IF n = 0 THEN job.from ELSE evs[n].clock
StateFrom(evs, initial, n) == IF n = 0 THEN initial ELSE evs[n].value

\* What is put out and held open after n events.
SoFar(evs, initial, n, acc) ==
  /\ acc \in Doing
  /\ acc.open # 0 <=> StateFrom(evs, initial, n)
  /\ acc.open # 0 =>
       /\ job.from <= acc.open /\ acc.open <= Begins(evs, n)
       /\ \A s \in acc.open..(Begins(evs, n) - 1) : problem[s]
  /\ \A s \in Int : s \in Seconds(acc.out) <=>
       /\ s \in job.from..(Begins(evs, n) - 1) /\ problem[s]
       /\ acc.open # 0 => s < acc.open

\* The state the window opened in, as far as it shows.
OpensIn(evs, initial) ==
  /\ initial \in BOOLEAN
  /\ evs # <<>> => initial = ~evs[1].value
  /\ evs = <<>> => \A s \in job.from..(End - 1) : problem[s] = initial

LEMMA EventsOfWindow ==
  ASSUME History, WindowOK, NEW evs, AreEventsOf(evs, ChangesIn(job.from, End - 1)),
         NEW n \in 1..Len(evs)
  PROVE  /\ evs[n] \in ReplayEvent /\ evs[n].clock \in Nat /\ evs[n].value \in BOOLEAN
         /\ job.from <= evs[n].clock /\ evs[n].clock <= End - 1
         /\ 2 <= evs[n].clock /\ evs[n].clock <= Len(problem)
         /\ problem[evs[n].clock] = evs[n].value
<1>1. evs[n] \in ReplayEvent /\ evs[n].clock \in ChangesIn(job.from, End - 1) /\ evs[n].value = problem[evs[n].clock]
  BY DEF AreEventsOf
<1> QED BY <1>1 DEF ReplayEvent, ChangesIn

\* The state between two events, and after the last.
LEMMA StateBetween ==
  ASSUME History, WindowOK, NEW evs, AreEventsOf(evs, ChangesIn(job.from, End - 1)),
         NEW initial, OpensIn(evs, initial), NEW n \in 0..Len(evs), NEW s \in Nat,
         Begins(evs, n) <= s, s < IF n = Len(evs) THEN End ELSE evs[n + 1].clock
  PROVE  problem[s] = StateFrom(evs, initial, n)
<1>1. Len(evs) \in Nat /\ Len(problem) \in Nat
  BY DEF AreEventsOf, History
<1>2. /\ End \in Nat /\ job.from <= End /\ End <= Len(problem) /\ job.from \in Nat /\ 2 <= job.from
  BY WindowEnds DEF WindowOK
<1>3. CASE n = 0 /\ Len(evs) = 0
  <2>1. evs = <<>>
    BY <1>3 DEF AreEventsOf
  <2> QED BY <1>2, <1>3, <2>1 DEF OpensIn, Begins, StateFrom
<1>4. CASE n = 0 /\ Len(evs) # 0
  <2>1. evs # <<>> /\ 1 \in 1..Len(evs)
    BY <1>1, <1>4
  <2>2. evs[1].clock \in Nat
    BY <2>1, EventsOfWindow
  <2> DEFINE lo == job.from - 1
  <2>3. lo \in 1..Len(problem) /\ lo + 1 = job.from /\ End - 1 \in Int
    BY <1>1, <1>2
  <2>4. s \in lo..(evs[1].clock - 1)
    BY <1>1, <1>2, <1>4, <2>2 DEF Begins
  <2> HIDE DEF lo
  <2>5. problem[s] = ~evs[1].value
    BY <2>1, <2>3, <2>4, BeforeTheFirst
  <2> QED BY <1>4, <2>1, <2>5 DEF OpensIn, StateFrom
<1>5. CASE n # 0
  <2> DEFINE a == evs[n].clock
             next == IF n = Len(evs) THEN End ELSE evs[n + 1].clock
  <2>1. n \in 1..Len(evs)
    BY <1>1, <1>5
  <2>2. /\ a \in Nat /\ evs[n].value \in BOOLEAN /\ job.from <= a /\ a <= End - 1
        /\ problem[a] = evs[n].value
    BY <2>1, EventsOfWindow
  <2>3. next \in Nat /\ next <= End
    <3>1. CASE n = Len(evs)
      BY <1>2, <3>1
    <3>2. CASE n # Len(evs)
      <4>1. n + 1 \in 1..Len(evs)
        BY <1>1, <3>2
      <4>2. evs[n + 1].clock \in Nat /\ evs[n + 1].clock <= End - 1
        BY <4>1, EventsOfWindow
      <4> QED BY <1>2, <3>2, <4>2
    <3> QED BY <3>1, <3>2
  <2>4. a <= s /\ s < next
    BY <1>5 DEF Begins
  <2>5. a \in 1..Len(problem) /\ s \in 1..Len(problem)
    BY <1>1, <1>2, <2>2, <2>3, <2>4
  <2>6. ASSUME NEW c \in ChangesIn(a + 1, s) PROVE FALSE
    <3>1. c \in Nat /\ a < c /\ c <= s /\ c \in ChangesIn(job.from, End - 1)
      <4>1. c \in Nat /\ a + 1 <= c /\ c <= s /\ c >= 2 /\ c <= Len(problem)
            /\ problem[c] # problem[c - 1]
        BY DEF ChangesIn
      <4>2. job.from <= c /\ c <= End - 1
        <5>1. s \in Nat /\ End \in Nat /\ job.from \in Nat
          BY <1>2
        <5> QED BY <2>2, <2>3, <2>4, <4>1, <5>1
      <4> QED BY <2>2, <4>1, <4>2 DEF ChangesIn
    <3>2. PICK k \in 1..Len(evs) : evs[k].clock = c
      BY <3>1, Zenon DEF AreEventsOf
    <3>3. ~(k <= n)
      <4>1. k < n => evs[k].clock < evs[n].clock
        BY <2>1 DEF AreEventsOf
      <4> QED BY <2>1, <2>2, <3>1, <3>2, <4>1
    <3>4. n + 1 \in 1..Len(evs) /\ (n + 1 = k \/ n + 1 < k) /\ n # Len(evs)
      BY <1>1, <2>1, <3>3
    <3>5. n + 1 < k => evs[n + 1].clock < evs[k].clock
      BY <3>4 DEF AreEventsOf
    <3> QED BY <2>3, <2>4, <3>1, <3>2, <3>4, <3>5
  <2> HIDE DEF a, next
  <2>7. problem[a] = problem[s]
    BY <2>4, <2>5, <2>6, SameBetween
  <2> QED BY <1>5, <2>2, <2>7 DEF StateFrom
<1> QED BY <1>1, <1>3, <1>4, <1>5

LEMMA ReplayingType ==
  ASSUME History, WindowOK, NEW acc \in Doing, NEW ev \in ReplayEvent
  PROVE  Replaying(acc, ev) \in Doing
<1>1. acc.open \in Nat /\ acc.out \in Seq(Nat \X Nat) /\ ev.clock \in Nat
  BY DEF Doing, ReplayEvent
<1>2. acc.out \o Span(acc.open, ev.clock) \in Seq(Nat \X Nat)
  BY <1>1, OneMoreSpan DEF Extendable
<1> HIDE DEF Span
<1> QED BY <1>1, <1>2 DEF Replaying, Doing

LEMMA ReplayingGoesOn ==
  ASSUME History, WindowOK, NEW evs, AreEventsOf(evs, ChangesIn(job.from, End - 1)),
         NEW initial, OpensIn(evs, initial), NEW n \in 1..Len(evs), NEW acc,
         SoFar(evs, initial, n - 1, acc)
  PROVE  SoFar(evs, initial, n, Replaying(acc, evs[n]))
<1> DEFINE c == evs[n].clock
           b == Begins(evs, n - 1)
           was == StateFrom(evs, initial, n - 1)
           acc2 == Replaying(acc, evs[n])
<1>1. Len(evs) \in Nat /\ n - 1 \in 0..Len(evs) /\ n - 1 # Len(evs) /\ (n - 1) + 1 = n /\ n # 0
  BY DEF AreEventsOf
<1>2. /\ evs[n] \in ReplayEvent /\ c \in Nat /\ evs[n].value \in BOOLEAN
      /\ job.from <= c /\ c <= EndClip /\ c >= 2
  <2>1. /\ evs[n] \in ReplayEvent /\ c \in Nat /\ evs[n].value \in BOOLEAN /\ job.from <= c /\ c <= End - 1 /\ 2 <= c
    BY EventsOfWindow
  <2> HIDE DEF c
  <2> QED BY <2>1, WindowEnds
<1>3. b \in Nat /\ job.from <= b /\ b <= c /\ job.from \in Nat /\ was \in BOOLEAN
  <2>1. CASE n = 1
    BY <1>2, <2>1 DEF WindowOK, Begins, StateFrom, OpensIn
  <2>2. CASE n # 1
    <3>1. n - 1 \in 1..Len(evs) /\ n - 1 # 0 /\ n - 1 < n
      BY <1>1, <2>2
    <3>2. evs[n - 1].clock < c
      BY <3>1 DEF AreEventsOf
    <3>3. evs[n - 1].clock \in Nat /\ job.from <= evs[n - 1].clock /\ evs[n - 1].value \in BOOLEAN
      BY <3>1, EventsOfWindow
    <3> QED BY <1>2, <3>1, <3>2, <3>3 DEF WindowOK, Begins, StateFrom
  <2> QED BY <2>1, <2>2
<1>4. ASSUME NEW s \in b..(c - 1) PROVE problem[s] = was
  <2>1. s \in Nat /\ b <= s /\ s < c
    BY <1>2, <1>3
  <2> QED BY <1>1, <2>1, StateBetween
<1>5. Begins(evs, n) = c /\ StateFrom(evs, initial, n) = evs[n].value
  BY <1>1 DEF Begins, StateFrom
<1>6. /\ acc \in Doing /\ acc.open \in Nat /\ acc.out \in Seq(Nat \X Nat)
      /\ acc.open # 0 <=> was
      /\ acc.open # 0 => /\ job.from <= acc.open /\ acc.open <= b
                         /\ \A s \in acc.open..(b - 1) : problem[s]
      /\ \A s \in Int : s \in Seconds(acc.out) <=>
           /\ s \in job.from..(b - 1) /\ problem[s]
           /\ acc.open # 0 => s < acc.open
  BY DEF SoFar, Doing
<1>7. acc2 \in Doing
  BY <1>2, <1>6, ReplayingType
<1>8. acc2 = IF evs[n].value THEN [acc EXCEPT !.open = IF @ = 0 THEN c ELSE @]
             ELSE IF acc.open = 0 THEN acc
             ELSE [open |-> 0, out |-> acc.out \o Span(acc.open, c)]
  <2>1. ~(c < job.from \/ c > EndClip)
    BY <1>2, <1>3, WindowEnds
  <2> QED BY <2>1 DEF Replaying
<1> DEFINE Good == /\ acc2.open # 0 <=> evs[n].value
                   /\ acc2.open # 0 => /\ job.from <= acc2.open /\ acc2.open <= c
                                       /\ \A s \in acc2.open..(c - 1) : problem[s]
                   /\ \A s \in Int : s \in Seconds(acc2.out) <=>
                        /\ s \in job.from..(c - 1) /\ problem[s]
                        /\ acc2.open # 0 => s < acc2.open
<1> HIDE DEF acc2, c, b, was
<1>9. ASSUME evs[n].value /\ acc.open = 0 PROVE Good
  <2>1. acc2.open = c /\ acc2.out = acc.out
    BY <1>6, <1>8, <1>9 DEF Doing
  <2>2. ASSUME NEW s \in Int
        PROVE  s \in Seconds(acc.out) <=> s \in job.from..(c - 1) /\ problem[s] /\ s < c
    BY <1>2, <1>3, <1>4, <1>6, <1>9
  <2> QED BY <1>2, <1>3, <1>9, <2>1, <2>2
<1>10. ASSUME evs[n].value /\ acc.open # 0 PROVE Good
  <2>1. acc2.open = acc.open /\ acc2.out = acc.out
    BY <1>6, <1>8, <1>10 DEF Doing
  <2>2. ASSUME NEW s \in Int
        PROVE  s \in Seconds(acc.out) <=> s \in job.from..(c - 1) /\ problem[s] /\ s < acc.open
    BY <1>2, <1>3, <1>6, <1>10
  <2>3. \A s \in acc.open..(c - 1) : problem[s]
    BY <1>2, <1>3, <1>4, <1>6, <1>10
  <2> QED BY <1>2, <1>3, <1>6, <1>10, <2>1, <2>2, <2>3
<1>11. ASSUME ~evs[n].value /\ acc.open = 0 PROVE Good
  <2>1. acc2 = acc
    BY <1>8, <1>11
  <2>2. ASSUME NEW s \in Int
        PROVE  s \in Seconds(acc.out) <=> s \in job.from..(c - 1) /\ problem[s]
    BY <1>2, <1>3, <1>4, <1>6, <1>11
  <2> QED BY <1>11, <2>1, <2>2
<1>12. ASSUME ~evs[n].value /\ acc.open # 0 PROVE Good
  <2>1. acc2.open = 0 /\ acc2.out = acc.out \o Span(acc.open, c)
    BY <1>8, <1>12
  <2>2. Seconds(acc2.out) = Seconds(acc.out) \cup (acc.open..(c - 1))
    <3>1. Seconds(acc.out \o Span(acc.open, c)) = Seconds(acc.out) \cup (acc.open..(c - 1))
      <4>1. acc.open \in Nat /\ acc.out \in Seq(Nat \X Nat) /\ c \in Nat
        BY <1>2, <1>6
      <4> QED BY <4>1, OneMoreSpan DEF Extendable
    <3> QED BY <2>1, <3>1
  <2>3. \A s \in acc.open..(c - 1) : problem[s]
    BY <1>2, <1>3, <1>4, <1>6, <1>12
  <2>4. ASSUME NEW s \in Int
        PROVE  s \in Seconds(acc2.out) <=> s \in job.from..(c - 1) /\ problem[s]
    <3>1. s \in Seconds(acc.out) <=> s \in job.from..(b - 1) /\ problem[s] /\ s < acc.open
      BY <1>6, <1>12
    <3> QED BY <1>2, <1>3, <1>6, <1>12, <2>2, <2>3, <3>1
  <2> QED BY <1>12, <2>1, <2>4
<1>13. Good
  <2> HIDE DEF Good
  <2> QED BY <1>2, <1>9, <1>10, <1>11, <1>12
<1>14. SoFar(evs, initial, n, acc2)
  BY <1>5, <1>7, <1>13 DEF SoFar
<1> QED BY <1>14 DEF acc2

\* The loop of intervalsFor.
LEMMA ReplayingRuns ==
  ASSUME History, WindowOK, NEW evs \in Seq(ReplayEvent), NEW base \in Doing
  PROVE  \E run : /\ run[0] = base
                  /\ \A n \in 1..Len(evs) : run[n] = Replaying(run[n - 1], evs[n])
                  /\ FoldLeft(Replaying, base, evs) = run[Len(evs)]
<1> DEFINE N == Len(evs)
           next == [p \in (1..N) \X Doing |-> Replaying(p[2], evs[p[1]])]
           Folds(g) == g = [s \in SUBSET (1..N) |->
                              IF s = {} THEN base ELSE Replaying(g[s \ {Max(s)}], evs[Max(s)])]
           iter == CHOOSE g : Folds(g)
           run == [n \in 0..N |-> iter[1..n]]
<1>1. N \in Nat /\ DOMAIN evs = 1..N /\ \A n \in 1..N : evs[n] \in ReplayEvent
  OBVIOUS
<1>2. \A n \in 1..N, a \in Doing : next[<<n, a>>] = Replaying(a, evs[n]) /\ next[<<n, a>>] \in Doing
  <2>1. ASSUME NEW n \in 1..N, NEW a \in Doing
        PROVE  next[<<n, a>>] = Replaying(a, evs[n]) /\ Replaying(a, evs[n]) \in Doing
    BY <1>1, ReplayingType
  <2> HIDE DEF next
  <2> QED BY <2>1
<1>3. FoldLeft(Replaying, base, evs) = iter[1..N]
  BY <1>1 DEF FoldLeft, MapThenFoldSet
<1> HIDE DEF N, next
<1>4. PICK it : Folded(it, N, Doing, base, next)
  BY <1>1, <1>2, FoldExists DEF Steps
<1>5. Folds(it)
  <2>1. ASSUME NEW s \in SUBSET (1..N), s # {} PROVE it[s] = Replaying(it[s \ {Max(s)}], evs[Max(s)])
    <3>1. Max(s) \in 1..N /\ it[s \ {Max(s)}] \in Doing /\ it[s] = next[<<Max(s), it[s \ {Max(s)}]>>]
      BY <1>4, <2>1 DEF Folded
    <3> QED BY <1>2, <3>1
  <2>2. it = [s \in SUBSET (1..N) |-> it[s]] /\ it[{}] = base
    BY <1>4 DEF Folded
  <2> QED BY <2>1, <2>2
<1>6. Folds(iter)
  <2> HIDE DEF Folds
  <2> QED BY <1>5
<1> HIDE DEF iter
<1>7. iter[1..0] = base
  BY <1>6, Beginnings
<1>8. ASSUME NEW n \in 1..N PROVE iter[1..n] = Replaying(iter[1..(n - 1)], evs[n])
  <2>1. n \in Nat /\ n # 0 /\ 1..n \in SUBSET (1..N)
    BY <1>1
  <2>2. 1..n # {} /\ Max(1..n) = n /\ (1..n) \ {n} = 1..(n - 1)
    BY <2>1, Beginnings
  <2> QED BY <1>6, <2>1, <2>2
<1>9. run[0] = base /\ run[N] = iter[1..N] /\ \A n \in 1..N : run[n] = Replaying(run[n - 1], evs[n])
  BY <1>1, <1>7, <1>8
<1> QED BY <1>3, <1>9 DEF N

LEMMA ReplayedExactly ==
  ASSUME History, WindowOK, NEW evs, AreEventsOf(evs, ChangesIn(job.from, End - 1)),
         NEW initial, OpensIn(evs, initial)
  PROVE  /\ Replayed(evs, initial) \in Seq(Nat \X Nat)
         /\ Seconds(Replayed(evs, initial)) = {s \in job.from..(EndClip - 1) : problem[s]}
<1> DEFINE N == Len(evs)
           base == [open |-> IF initial THEN job.from ELSE 0, out |-> <<>>]
<1>1. N \in Nat /\ evs \in Seq(ReplayEvent)
  BY DEF AreEventsOf
<1>2. base \in Doing
  BY DEF WindowOK, OpensIn, Doing
<1> HIDE DEF N, base
<1>7. PICK run : /\ run[0] = base
                 /\ \A n \in 1..N : run[n] = Replaying(run[n - 1], evs[n])
                 /\ FoldLeft(Replaying, base, evs) = run[N]
  BY <1>1, <1>2, ReplayingRuns DEF N
<1>8. Replayed(evs, initial) = IF run[N].open = 0 THEN run[N].out ELSE run[N].out \o Span(run[N].open, EndClip)
  BY <1>7 DEF Replayed, base
<1>9. SoFar(evs, initial, 0, run[0])
  <2>1. Seconds(<<>>) = {}
    BY DEF Seconds
  <2>2. job.from \in Nat /\ 2 <= job.from /\ initial \in BOOLEAN
    BY DEF WindowOK, OpensIn
  <2>3. base.open = (IF initial THEN job.from ELSE 0) /\ base.out = <<>>
    BY DEF base
  <2> QED BY <1>2, <1>7, <2>1, <2>2, <2>3 DEF SoFar, Begins, StateFrom
<1>10. SoFar(evs, initial, N, run[N])
  <2> DEFINE S == {n \in 0..N : SoFar(evs, initial, n, run[n])}
  <2>1. 0 \in S
    BY <1>1, <1>9
  <2>2. ASSUME NEW n \in 1..N, n - 1 \in S PROVE n \in S
    <3>1. SoFar(evs, initial, n - 1, run[n - 1])
      BY <2>2
    <3>2. SoFar(evs, initial, n, Replaying(run[n - 1], evs[n]))
      BY <3>1, ReplayingGoesOn DEF N
    <3> QED BY <1>1, <1>7, <3>2
  <2> HIDE DEF S
  <2>3. \A n \in 0..N : n \in S
    BY <1>1, <2>1, <2>2, Onwards
  <2> QED BY <1>1, <2>3 DEF S
<1> DEFINE all == run[N]
           b == Begins(evs, N)
<1> HIDE DEF all
<1>11. /\ all.open \in Nat /\ all.out \in Seq(Nat \X Nat)
       /\ all.open # 0 <=> StateFrom(evs, initial, N)
       /\ all.open # 0 => /\ job.from <= all.open /\ all.open <= b
                          /\ \A s \in all.open..(b - 1) : problem[s]
       /\ \A s \in Int : s \in Seconds(all.out) <=>
            /\ s \in job.from..(b - 1) /\ problem[s]
            /\ all.open # 0 => s < all.open
  BY <1>10 DEF SoFar, Doing, all
<1>12. b \in Nat /\ job.from \in Nat /\ job.from <= b /\ b <= EndClip /\ EndClip \in Nat /\ End \in Nat /\ EndClip <= End
  <2>1. CASE N = 0
    BY <2>1, WindowEnds DEF WindowOK, Begins
  <2>2. CASE N # 0
    <3>1. N \in 1..Len(evs)
      BY <1>1, <2>2 DEF N
    <3>2. evs[N].clock \in Nat /\ job.from <= evs[N].clock /\ evs[N].clock <= End - 1
      BY <3>1, EventsOfWindow
    <3> QED BY <2>2, <3>2, WindowEnds DEF WindowOK, Begins
  <2> QED BY <2>1, <2>2
<1>13. ASSUME NEW s \in b..(EndClip - 1) PROVE problem[s] = StateFrom(evs, initial, N)
  <2>1. s \in Nat /\ b <= s /\ s < End /\ N \in 0..Len(evs) /\ N = Len(evs)
    BY <1>1, <1>12 DEF N
  <2> QED BY <2>1, StateBetween
<1> HIDE DEF b
<1>14. CASE all.open = 0
  <2>1. ASSUME NEW s \in Int PROVE s \in Seconds(all.out) <=> s \in job.from..(EndClip - 1) /\ problem[s]
    BY <1>11, <1>12, <1>13, <1>14
  <2>2. Replayed(evs, initial) = all.out
    BY <1>8, <1>14 DEF all
  <2>3. \A s \in Seconds(all.out) : s \in Int
    BY <1>11 DEF Seconds
  <2> QED BY <1>11, <2>1, <2>2, <2>3
<1>15. CASE all.open # 0
  <2>1. Replayed(evs, initial) = all.out \o Span(all.open, EndClip)
    BY <1>8, <1>15 DEF all
  <2>2. /\ Replayed(evs, initial) \in Seq(Nat \X Nat)
        /\ Seconds(Replayed(evs, initial)) = Seconds(all.out) \cup (all.open..(EndClip - 1))
    <3>1. /\ all.out \o Span(all.open, EndClip) \in Seq(Nat \X Nat)
          /\ Seconds(all.out \o Span(all.open, EndClip)) = Seconds(all.out) \cup (all.open..(EndClip - 1))
      <4>1. all.open \in Nat /\ all.out \in Seq(Nat \X Nat) /\ EndClip \in Nat
        BY <1>11, <1>12
      <4> QED BY <4>1, OneMoreSpan DEF Extendable
    <3> QED BY <2>1, <3>1
  <2>3. \A s \in all.open..(EndClip - 1) : problem[s]
    BY <1>11, <1>12, <1>13, <1>15
  <2>4. ASSUME NEW s \in Int
        PROVE  s \in Seconds(all.out) \cup (all.open..(EndClip - 1)) <=> s \in job.from..(EndClip - 1) /\ problem[s]
    <3>1. s \in Seconds(all.out) <=> s \in job.from..(b - 1) /\ problem[s] /\ s < all.open
      BY <1>11, <1>15
    <3> QED BY <1>11, <1>12, <1>15, <2>3, <3>1
  <2>5. \A s \in Seconds(all.out) : s \in Int
    BY <1>11 DEF Seconds
  <2> QED BY <2>2, <2>4, <2>5
<1> QED BY <1>14, <1>15

-----------------------------------------------------------------------------
(* firstEventsAfter and initialState.                                      *)

Looking == [start : Nat, found : Seq(ReplayEvent)]

\* Nothing changed between the end of the window and where is looked next, or
\* what was found begins with the first that did.
Looked(acc) ==
  /\ acc \in Looking /\ acc.start >= End
  /\ acc.found = <<>> => \A c \in ChangesIn(End, job.now) : c >= acc.start
  /\ acc.found # <<>> => \E hi \in Nat : hi <= job.now /\ AreEventsOf(acc.found, ChangesIn(End, hi))

LEMMA LookOnKeeps ==
  ASSUME History, WindowOK, NEW acc, Looked(acc), NEW span \in Nat
  PROVE  /\ Looked(LookOn(acc, span))
         /\ LookOn(acc, span).found = <<>> =>
              \/ LookOn(acc, span).start > job.now
              \/ acc.start + span < job.now
<1> DEFINE lookedTo == Lesser(job.now, acc.start + span)
           evs == Events(acc.start, lookedTo)
<1>1. acc \in Looking /\ acc.start \in Nat /\ acc.start >= End /\ End \in Nat /\ job.now \in Nat
      /\ job.now <= Len(problem)
  BY WindowEnds DEF Looked, Looking, WindowOK
<1>2. CASE acc.found # <<>> \/ acc.start > job.now
  <2>1. LookOn(acc, span) = acc
    BY <1>2 DEF LookOn
  <2> QED BY <1>2, <2>1
<1>3. CASE acc.found = <<>> /\ ~(acc.start > job.now)
  <2>1. lookedTo \in Nat /\ acc.start <= lookedTo /\ lookedTo <= job.now
        /\ (lookedTo = job.now \/ acc.start + span < job.now)
    BY <1>1, <1>3 DEF Lesser
  <2> HIDE DEF lookedTo
  <2>2. AreEventsOf(evs, ChangesIn(acc.start, lookedTo))
    BY <1>1, <2>1, EventsAre
  <2>3. ChangesIn(acc.start, lookedTo) = ChangesIn(End, lookedTo)
    <3>1. \A c \in ChangesIn(End, job.now) : c >= acc.start
      BY <1>3 DEF Looked
    <3> QED BY <1>1, <2>1, <3>1 DEF ChangesIn
  <2>4. LookOn(acc, span) = [start |-> lookedTo + 1, found |-> evs]
    BY <1>3 DEF LookOn, lookedTo
  <2>5. evs \in Seq(ReplayEvent)
    BY <2>2 DEF AreEventsOf
  <2> HIDE DEF evs
  <2>6. LookOn(acc, span) \in Looking /\ LookOn(acc, span).start = lookedTo + 1 /\ LookOn(acc, span).found = evs
    BY <2>1, <2>4, <2>5 DEF Looking
  <2>7. ASSUME evs = <<>>, NEW c \in ChangesIn(End, job.now) PROVE c >= lookedTo + 1
    <3>1. Len(evs) = 0
      BY <2>7
    <3>2. c \notin ChangesIn(End, lookedTo)
      BY <2>2, <2>3, <3>1 DEF AreEventsOf
    <3> QED BY <1>1, <2>1, <3>2 DEF ChangesIn
  <2>8. evs # <<>> => \E hi \in Nat : hi <= job.now /\ AreEventsOf(evs, ChangesIn(End, hi))
    BY <2>1, <2>2, <2>3
  <2>9. Looked(LookOn(acc, span))
    BY <1>1, <2>1, <2>6, <2>7, <2>8 DEF Looked
  <2> QED BY <1>1, <2>1, <2>6, <2>9
<1> QED BY <1>2, <1>3

\* The loop of firstEventsAfter.
LookedSoFar == {acc \in Looking : Looked(acc)}

LEMMA LookOnRuns ==
  ASSUME History, WindowOK, NEW base \in LookedSoFar
  PROVE  \E run : /\ run[0] = base
                  /\ \A n \in 1..Len(Spans) : run[n] = LookOn(run[n - 1], Spans[n])
                  /\ FoldLeft(LookOn, base, Spans) = run[Len(Spans)]
<1> DEFINE N == Len(Spans)
           next == [p \in (1..N) \X LookedSoFar |-> LookOn(p[2], Spans[p[1]])]
           Folds(g) == g = [s \in SUBSET (1..N) |->
                              IF s = {} THEN base ELSE LookOn(g[s \ {Max(s)}], Spans[Max(s)])]
           iter == CHOOSE g : Folds(g)
           run == [n \in 0..N |-> iter[1..n]]
<1>1. N \in Nat /\ DOMAIN Spans = 1..N /\ \A n \in 1..N : Spans[n] \in Nat
  BY SpanAssumption
<1>2. \A n \in 1..N, a \in LookedSoFar : next[<<n, a>>] = LookOn(a, Spans[n]) /\ next[<<n, a>>] \in LookedSoFar
  <2>1. ASSUME NEW n \in 1..N, NEW a \in LookedSoFar
        PROVE  next[<<n, a>>] = LookOn(a, Spans[n]) /\ LookOn(a, Spans[n]) \in LookedSoFar
    BY <1>1, LookOnKeeps DEF LookedSoFar, Looked
  <2> HIDE DEF next
  <2> QED BY <2>1
<1>3. FoldLeft(LookOn, base, Spans) = iter[1..N]
  BY <1>1 DEF FoldLeft, MapThenFoldSet
<1> HIDE DEF N, next
<1>4. PICK it : Folded(it, N, LookedSoFar, base, next)
  BY <1>1, <1>2, FoldExists DEF Steps
<1>5. Folds(it)
  <2>1. ASSUME NEW s \in SUBSET (1..N), s # {} PROVE it[s] = LookOn(it[s \ {Max(s)}], Spans[Max(s)])
    <3>1. Max(s) \in 1..N /\ it[s \ {Max(s)}] \in LookedSoFar /\ it[s] = next[<<Max(s), it[s \ {Max(s)}]>>]
      BY <1>4, <2>1 DEF Folded
    <3> QED BY <1>2, <3>1
  <2>2. it = [s \in SUBSET (1..N) |-> it[s]] /\ it[{}] = base
    BY <1>4 DEF Folded
  <2> QED BY <2>1, <2>2
<1>6. Folds(iter)
  <2> HIDE DEF Folds
  <2> QED BY <1>5
<1> HIDE DEF iter
<1>7. iter[1..0] = base
  BY <1>6, Beginnings
<1>8. ASSUME NEW n \in 1..N PROVE iter[1..n] = LookOn(iter[1..(n - 1)], Spans[n])
  <2>1. n \in Nat /\ n # 0 /\ 1..n \in SUBSET (1..N)
    BY <1>1
  <2>2. 1..n # {} /\ Max(1..n) = n /\ (1..n) \ {n} = 1..(n - 1)
    BY <2>1, Beginnings
  <2> QED BY <1>6, <2>1, <2>2
<1>9. run[0] = base /\ run[N] = iter[1..N] /\ \A n \in 1..N : run[n] = LookOn(run[n - 1], Spans[n])
  BY <1>1, <1>7, <1>8
<1> QED BY <1>3, <1>9 DEF N

LEMMA FirstAfterFinds ==
  ASSUME History, WindowOK
  PROVE  /\ FirstAfter \in Seq(ReplayEvent)
         /\ FirstAfter = <<>> => ChangesIn(End, job.now) = {}
         /\ FirstAfter # <<>> =>
              \E hi \in Nat : hi <= job.now /\ AreEventsOf(FirstAfter, ChangesIn(End, hi))
<1> DEFINE N == Len(Spans)
           base == [start |-> End, found |-> <<>>]
<1>1. /\ N \in Nat /\ N # 0 /\ \A n \in 1..N : Spans[n] \in Nat
      /\ Spans[N] >= EventsKept /\ EventsKept \in Nat
  BY SpanAssumption DEF Last
<1>2. base \in LookedSoFar
  <2>1. base \in Looking /\ base.start = End /\ base.found = <<>> /\ End \in Nat
    BY WindowEnds DEF Looking
  <2>2. \A c \in ChangesIn(End, job.now) : c >= End
    BY DEF ChangesIn
  <2> HIDE DEF base
  <2> QED BY <2>1, <2>2 DEF Looked, LookedSoFar
<1> HIDE DEF N, base
<1>7. PICK run : /\ run[0] = base
                 /\ \A n \in 1..N : run[n] = LookOn(run[n - 1], Spans[n])
                 /\ FoldLeft(LookOn, base, Spans) = run[N]
  BY <1>2, LookOnRuns DEF N
<1>8. FirstAfter = run[N].found
  BY <1>7 DEF FirstAfter, base
<1>9. \A n \in 0..N : Looked(run[n])
  <2> DEFINE S == {n \in 0..N : Looked(run[n])}
  <2>1. 0 \in S
    BY <1>1, <1>2, <1>7 DEF LookedSoFar
  <2>2. ASSUME NEW n \in 1..N, n - 1 \in S PROVE n \in S
    <3>1. Looked(LookOn(run[n - 1], Spans[n]))
      BY <1>1, <2>2, LookOnKeeps
    <3> QED BY <1>1, <1>7, <3>1
  <2> HIDE DEF S
  <2>3. \A n \in 0..N : n \in S
    BY <1>1, <2>1, <2>2, Onwards
  <2> QED BY <2>3 DEF S
<1>10. run[N].found = <<>> => run[N].start > job.now
  <2>1. N \in 1..N /\ N - 1 \in 0..N
    BY <1>1
  <2>2. Looked(run[N - 1]) /\ run[N] = LookOn(run[N - 1], Spans[N]) /\ Spans[N] \in Nat
    BY <1>1, <1>7, <1>9, <2>1
  <2>3. run[N].found = <<>> => run[N].start > job.now \/ run[N - 1].start + Spans[N] < job.now
    BY <2>2, LookOnKeeps
  <2>4. run[N - 1].start \in Nat /\ run[N - 1].start >= End
    BY <2>2 DEF Looked, Looking
  <2>5. End \in Nat /\ End >= job.from /\ job.from \in Nat /\ job.now \in Nat /\ job.from >= job.now - EventsKept
    BY WindowEnds DEF WindowOK
  <2> QED BY <1>1, <2>2, <2>3, <2>4, <2>5
<1>11. Looked(run[N])
  BY <1>1, <1>9
<1>12. run[N].found \in Seq(ReplayEvent) /\ run[N].start \in Nat
  BY <1>11 DEF Looked, Looking
<1>13. run[N].found = <<>> => ChangesIn(End, job.now) = {}
  <2> SUFFICES ASSUME run[N].found = <<>>, NEW c \in ChangesIn(End, job.now) PROVE FALSE
    OBVIOUS
  <2>1. c >= run[N].start
    BY <1>11 DEF Looked
  <2> QED BY <1>10, <1>12, <2>1 DEF ChangesIn, WindowOK
<1> QED BY <1>8, <1>11, <1>12, <1>13 DEF Looked

\* What the trigger said of itself in second r, when it was read.
ReadIn(r) ==
  /\ r \in Nat /\ job.now <= r /\ r <= Len(problem)
  /\ job.value = problem[r] /\ job.lastchange \in Nat
  /\ \A c \in ChangesIn(2, r) : c <= job.lastchange
  /\ job.lastchange # 0 => job.lastchange \in ChangesIn(2, r)

\* The events and, when there are none, the first after the window.
LEMMA OpensAsSaid ==
  ASSUME History, WindowOK, NEW r, ReadIn(r), NEW evs, NEW later,
         AreEventsOf(evs, ChangesIn(job.from, End - 1)),
         later = IF evs = <<>> /\ job.lastchange >= End THEN FirstAfter ELSE <<>>,
         ~ChangedUnseen
  PROVE  OpensIn(evs, Initial(evs, later))
<1>1. /\ End \in Nat /\ job.from <= End /\ End <= job.now /\ job.from \in Nat /\ 2 <= job.from
      /\ job.now \in Nat /\ job.now <= Len(problem) /\ Len(problem) \in Nat
  BY WindowEnds DEF WindowOK, History
<1>2. /\ r \in 1..Len(problem) /\ job.now <= r /\ job.value = problem[r] /\ job.value \in BOOLEAN
      /\ job.lastchange \in Nat
  BY <1>1 DEF ReadIn, History
<1>3. CASE evs # <<>>
  <2>1. 1 \in 1..Len(evs)
    BY <1>3 DEF AreEventsOf
  <2>2. evs[1].value \in BOOLEAN
    BY <2>1, EventsOfWindow
  <2> QED BY <1>3, <2>2 DEF OpensIn, Initial
<1>4. CASE evs = <<>>
  <2>1. ChangesIn(job.from, End - 1) = {}
    <3>1. Len(evs) = 0
      BY <1>4
    <3> QED BY <3>1 DEF AreEventsOf
  <2>2. CASE job.lastchange < End
    <3>1. ASSUME NEW s \in job.from..(End - 1) PROVE problem[s] = job.value
      <4>1. s \in 1..Len(problem) /\ s <= r
        BY <1>1, <1>2
      <4>2. ASSUME NEW c \in ChangesIn(s + 1, r) PROVE FALSE
        <5>1. c \in ChangesIn(2, r)
          BY DEF ChangesIn
        <5>2. c <= job.lastchange /\ c \in Nat
          BY <5>1 DEF ReadIn, ChangesIn
        <5>3. c \in ChangesIn(job.from, End - 1)
          BY <1>1, <1>2, <2>2, <5>2 DEF ChangesIn
        <5> QED BY <2>1, <5>3
      <4> QED BY <1>2, <4>1, <4>2, SameBetween
    <3>2. Initial(evs, later) = job.value
      BY <1>4, <2>2 DEF Initial
    <3> QED BY <1>2, <1>4, <3>1, <3>2 DEF OpensIn
  <2>3. CASE ~(job.lastchange < End)
    <3>1. later = FirstAfter
      BY <1>1, <1>2, <1>4, <2>3
    <3>2. later # <<>>
      <4> SUFFICES ASSUME later = <<>> PROVE FALSE
        OBVIOUS
      <4>1. ChangesIn(End, job.now) = {}
        BY <3>1, FirstAfterFinds
      <4>2. job.lastchange \in ChangesIn(2, r)
        BY <1>1, <1>2, <2>3 DEF ReadIn
      <4>3. job.lastchange > job.now
        <5> SUFFICES ASSUME ~(job.lastchange > job.now) PROVE FALSE
          OBVIOUS
        <5>1. job.lastchange \in ChangesIn(End, job.now)
          BY <1>1, <1>2, <2>3, <4>2 DEF ChangesIn
        <5> QED BY <4>1, <5>1
      <4>4. ChangesIn(job.from, job.now) = {}
        <5> SUFFICES ASSUME NEW c \in ChangesIn(job.from, job.now) PROVE FALSE
          OBVIOUS
        <5>1. c \in ChangesIn(job.from, End - 1) \/ c \in ChangesIn(End, job.now)
          BY <1>1 DEF ChangesIn
        <5> QED BY <2>1, <4>1, <5>1
      <4>5. Changes(job.from, job.now) = {}
        BY <1>1, <4>4, ChangesAre
      <4> QED BY <4>3, <4>5 DEF ChangedUnseen
    <3>3. PICK hi \in Nat : hi <= job.now /\ AreEventsOf(later, ChangesIn(End, hi))
      BY <3>1, <3>2, FirstAfterFinds
    <3>4. ChangesIn(job.from, hi) = ChangesIn(End, hi)
      <4>1. \A c \in ChangesIn(job.from, hi) : c >= End
        <5> SUFFICES ASSUME NEW c \in ChangesIn(job.from, hi), ~(c >= End) PROVE FALSE
          OBVIOUS
        <5>1. c \in ChangesIn(job.from, End - 1)
          BY <1>1 DEF ChangesIn
        <5> QED BY <2>1, <5>1
      <4> QED BY <1>1, <4>1 DEF ChangesIn
    <3>5. 1 \in 1..Len(later) /\ later[1] \in ReplayEvent
      BY <3>2, <3>3 DEF AreEventsOf
    <3>6. later[1].value \in BOOLEAN /\ later[1].clock \in Nat /\ later[1].clock >= End
      <4>1. later[1].clock \in ChangesIn(End, hi)
        BY <3>3, <3>5, Zenon DEF AreEventsOf
      <4> QED BY <3>5, <4>1 DEF ReplayEvent, ChangesIn
    <3>7. ASSUME NEW s \in job.from..(End - 1) PROVE problem[s] = ~later[1].value
      <4> DEFINE lo == job.from - 1
      <4>1. lo \in 1..Len(problem) /\ lo + 1 = job.from /\ s \in lo..(later[1].clock - 1) /\ hi \in Int
        <5>1. Len(problem) \in Nat /\ lo \in Nat /\ lo + 1 = job.from /\ 1 <= lo
          BY <1>1 DEF History
        <5>2. lo <= Len(problem)
          BY <1>1, <5>1
        <5>3. s \in Nat /\ lo <= s /\ s <= later[1].clock - 1
          BY <1>1, <3>6, <3>7
        <5> QED BY <3>3, <3>6, <5>1, <5>2, <5>3
      <4>2. AreEventsOf(later, ChangesIn(lo + 1, hi))
        BY <3>3, <3>4, <4>1
      <4> HIDE DEF lo
      <4> QED BY <3>2, <4>1, <4>2, BeforeTheFirst
    <3>8. Initial(evs, later) = ~later[1].value
      BY <1>4, <2>3, <3>2 DEF Initial
    <3> QED BY <1>4, <3>6, <3>7, <3>8 DEF OpensIn
  <2> QED BY <2>2, <2>3
<1> QED BY <1>3, <1>4

-----------------------------------------------------------------------------
(* The invariant.                                                          *)

ReplayInv ==
  /\ History
  /\ job \in [stage : {"idle", "asked", "read", "answered"}, strict : BOOLEAN, from : Nat, to : Nat,
              now : Nat, value : BOOLEAN, lastchange : Nat, initial : {job.initial}, down : {job.down}]
  /\ job.stage # "idle" => WindowOK
  /\ job.stage = "read" => \E r \in Nat : ReadIn(r)
  /\ ReplayExact

LEMMA ReplayInitial == SliInit => ReplayInv
<1> SUFFICES ASSUME SliInit PROVE ReplayInv
  OBVIOUS
<1>1. History
  <2>1. \A b \in BOOLEAN : <<b>> \in Seq(BOOLEAN) /\ <<b>> # <<>>
    OBVIOUS
  <2>2. \E b \in BOOLEAN : problem = <<b>>
    BY DEF SliInit
  <2> QED BY <2>1, <2>2 DEF History
<1>2. job = [stage |-> "idle", strict |-> FALSE, from |-> 0, to |-> 0, now |-> 0, value |-> FALSE,
             lastchange |-> 0, initial |-> FALSE, down |-> <<>>]
  BY DEF SliInit, NoJob
<1>3. /\ job.stage = "idle"
      /\ job \in [stage : {"idle"}, strict : BOOLEAN, from : Nat, to : Nat,
                 now : Nat, value : BOOLEAN, lastchange : Nat, initial : {job.initial}, down : {job.down}]
  BY <1>2
<1> QED BY <1>1, <1>3 DEF ReplayInv, ReplayExact

LEMMA AskForKeeps ==
  ASSUME ReplayInv, NEW from \in 2..MaxSeconds, NEW to \in 3..(MaxSeconds + 1), NEW strict \in BOOLEAN,
         AskFor(from, to, strict)
  PROVE  ReplayInv'
<1>1. History' /\ Len(problem) \in Nat /\ problem' = problem
  BY DEF ReplayInv, History, AskFor
<1>2. from \in Nat /\ to \in Nat /\ 2 <= from
  OBVIOUS
<1>3. job' = [stage |-> "asked", strict |-> strict, from |-> from, to |-> to, now |-> Len(problem),
              value |-> FALSE, lastchange |-> 0, initial |-> FALSE, down |-> <<>>]
  BY DEF AskFor, NoJob
<1>4. WindowOK'
  BY <1>1, <1>2, <1>3 DEF AskFor, WindowOK
<1> QED BY <1>1, <1>2, <1>3, <1>4 DEF ReplayInv, ReplayExact

LEMMA ReadTriggerKeeps ==
  ASSUME ReplayInv, ReadTrigger
  PROVE  ReplayInv'
<1> DEFINE clocks == Changes(2, Len(problem))
           last == IF clocks = {} THEN 0 ELSE CHOOSE c \in clocks : \A d \in clocks : d <= c
           r == Len(problem)
<1>1. History /\ History' /\ r \in Nat /\ r \in 1..r /\ problem' = problem /\ WindowOK
  BY DEF ReplayInv, History, ReadTrigger
<1>2. job' = [job EXCEPT !.stage = "read", !.value = Last(problem), !.lastchange = last]
  BY DEF ReadTrigger
<1>3. Last(problem) = problem[r] /\ problem[r] \in BOOLEAN
  BY <1>1 DEF Last, History
<1>4. clocks = ChangesIn(2, r) /\ clocks \in SUBSET (1..r)
  BY <1>1, ChangesAre
<1> HIDE DEF clocks
<1>5. /\ last \in Nat
      /\ \A c \in ChangesIn(2, r) : c <= last
      /\ last # 0 => last \in ChangesIn(2, r)
  <2>1. CASE clocks = {}
    BY <1>4, <2>1
  <2>2. CASE clocks # {}
    <3>1. clocks \in SUBSET Nat /\ IsFiniteSet(clocks)
      <4>1. IsFiniteSet(1..r)
        BY <1>1, FS_Interval
      <4> QED BY <1>1, <1>4, <4>1, FS_Subset
    <3>2. \E x \in clocks : \A y \in clocks : x >= y
      BY <2>2, <3>1, HasALargest
    <3>3. \E x \in clocks : \A y \in clocks : y <= x
      BY <3>1, <3>2
    <3>4. last \in clocks /\ \A d \in clocks : d <= last
      BY <2>2, <3>3
    <3> HIDE DEF last
    <3> QED BY <1>4, <3>1, <3>4
  <2> QED BY <2>1, <2>2
<1> HIDE DEF last
<1>6. /\ job'.stage = "read" /\ job'.value = problem[r] /\ job'.lastchange = last
      /\ job'.strict = job.strict /\ job'.from = job.from /\ job'.to = job.to /\ job'.now = job.now
      /\ job' \in [stage : {"read"}, strict : BOOLEAN, from : Nat, to : Nat,
              now : Nat, value : BOOLEAN, lastchange : Nat, initial : {job'.initial}, down : {job'.down}]
  BY <1>2, <1>3, <1>5 DEF ReplayInv
<1>7. WindowOK'
  BY <1>1, <1>6 DEF WindowOK
<1>8. ReadIn(r)'
  BY <1>1, <1>5, <1>6 DEF ReadIn, ChangesIn, WindowOK
<1>9. (\E n \in Nat : ReadIn(n))'
  BY <1>1, <1>8
<1> QED BY <1>1, <1>6, <1>7, <1>9 DEF ReplayInv, ReplayExact

LEMMA ReadEventsKeeps ==
  ASSUME ReplayInv, ReadEvents
  PROVE  ReplayInv'
<1> DEFINE evs == Events(job.from, End - 1)
           later == IF evs = <<>> /\ job.lastchange >= End THEN FirstAfter ELSE <<>>
           initial == Initial(evs, later)
           down == Replayed(evs, initial)
<1>1. History /\ History' /\ problem' = problem /\ WindowOK /\ \E r \in Nat : ReadIn(r)
  BY DEF ReplayInv, History, ReadEvents
<1>2. job' = [job EXCEPT !.stage = "answered", !.initial = initial, !.down = down]
  BY DEF ReadEvents
<1>3. PICK r : ReadIn(r)
  BY <1>1
<1>4. AreEventsOf(evs, ChangesIn(job.from, End - 1))
  <2>1. job.from \in Int /\ End - 1 \in Int
    BY <1>1, WindowEnds DEF WindowOK
  <2> QED BY <1>1, <2>1, EventsAre
<1> HIDE DEF evs
<1>5. ~ChangedUnseen => OpensIn(evs, initial)
  BY <1>1, <1>3, <1>4, OpensAsSaid
<1> HIDE DEF later, initial
<1>6. ~ChangedUnseen => Seconds(down) = {s \in job.from..(EndClip - 1) : problem[s]}
  BY <1>1, <1>4, <1>5, ReplayedExactly
<1> HIDE DEF down
<1>7. /\ job'.stage = "answered" /\ job'.down = down /\ job'.lastchange = job.lastchange
      /\ job'.strict = job.strict /\ job'.from = job.from /\ job'.to = job.to /\ job'.now = job.now
      /\ job' \in [stage : {"answered"}, strict : BOOLEAN, from : Nat, to : Nat,
              now : Nat, value : BOOLEAN, lastchange : Nat, initial : {job'.initial}, down : {job'.down}]
  BY <1>2 DEF ReplayInv
<1>8. WindowOK'
  BY <1>1, <1>7 DEF WindowOK
<1>9. End' = End /\ EndClip' = EndClip
  BY <1>7 DEF End, EndClip, Closed
<1>10. ChangedUnseen' = ChangedUnseen
  BY <1>1, <1>7 DEF ChangedUnseen, Changes
<1>11. ReplayExact'
  BY <1>1, <1>6, <1>7, <1>9, <1>10 DEF ReplayExact
<1> QED BY <1>1, <1>7, <1>8, <1>11 DEF ReplayInv

LEMMA ZabbixKeeps ==
  ASSUME ReplayInv, NEW b \in BOOLEAN, ZabbixGoesOn(b)
  PROVE  ReplayInv'
<1>1. /\ problem' = Append(problem, b) /\ job' = job /\ problem \in Seq(BOOLEAN) /\ problem # <<>>
      /\ Len(problem) \in Nat
  BY DEF ReplayInv, History, ZabbixGoesOn
<1>2. /\ problem' \in Seq(BOOLEAN) /\ Len(problem') = Len(problem) + 1 /\ problem' # <<>>
      /\ \A c \in 1..Len(problem) : problem'[c] = problem[c]
  BY <1>1
<1>3. job.stage # "idle" => WindowOK'
  BY <1>1, <1>2 DEF ReplayInv, WindowOK
<1>4. ASSUME NEW hi \in Nat, hi <= Len(problem), NEW lo \in Nat
      PROVE  ChangesIn(lo, hi)' = ChangesIn(lo, hi)
  <2>1. ASSUME NEW c \in Nat, c >= 2, c <= hi PROVE problem'[c] = problem[c] /\ problem'[c - 1] = problem[c - 1]
    BY <1>1, <1>2, <1>4, <2>1
  <2> QED BY <1>1, <1>2, <1>4, <2>1 DEF ChangesIn
<1>5. ASSUME job.stage = "read" PROVE (\E r \in Nat : ReadIn(r))'
  <2>1. PICK r : ReadIn(r)
    BY <1>5 DEF ReplayInv
  <2>2. r \in 1..Len(problem) /\ r \in Nat
    BY <1>1, <1>5, <2>1 DEF ReadIn, ReplayInv, WindowOK
  <2>3. ChangesIn(2, r)' = ChangesIn(2, r) /\ problem'[r] = problem[r]
    BY <1>2, <1>4, <2>1, <2>2 DEF ReadIn
  <2>4. ReadIn(r)'
    BY <1>1, <1>2, <2>1, <2>2, <2>3 DEF ReadIn
  <2> QED BY <2>2, <2>4
<1>6. ASSUME job.stage = "answered" PROVE ReplayExact'
  <2>1. History /\ WindowOK
    BY <1>6 DEF ReplayInv
  <2>2. ChangesIn(job.from, job.now)' = ChangesIn(job.from, job.now)
    BY <1>1, <1>4, <2>1 DEF WindowOK
  <2>3. History' /\ WindowOK'
    BY <1>1, <1>2, <1>3, <1>6 DEF History
  <2>4. ChangedUnseen' = ChangedUnseen
    <3>1. Changes(job.from, job.now) = ChangesIn(job.from, job.now)
      BY <2>1, ChangesAre DEF WindowOK
    <3>2. Changes(job.from, job.now)' = ChangesIn(job.from, job.now)'
      BY <1>1, <1>2, <2>1 DEF WindowOK, Changes, ChangesIn, Greater, Lesser
    <3> QED BY <1>1, <2>2, <3>1, <3>2 DEF ChangedUnseen
  <2>5. EndClip' = EndClip /\ EndClip \in Nat /\ EndClip <= Len(problem) /\ job.from \in Nat /\ 2 <= job.from
    <3>1. EndClip' = EndClip
      BY <1>1 DEF EndClip, End, Closed
    <3> QED BY <1>1, <2>1, <3>1, WindowEnds DEF WindowOK
  <2>6. \A s \in job.from..(EndClip - 1) : problem'[s] = problem[s]
    BY <1>1, <1>2, <2>5
  <2> QED BY <1>1, <1>6, <2>4, <2>5, <2>6 DEF ReplayInv, ReplayExact
<1>7. job.stage # "answered" => ReplayExact'
  BY <1>1 DEF ReplayExact
<1> QED BY <1>1, <1>2, <1>3, <1>5, <1>6, <1>7 DEF ReplayInv, History

LEMMA ReplayStep == ReplayInv /\ [SliNext]_sliVars => ReplayInv'
<1> SUFFICES ASSUME ReplayInv, [SliNext]_sliVars PROVE ReplayInv'
  OBVIOUS
<1>1. ASSUME UNCHANGED sliVars PROVE ReplayInv'
  BY <1>1 DEF sliVars, ReplayInv, History, WindowOK, ReadIn, ChangesIn, ReplayExact, ChangedUnseen,
              Changes, EndClip, End, Closed
<1> QED BY <1>1, ZabbixKeeps, AskForKeeps, ReadTriggerKeeps, ReadEventsKeeps DEF SliNext

\* The intervals the derived SLA counts are the seconds the trigger was in
\* problem, whatever it did before, in and after the window, for any window,
\* profile and spans (engine.ts, initialState, firstEventsAfter and
\* intervalsFor): the last span is what a window may lie back, so a change after
\* the window is found.  Not so of a trigger that was quiet up to the `now' the
\* figures are of and changed before it was asked: that one is ChangedUnseen,
\* of which ReplayExact says nothing and OpensAsItWas shows that it is wrong.
THEOREM ReplayIsExact == SliSpec => []ReplayExact
<1>1. SliInit => ReplayInv
  BY ReplayInitial
<1>2. ReplayInv /\ [SliNext]_sliVars => ReplayInv'
  BY ReplayStep
<1>3. ReplayInv => ReplayExact
  BY DEF ReplayInv
<1> QED BY <1>1, <1>2, <1>3, PTL DEF SliSpec

-----------------------------------------------------------------------------
(* Hours.                                                                  *)

MarkedBy(S, marks, f) == marks \in SUBSET Nat /\ IsFiniteSet(marks) /\ f \in [marks -> S]

\* The entries at marks that need not be places 1 to n.
LEMMA KeptAtMarks ==
  ASSUME NEW S, NEW marks, NEW f, MarkedBy(S, marks, f)
  PROVE  /\ KeptEntries(f, marks) \in Seq(S)
         /\ \A n \in 1..Len(KeptEntries(f, marks)) : \E t \in marks : KeptEntries(f, marks)[n] = f[t]
         /\ \A t \in marks : \E n \in 1..Len(KeptEntries(f, marks)) : KeptEntries(f, marks)[n] = f[t]
<1> DEFINE N == Cardinality(marks)
           rank(i) == Cardinality({j \in marks : j <= i})
           nth(n) == CHOOSE i \in marks : rank(i) = n
           t == [n \in 1..N |-> f[nth(n)]]
<1> marks \in SUBSET Nat /\ IsFiniteSet(marks) /\ f \in [marks -> S]
  BY DEF MarkedBy
<1>1. N \in Nat
  BY FS_CardinalityType
<1>2. /\ \A i \in marks : rank(i) \in 1..N
      /\ \A i, j \in marks : i < j => rank(i) < rank(j)
      /\ \A n \in 1..N : \E i \in marks : rank(i) = n
  BY RanksAreInOrder
<1> HIDE DEF rank
<1>3. \A n \in 1..N : nth(n) \in marks /\ rank(nth(n)) = n
  BY <1>2
<1>4. ASSUME NEW i \in marks PROVE nth(rank(i)) = i
  <2> DEFINE j == nth(rank(i))
  <2>1. rank(i) \in 1..N
    BY <1>2
  <2>2. j \in marks /\ rank(j) = rank(i)
    BY <1>3, <2>1
  <2> HIDE DEF j
  <2>3. i \in Nat /\ j \in Nat /\ rank(i) \in Nat
    BY <1>1, <2>1, <2>2
  <2>4. ~(i < j) /\ ~(j < i)
    BY <1>2, <2>2, <2>3
  <2>5. j = i
    BY <2>3, <2>4
  <2> QED BY <2>5 DEF j
<1>5. KeptEntries(f, marks) = t
  BY DEF KeptEntries, rank
<1> HIDE DEF nth
<1>6. t \in Seq(S) /\ Len(t) = N /\ \A n \in 1..N : t[n] = f[nth(n)]
  <2>1. \A n \in 1..N : f[nth(n)] \in S
    BY <1>3
  <2> QED BY <1>1, <2>1
<1> HIDE DEF t, N
<1>7. \A n \in 1..N : \E i \in marks : t[n] = f[i]
  BY <1>3, <1>6
<1>8. ASSUME NEW i \in marks PROVE \E n \in 1..N : t[n] = f[i]
  <2>1. rank(i) \in 1..N /\ nth(rank(i)) = i
    BY <1>2, <1>4
  <2> QED BY <1>6, <2>1
<1> QED BY <1>5, <1>6, <1>7, <1>8

\* Multiples keep their order.
LEMMA MultiplesInOrder ==
  ASSUME NEW a \in Int, NEW b \in Int, a <= b, NEW n \in Nat
  PROVE  a * n <= b * n
<1>1. PICK d \in Nat : b = a + d
  <2>1. b - a \in Nat /\ b = a + (b - a)
    OBVIOUS
  <2> QED BY <2>1
<1>2. d * n \in Nat /\ a * n \in Int /\ b * n = a * n + d * n
  BY <1>1
<1> QED BY <1>2

LEMMA HourOf ==
  ASSUME NEW s \in Nat, NEW n \in Nat \ {0}
  PROVE  /\ s \div n \in Nat /\ (s \div n) * n \in Nat
         /\ (s \div n) * n <= s /\ s < (s \div n) * n + n
         /\ \A k \in Nat : k * n <= s => k <= s \div n
         /\ \A k \in Nat : k * n <= s /\ s < k * n + n => k = s \div n
<1> DEFINE q == s \div n
<1>1. q \in Nat /\ q * n \in Nat /\ q * n <= s /\ s < q * n + n
  OBVIOUS
<1> HIDE DEF q
<1>2. ASSUME NEW k \in Nat, k * n <= s PROVE k <= q
  <2> SUFFICES ASSUME q + 1 <= k PROVE FALSE
    BY <1>1
  <2>1. (q + 1) * n <= k * n
    BY <1>1, MultiplesInOrder
  <2>2. (q + 1) * n = q * n + n /\ k * n \in Nat
    BY <1>1
  <2> QED BY <1>1, <1>2, <2>1, <2>2
<1>3. ASSUME NEW k \in Nat, k * n <= s, s < k * n + n PROVE k = q
  <2> SUFFICES ASSUME k + 1 <= q PROVE FALSE
    BY <1>1, <1>2, <1>3
  <2>1. (k + 1) * n <= q * n
    BY <1>1, MultiplesInOrder
  <2>2. (k + 1) * n = k * n + n /\ k * n \in Nat
    OBVIOUS
  <2> QED BY <1>1, <1>3, <2>1, <2>2
<1> QED BY <1>1, <1>2, <1>3 DEF q

\* The hour of a second, by the mark it begins with.
LEMMA HourFloorIs ==
  ASSUME NEW s \in Nat, NEW k \in Nat, NEW t, t = k * HourLength
  PROVE  t <= s /\ s < t + HourLength <=> HourFloor(s) = t
<1>1. HourLength \in Nat \ {0}
  BY FigureAssumption
<1>2. /\ HourFloor(s) <= s /\ s < HourFloor(s) + HourLength
      /\ t <= s /\ s < t + HourLength => k = s \div HourLength
  BY <1>1, HourOf DEF HourFloor
<1>3. k = s \div HourLength => HourFloor(s) = t
  BY DEF HourFloor
<1> QED BY <1>2, <1>3

-----------------------------------------------------------------------------
(* What is asked, and the seconds it comes to.                             *)

Asked ==
  /\ asked.strict \in BOOLEAN
  /\ asked.declared \in Intervals
  /\ \A h \in Host :
       /\ asked.down[h] \in Intervals /\ asked.planned[h] \in Intervals
       /\ asked.collected[h] \in SUBSET UNION Hours

Moments == From..Until - 1

LEMMA WindowIs ==
  /\ From \in Nat /\ Until \in Nat /\ From <= Until /\ HourLength \in Nat \ {0}
  /\ IsFiniteSet(Moments) /\ Cardinality(Moments) = Window /\ Window \in Nat
  /\ \A s : s \in Moments <=> s \in Nat /\ From <= s /\ s < Until
<1>1. From \in Nat /\ Until \in Nat /\ From <= Until /\ HourLength \in Nat \ {0}
  BY FigureAssumption
<1>2. IsFiniteSet(Moments) /\ Cardinality(Moments) = Window
  <2>1. CASE From <= Until - 1
    BY <1>1, <2>1, FS_Interval DEF Moments, Window
  <2>2. CASE ~(From <= Until - 1)
    <3>1. IsFiniteSet(Moments) /\ Cardinality(Moments) = 0
      BY <1>1, <2>2, FS_Interval DEF Moments
    <3>2. Window = 0
      BY <1>1, <2>2 DEF Window
    <3> QED BY <3>1, <3>2
  <2> QED BY <2>1, <2>2
<1>3. \A s : s \in Moments <=> s \in Nat /\ From <= s /\ s < Until
  BY <1>1 DEF Moments
<1> QED BY <1>1, <1>2, <1>3 DEF Window

LEMMA DeclaredIs ==
  ASSUME Asked
  PROVE  /\ Declared \in Intervals /\ Seconds(Declared) = In(asked.declared)
         /\ OutsideDeclared \in Intervals /\ Seconds(OutsideDeclared) = Moments \ In(asked.declared)
<1>1. From \in Int /\ Until \in Int /\ From <= Until /\ asked.declared \in Intervals
  BY WindowIs DEF Asked
<1>2. /\ Clipped(asked.declared, From, Until) \in Intervals
      /\ Seconds(Clipped(asked.declared, From, Until)) = In(asked.declared)
  BY <1>1, ClippedToWindow DEF In
<1>3. Declared \in Intervals /\ Seconds(Declared) = In(asked.declared)
  BY <1>2, MergedStayApart DEF Declared
<1>4. OutsideDeclared \in Intervals /\ Seconds(OutsideDeclared) = Moments \ Seconds(Declared)
  BY <1>1, <1>3, ComplementIsExact DEF OutsideDeclared, Moments
<1> QED BY <1>3, <1>4

LEMMA PlannedIs ==
  ASSUME Asked, NEW h \in Host
  PROVE  /\ Planned(h) \in Intervals /\ Seconds(Planned(h)) = In(asked.planned[h])
         /\ OutsidePlanned(h) \in Intervals
         /\ Seconds(OutsidePlanned(h)) = Moments \ In(asked.planned[h])
<1>1. From \in Int /\ Until \in Int /\ From <= Until /\ asked.planned[h] \in Intervals
  BY WindowIs DEF Asked
<1>2. Planned(h) \in Intervals /\ Seconds(Planned(h)) = In(asked.planned[h])
  BY <1>1, ClippedToWindow DEF Planned, In
<1>3. OutsidePlanned(h) \in Intervals /\ Seconds(OutsidePlanned(h)) = Moments \ Seconds(Planned(h))
  BY <1>1, <1>2, ComplementIsExact DEF OutsidePlanned, Moments
<1> QED BY <1>2, <1>3

\* coveredFromTrends: the hours of the marks.
HourSpans(marks) == KeptEntries([t \in marks |-> <<t, t + HourLength>>], marks)

LEMMA HourSpansAre ==
  ASSUME NEW marks \in SUBSET UNION Hours
  PROVE  /\ HourSpans(marks) \in Intervals
         /\ \A s \in Nat : s \in Seconds(HourSpans(marks)) <=> HourFloor(s) \in marks
<1> DEFINE f == [t \in marks |-> <<t, t + HourLength>>]
           ivs == HourSpans(marks)
<1>1. HourLength \in Nat \ {0}
  BY FigureAssumption
<1>2. IsFiniteSet(UNION Hours) /\ \A t \in UNION Hours : t \in Nat /\ \E n \in 0..t : t = n * HourLength
  BY FigureAssumption
<1>3. IsFiniteSet(marks) /\ marks \in SUBSET Nat
  BY <1>2, FS_Subset
<1>4. f \in [marks -> Int \X Int] /\ \A t \in marks : f[t][1] = t /\ f[t][2] = t + HourLength
  BY <1>1, <1>3
<1>5. ivs = KeptEntries(f, marks)
  BY DEF HourSpans
<1> HIDE DEF f, ivs
<1>6. /\ ivs \in Intervals
      /\ \A n \in 1..Len(ivs) : \E t \in marks : ivs[n] = f[t]
      /\ \A t \in marks : \E n \in 1..Len(ivs) : ivs[n] = f[t]
  <2> DEFINE Pair == Int \X Int
             kept == KeptEntries(f, marks)
  <2>1. MarkedBy(Pair, marks, f)
    BY <1>3, <1>4 DEF MarkedBy
  <2> HIDE DEF Pair
  <2>2. /\ kept \in Seq(Pair)
        /\ \A n \in 1..Len(kept) : \E t \in marks : kept[n] = f[t]
        /\ \A t \in marks : \E n \in 1..Len(kept) : kept[n] = f[t]
    BY <2>1, KeptAtMarks
  <2> QED BY <1>5, <2>2 DEF Intervals, Pair
<1>7. ASSUME NEW s \in Nat PROVE s \in Seconds(ivs) <=> HourFloor(s) \in marks
  <2>1. ASSUME NEW t \in marks PROVE t <= s /\ s < t + HourLength <=> HourFloor(s) = t
    <3>1. PICK n \in 0..t : t = n * HourLength
      BY <1>2
    <3>2. n \in Nat
      BY <1>3
    <3> QED BY <3>1, <3>2, HourFloorIs
  <2>2. s \in Seconds(ivs) <=> \E n \in 1..Len(ivs) : ivs[n][1] <= s /\ s < ivs[n][2]
    BY <1>6, IntervalFacts
  <2>3. s \in Seconds(ivs) <=> \E t \in marks : t <= s /\ s < t + HourLength
    <3>1. ASSUME NEW t \in marks, t <= s, s < t + HourLength PROVE s \in Seconds(ivs)
      <4>1. PICK n \in 1..Len(ivs) : ivs[n] = f[t]
        BY <1>6
      <4> QED BY <1>4, <2>2, <3>1, <4>1
    <3>2. ASSUME s \in Seconds(ivs) PROVE \E t \in marks : t <= s /\ s < t + HourLength
      <4>1. PICK n \in 1..Len(ivs) : ivs[n][1] <= s /\ s < ivs[n][2]
        BY <2>2, <3>2
      <4>2. PICK t \in marks : ivs[n] = f[t]
        BY <1>6
      <4> QED BY <1>4, <4>1, <4>2
    <3> QED BY <3>1, <3>2
  <2> QED BY <2>1, <2>3
<1> QED BY <1>6, <1>7 DEF ivs

LEMMA CollectedIs ==
  ASSUME Asked, NEW h \in Host
  PROVE  Apart(Collected(h)) /\ Seconds(Collected(h)) = CollectedSeconds(h)
<1> DEFINE marks == asked.collected[h]
           hours == HourSpans(marks)
           window == <<<<From, Until>>>>
           inside == Intersected(hours, window)
<1>1. marks \in SUBSET UNION Hours
  BY DEF Asked
<1>2. hours \in Intervals /\ \A s \in Nat : s \in Seconds(hours) <=> HourFloor(s) \in marks
  BY <1>1, HourSpansAre
<1>3. Collected(h) = Intersected(inside, OutsideDeclared)
  BY DEF Collected, HourSpans
<1> HIDE DEF hours, marks
<1>4. window \in Intervals /\ Seconds(window) = Moments
  <2>1. window \in Intervals /\ Len(window) = 1 /\ window[1][1] = From /\ window[1][2] = Until
    BY WindowIs DEF Intervals
  <2> HIDE DEF window
  <2>2. 1..1 = {1}
    OBVIOUS
  <2> QED BY <2>1, <2>2 DEF Seconds, Moments
<1> HIDE DEF window
<1>5. inside \in Intervals /\ Seconds(inside) = Seconds(hours) \cap Moments
  BY <1>2, <1>4, IntersectionIsExact
<1> HIDE DEF inside
<1>6. /\ Apart(Collected(h))
      /\ Seconds(Collected(h)) = Seconds(inside) \cap (Moments \ In(asked.declared))
  BY <1>3, <1>5, DeclaredIs, IntersectionIsExact
<1>7. \A s \in Moments : s \in Nat
  BY WindowIs
<1>8. Seconds(hours) \cap Moments = {s \in Moments : HourFloor(s) \in asked.collected[h]}
  BY <1>2, <1>7 DEF marks
<1> QED BY <1>5, <1>6, <1>8 DEF CollectedSeconds, Moments

\* The seconds a host's figures are of.
LEMMA CoveredIs ==
  ASSUME Asked, NEW h \in Host
  PROVE  /\ Covered(h, Collected(h)) \in Intervals
         /\ Seconds(Covered(h, Collected(h))) = MeasuredSeconds(h)
         /\ MeasuredSeconds(h) \in SUBSET Moments
<1>1. /\ Collected(h) \in Intervals /\ Seconds(Collected(h)) = CollectedSeconds(h)
      /\ CollectedSeconds(h) \in SUBSET Moments
  BY CollectedIs DEF Apart, CollectedSeconds, Moments
<1>2. CASE asked.strict
  <2>1. /\ Covered(h, Collected(h)) = Intersected(Collected(h), OutsidePlanned(h))
        /\ MeasuredSeconds(h) = CollectedSeconds(h) \ In(asked.planned[h])
    BY <1>2 DEF Covered, MeasuredSeconds
  <2>2. /\ Intersected(Collected(h), OutsidePlanned(h)) \in Intervals
        /\ Seconds(Intersected(Collected(h), OutsidePlanned(h))) =
             CollectedSeconds(h) \cap (Moments \ In(asked.planned[h]))
    BY <1>1, PlannedIs, IntersectionIsExact
  <2> QED BY <1>1, <2>1, <2>2
<1>3. CASE ~asked.strict
  <2>1. /\ Covered(h, Collected(h)) = OutsidePlanned(h)
        /\ MeasuredSeconds(h) = Moments \ In(asked.planned[h])
    BY <1>3 DEF Covered, MeasuredSeconds, Moments
  <2> QED BY <2>1, PlannedIs
<1> QED BY <1>2, <1>3

LEMMA MeasuredIs ==
  ASSUME Asked, NEW h \in Host
  PROVE  /\ Apart(Measured(h, Covered(h, Collected(h))))
         /\ Seconds(Measured(h, Covered(h, Collected(h)))) = DownSeconds(h)
         /\ DownSeconds(h) \in SUBSET MeasuredSeconds(h)
<1> DEFINE covered == Covered(h, Collected(h))
           down == Merged(asked.down[h])
           both == Intersected(down, covered)
<1>1. /\ covered \in Intervals /\ Seconds(covered) = MeasuredSeconds(h)
      /\ MeasuredSeconds(h) \in SUBSET Moments
  BY CoveredIs
<1>2. Measured(h, covered) = Intersected(both, OutsideDeclared)
  BY DEF Measured
<1>3. down \in Intervals /\ Seconds(down) = Seconds(asked.down[h])
  BY MergedStayApart DEF Asked
<1> HIDE DEF covered, down
<1>4. both \in Intervals /\ Seconds(both) = Seconds(asked.down[h]) \cap MeasuredSeconds(h)
  BY <1>1, <1>3, IntersectionIsExact
<1> HIDE DEF both
<1>5. /\ Apart(Measured(h, covered))
      /\ Seconds(Measured(h, covered)) =
           (Seconds(asked.down[h]) \cap MeasuredSeconds(h)) \cap (Moments \ In(asked.declared))
  BY <1>2, <1>4, DeclaredIs, IntersectionIsExact
<1>6. DownSeconds(h) = ((Seconds(asked.down[h]) \cap Moments) \cap MeasuredSeconds(h)) \ In(asked.declared)
  BY DEF DownSeconds, In, Moments
<1> QED BY <1>1, <1>5, <1>6 DEF covered

\* A count of some moments.
LEMMA CountOf ==
  ASSUME NEW S \in SUBSET Moments
  PROVE  IsFiniteSet(S) /\ Cardinality(S) \in Nat /\ Cardinality(S) <= Window
<1>1. IsFiniteSet(Moments) /\ Cardinality(Moments) = Window
  BY WindowIs
<1>2. IsFiniteSet(S) /\ Cardinality(S) <= Cardinality(Moments)
  BY <1>1, FS_Subset
<1> QED BY <1>1, <1>2, FS_CardinalityType

LEMMA CountOfUnion ==
  ASSUME NEW S \in SUBSET Moments, NEW T \in SUBSET Moments
  PROVE  Cardinality(S \cup T) <= Cardinality(S) + Cardinality(T)
<1>1. IsFiniteSet(S) /\ IsFiniteSet(T) /\ IsFiniteSet(S \cap T) /\ Cardinality(S) \in Nat /\ Cardinality(T) \in Nat
  BY CountOf, FS_Intersection
<1>2. Cardinality(S \cap T) \in Nat
  BY <1>1, FS_CardinalityType
<1>3. Cardinality(S \cup T) = Cardinality(S) + Cardinality(T) - Cardinality(S \cap T)
  BY <1>1, FS_Union
<1> QED BY <1>1, <1>2, <1>3

LEMMA CountOfRest ==
  ASSUME NEW S \in SUBSET Moments
  PROVE  Cardinality(Moments \ S) = Window - Cardinality(S)
<1>1. IsFiniteSet(Moments) /\ Cardinality(Moments) = Window /\ Moments \cap S = S
  BY WindowIs
<1> QED BY <1>1, FS_Difference

-----------------------------------------------------------------------------
(* The hours in which none of the hosts that collected at all did.         *)

MarkAt(n) == HourFloor(From) + (n - 1) * HourLength
HourAt(n) == <<Greater(MarkAt(n), From), Lesser(MarkAt(n) + HourLength, Until)>>
HourCount == ((Until - HourFloor(From)) + HourLength - 1) \div HourLength
HourList == [n \in 1..HourCount |-> HourAt(n)]

LEMMA HoursAre ==
  /\ HourCount \in Nat /\ HourList \in Intervals /\ Len(HourList) = HourCount
  /\ \A n \in 1..HourCount : HourList[n] = HourAt(n) /\ HourAt(n)[1] \in Nat /\ HourAt(n)[2] \in Nat
  /\ \A n \in 1..HourCount, s \in Moments :
       HourAt(n)[1] <= s /\ s < HourAt(n)[2] <=> HourFloor(s) = MarkAt(n)
  /\ \A s \in Moments : \E n \in 1..HourCount : HourFloor(s) = MarkAt(n)
<1> DEFINE L == HourLength
           q == From \div L
           x == (Until - HourFloor(From)) + L - 1
<1>1. /\ From \in Nat /\ Until \in Nat /\ From <= Until /\ L \in Nat \ {0}
      /\ \A s : s \in Moments <=> s \in Nat /\ From <= s /\ s < Until
  BY WindowIs
<1>2. q \in Nat /\ HourFloor(From) = q * L /\ q * L \in Nat /\ q * L <= From
  BY <1>1, HourOf DEF HourFloor
<1> HIDE DEF q
<1>3. x \in Nat /\ x = Until - q * L + L - 1
  BY <1>1, <1>2
<1>4. HourCount \in Nat /\ HourCount = x \div L
  BY <1>1, <1>3, HourOf DEF HourCount
<1> HIDE DEF x
<1>5. ASSUME NEW n \in 1..HourCount
      PROVE  /\ q + (n - 1) \in Nat /\ MarkAt(n) = (q + (n - 1)) * L /\ MarkAt(n) \in Nat
             /\ HourAt(n) \in Nat \X Nat /\ HourAt(n)[1] = Greater(MarkAt(n), From)
             /\ HourAt(n)[2] = Lesser(MarkAt(n) + L, Until)
  <2>1. n \in Nat /\ n - 1 \in Nat /\ q + (n - 1) \in Nat
    BY <1>2, <1>4
  <2>2. MarkAt(n) = q * L + (n - 1) * L
    BY <1>2 DEF MarkAt
  <2>3. (q + (n - 1)) * L = q * L + (n - 1) * L /\ (q + (n - 1)) * L \in Nat
    BY <1>1, <1>2, <2>1
  <2>4. MarkAt(n) = (q + (n - 1)) * L /\ MarkAt(n) \in Nat
    BY <2>2, <2>3
  <2> HIDE DEF L
  <2>5. Greater(MarkAt(n), From) \in Nat /\ Lesser(MarkAt(n) + L, Until) \in Nat
    BY <1>1, <2>4 DEF Greater, Lesser
  <2> QED BY <2>1, <2>4, <2>5 DEF HourAt, L
<1>6. HourList \in Intervals /\ Len(HourList) = HourCount /\ \A n \in 1..HourCount : HourList[n] = HourAt(n)
  <2>1. \A n \in 1..HourCount : HourAt(n) \in Int \X Int
    BY <1>5
  <2> QED BY <1>4, <2>1 DEF HourList, Intervals
<1>7. \A n \in 1..HourCount : HourAt(n)[1] \in Nat /\ HourAt(n)[2] \in Nat
  BY <1>5
<1>8. ASSUME NEW n \in 1..HourCount, NEW s \in Moments
      PROVE  HourAt(n)[1] <= s /\ s < HourAt(n)[2] <=> HourFloor(s) = MarkAt(n)
  <2>1. s \in Nat /\ From <= s /\ s < Until
    BY <1>1
  <2>2. MarkAt(n) <= s /\ s < MarkAt(n) + L <=> HourFloor(s) = MarkAt(n)
    BY <1>5, <2>1, HourFloorIs
  <2>3. HourAt(n)[1] <= s /\ s < HourAt(n)[2] <=> MarkAt(n) <= s /\ s < MarkAt(n) + L
    <3>1. Greater(MarkAt(n), From) <= s <=> MarkAt(n) <= s
      BY <1>1, <1>5, <2>1 DEF Greater
    <3>2. s < Lesser(MarkAt(n) + L, Until) <=> s < MarkAt(n) + L
      BY <1>1, <1>5, <2>1 DEF Lesser
    <3> QED BY <1>5, <3>1, <3>2
  <2> QED BY <2>2, <2>3
<1>9. ASSUME NEW s \in Moments PROVE \E n \in 1..HourCount : HourFloor(s) = MarkAt(n)
  <2> DEFINE k == s \div L
             n == k - q + 1
  <2>1. s \in Nat /\ From <= s /\ s < Until
    BY <1>1
  <2>2. k \in Nat /\ k * L \in Nat /\ k * L <= s /\ HourFloor(s) = k * L
    BY <1>1, <2>1, HourOf DEF HourFloor
  <2>3. q <= k
    <3>1. q * L <= s
      BY <1>1, <1>2, <2>1
    <3> QED BY <1>1, <1>2, <2>1, <3>1, HourOf
  <2> HIDE DEF k
  <2>4. n \in Nat \ {0} /\ q + (n - 1) = k
    BY <1>2, <2>2, <2>3
  <2>5. n * L <= x
    <3>1. n * L = k * L - q * L + L
      BY <1>1, <1>2, <2>2
    <3> HIDE DEF n
    <3> QED BY <1>1, <1>2, <1>3, <2>1, <2>2, <3>1
  <2> HIDE DEF n, L
  <2>6. n <= HourCount
    BY <1>1, <1>3, <1>4, <2>4, <2>5, HourOf
  <2>7. n \in 1..HourCount
    BY <1>4, <2>4, <2>6
  <2>8. MarkAt(n) = k * L
    BY <1>5, <2>4, <2>7
  <2> QED BY <2>2, <2>7, <2>8
<1> QED BY <1>4, <1>6, <1>7, <1>8, <1>9

LEMMA KeptSeconds ==
  ASSUME NEW ivs, ivs \in Intervals, NEW places \in SUBSET (1..Len(ivs))
  PROVE  /\ KeptEntries(ivs, places) \in Intervals
         /\ \A s : s \in Seconds(KeptEntries(ivs, places)) <=>
              \E n \in places : s \in Int /\ ivs[n][1] <= s /\ s < ivs[n][2]
<1> DEFINE kept == KeptEntries(ivs, places)
<1>1. ivs \in Seq(Int \X Int)
  BY DEF Intervals
<1>2. kept \in Intervals /\ \E at : TakenFrom(ivs, places, kept, at)
  BY <1>1, KeptProperties DEF Intervals
<1> HIDE DEF kept
<1>3. PICK at : TakenFrom(ivs, places, kept, at)
  BY <1>2
<1>4. /\ \A n \in 1..Len(kept) : at[n] \in places /\ kept[n] = ivs[at[n]]
      /\ \A i \in places : \E n \in 1..Len(kept) : at[n] = i
  BY <1>3 DEF TakenFrom
<1>5. ASSUME NEW s
      PROVE  s \in Seconds(kept) <=> \E n \in places : s \in Int /\ ivs[n][1] <= s /\ s < ivs[n][2]
  <2>1. s \in Seconds(kept) <=> \E n \in 1..Len(kept) : s \in Int /\ kept[n][1] <= s /\ s < kept[n][2]
    BY <1>2, IntervalFacts
  <2>2. ASSUME NEW n \in places, s \in Int, ivs[n][1] <= s, s < ivs[n][2] PROVE s \in Seconds(kept)
    <3>1. PICK k \in 1..Len(kept) : at[k] = n
      BY <1>4
    <3>2. kept[k] = ivs[n]
      BY <1>4, <3>1
    <3> QED BY <2>1, <2>2, <3>2
  <2>3. ASSUME s \in Seconds(kept)
        PROVE  \E n \in places : s \in Int /\ ivs[n][1] <= s /\ s < ivs[n][2]
    <3>1. PICK k \in 1..Len(kept) : s \in Int /\ kept[k][1] <= s /\ s < kept[k][2]
      BY <2>1, <2>3
    <3> QED BY <1>4, <3>1
  <2> QED BY <2>2, <2>3
<1> QED BY <1>2, <1>5 DEF kept

LEMMA NotEmpty ==
  ASSUME NEW ivs, Apart(ivs)
  PROVE  ivs # <<>> <=> Seconds(ivs) # {}
<1>1. /\ ivs \in Intervals /\ Len(ivs) \in Nat /\ (ivs # <<>> => 1 \in 1..Len(ivs))
      /\ \A n \in 1..Len(ivs) : ivs[n][1] \in Int /\ ivs[n][2] \in Int
  BY IntervalFacts DEF Apart, Intervals
<1>2. ASSUME ivs # <<>> PROVE Seconds(ivs) # {}
  <2>1. 1 \in 1..Len(ivs) /\ ivs[1][1] \in Int /\ ivs[1][1] < ivs[1][2]
    BY <1>1, <1>2 DEF Apart
  <2>2. ivs[1][1] \in Seconds(ivs)
    BY <1>1, <2>1, IntervalFacts
  <2> QED BY <2>2
<1>3. Seconds(<<>>) = {}
  BY DEF Seconds
<1> QED BY <1>2, <1>3

AllCollected == [h \in Host |-> Collected(h)]

\* The gaps are within the window; and a second that is neither declared nor
\* in a gap is one in which some host collected, if any ever did.
LEMMA GapsAre ==
  ASSUME Asked
  PROVE  /\ Gaps(AllCollected) \in Intervals
         /\ Seconds(Gaps(AllCollected)) \in SUBSET Moments
         /\ \A h \in Host : CollectedSeconds(h) # {} =>
              \A s \in Moments \ In(asked.declared) : s \notin Seconds(Gaps(AllCollected)) =>
                \E g \in Host : s \in CollectedSeconds(g)
<1> DEFINE active == {h \in Host : AllCollected[h] # <<>>}
           places == {n \in 1..Len(HourList) :
                        \A h \in active : Intersected(AllCollected[h], <<HourList[n]>>) = <<>>}
           silent == KeptEntries(HourList, places)
           gaps == Gaps(AllCollected)
<1>1. gaps = IF active = {} THEN <<>> ELSE Intersected(Merged(silent), OutsideDeclared)
  BY DEF Gaps, HourList, HourAt, HourCount, MarkAt
<1>2. ASSUME NEW h \in Host
      PROVE  /\ AllCollected[h] = Collected(h) /\ Apart(Collected(h)) /\ Collected(h) \in Intervals
             /\ Seconds(Collected(h)) = CollectedSeconds(h)
             /\ h \in active <=> CollectedSeconds(h) # {}
  <2>1. AllCollected[h] = Collected(h)
    BY DEF AllCollected
  <2>2. Apart(Collected(h)) /\ Collected(h) \in Intervals /\ Seconds(Collected(h)) = CollectedSeconds(h)
    BY CollectedIs DEF Apart
  <2>3. h \in active <=> Collected(h) # <<>>
    BY <2>1
  <2> HIDE DEF active
  <2> QED BY <2>1, <2>2, <2>3, NotEmpty
<1>3. HourList \in Intervals /\ Len(HourList) = HourCount /\ places \in SUBSET (1..Len(HourList))
  BY HoursAre
<1>4. \A n \in 1..HourCount : n \notin places =>
         \E g \in active : Intersected(Collected(g), <<HourList[n]>>) # <<>>
  BY <1>2, <1>3
<1>5. \A g \in active : g \in Host
  OBVIOUS
<1> HIDE DEF gaps, places, active
<1>6. /\ silent \in Intervals
      /\ \A s : s \in Seconds(silent) <=>
           \E n \in places : s \in Int /\ HourList[n][1] <= s /\ s < HourList[n][2]
  BY <1>3, KeptSeconds
<1> HIDE DEF silent
<1>7. Merged(silent) \in Intervals /\ Seconds(Merged(silent)) = Seconds(silent)
  BY <1>6, MergedStayApart
<1>8. /\ Intersected(Merged(silent), OutsideDeclared) \in Intervals
      /\ Seconds(Intersected(Merged(silent), OutsideDeclared)) =
           Seconds(silent) \cap (Moments \ In(asked.declared))
  BY <1>7, DeclaredIs, IntersectionIsExact
<1>9. <<>> \in Intervals /\ Seconds(<<>>) = {}
  BY DEF Seconds, Intervals
<1>10. gaps \in Intervals /\ Seconds(gaps) \in SUBSET Moments
  BY <1>1, <1>8, <1>9
<1>11. ASSUME NEW h \in Host, CollectedSeconds(h) # {},
              NEW s \in Moments \ In(asked.declared), s \notin Seconds(gaps)
       PROVE  \E g \in Host : s \in CollectedSeconds(g)
  <2>1. s \notin Seconds(silent)
    BY <1>1, <1>2, <1>8, <1>11
  <2>2. PICK n \in 1..HourCount : HourFloor(s) = MarkAt(n)
    BY HoursAre
  <2>3. /\ HourList[n] = HourAt(n) /\ HourAt(n)[1] <= s /\ s < HourAt(n)[2]
        /\ HourAt(n)[1] \in Nat /\ HourAt(n)[2] \in Nat /\ s \in Int
    BY <2>2, HoursAre, WindowIs
  <2>4. n \notin places
    BY <1>6, <2>1, <2>3
  <2>5. PICK g \in active : Intersected(Collected(g), <<HourAt(n)>>) # <<>>
    BY <1>4, <2>3, <2>4
  <2>6. g \in Host /\ Collected(g) \in Intervals /\ Seconds(Collected(g)) = CollectedSeconds(g)
    BY <1>2, <1>5
  <2> DEFINE one == <<HourAt(n)>>
             e == HourAt(n)
  <2>7. /\ one \in Intervals
        /\ \A r : r \in Seconds(one) <=> r \in Int /\ HourAt(n)[1] <= r /\ r < HourAt(n)[2]
    <3>1. e \in Int \X Int
      <4>1. HourList[n] \in Int \X Int
        BY HoursAre, IntervalFacts
      <4> QED BY <2>3, <4>1
    <3> HIDE DEF e
    <3>2. <<e>> \in Intervals /\ Len(<<e>>) = 1 /\ <<e>>[1] = e
      BY <3>1 DEF Intervals
    <3>3. \A r : r \in Seconds(<<e>>) <=> r \in Int /\ e[1] <= r /\ r < e[2]
      BY <3>2, IntervalFacts
    <3> QED BY <3>2, <3>3 DEF e
  <2> HIDE DEF one, e
  <2>8. /\ Apart(Intersected(Collected(g), one))
        /\ Seconds(Intersected(Collected(g), one)) = CollectedSeconds(g) \cap Seconds(one)
    BY <2>6, <2>7, IntersectionIsExact
  <2>9. CollectedSeconds(g) \cap Seconds(one) # {}
    BY <2>5, <2>8, NotEmpty DEF one
  <2>10. PICK r : r \in CollectedSeconds(g) /\ r \in Seconds(one)
    BY <2>9
  <2>11. r \in Moments /\ HourFloor(r) \in asked.collected[g]
    BY <2>10 DEF CollectedSeconds, Moments
  <2>12. HourFloor(r) = MarkAt(n)
    BY <2>7, <2>10, <2>11, HoursAre
  <2>13. s \in CollectedSeconds(g)
    BY <2>2, <2>11, <2>12 DEF CollectedSeconds, Moments
  <2> QED BY <2>6, <2>13
<1> QED BY <1>10, <1>11 DEF gaps

-----------------------------------------------------------------------------
(* The figures.                                                            *)

FiguresNow ==
  FiguresOf([h \in Host |-> Covered(h, AllCollected[h])], EstateSeconds(Gaps(AllCollected)))

\* down seconds of covered measured ones, planned ones left out.
Counts(down, covered, planned) ==
  /\ down \in Nat /\ covered \in Nat /\ planned \in Nat /\ down <= covered
  /\ ~asked.strict => covered = Window - planned

LEMMA FigureRowIs ==
  ASSUME NEW down, NEW covered, NEW planned, Counts(down, covered, planned),
         asked.strict \in BOOLEAN, NEW longest, NEW anyones
  PROVE  LET f == FigureRow(down, covered, planned, longest, anyones) IN
         /\ f.downtime = down /\ f.covered = covered /\ f.maintenance = planned
         /\ f.longest = longest
         /\ f.sli # NoFigure => f.sli = <<f.covered - f.downtime, f.covered>>
         /\ f.status = "partial" =>
              asked.strict /\ covered # 0 /\ 100 * covered < 95 * Greater(0, anyones - planned)
<1> DEFINE f == FigureRow(down, covered, planned, longest, anyones)
           whole == IF asked.strict THEN covered ELSE Window - planned
           nodata == asked.strict /\ (covered = 0 \/ 100 * covered < MinCoverage * (Window - planned))
           short == 100 * covered < 95 * Greater(0, anyones - planned)
<1>1. /\ f.downtime = down /\ f.covered = covered /\ f.maintenance = planned
      /\ f.longest = longest
      /\ f.sli = IF nodata THEN NoFigure ELSE Figure(down, whole)
      /\ f.status = IF nodata THEN "nodata" ELSE IF asked.strict /\ short THEN "partial" ELSE "ok"
  BY DEF FigureRow
<1>2. whole = covered /\ down \in Nat /\ covered \in Nat /\ down <= covered
  BY DEF Counts
<1>3. covered = 0 /\ asked.strict => nodata
  OBVIOUS
<1> HIDE DEF f, whole, nodata, short
<1>4. Figure(down, whole) # NoFigure => Figure(down, whole) = <<covered - down, covered>>
  <2>1. Greater(0, covered - down) = covered - down
    BY <1>2 DEF Greater
  <2> QED BY <1>2, <2>1 DEF Figure
<1>5. f.sli # NoFigure => f.sli = <<f.covered - f.downtime, f.covered>>
  BY <1>1, <1>4
<1>6. f.status = "partial" => asked.strict /\ covered # 0 /\ short
  BY <1>1, <1>3
<1> QED BY <1>1, <1>5, <1>6 DEF f, short

LEMMA LegsAre ==
  ASSUME Asked, NEW h \in Host
  PROVE  LET down == Cardinality(DownSeconds(h))
             covered == Cardinality(MeasuredSeconds(h))
             planned == Cardinality(In(asked.planned[h]))
         IN  /\ Counts(down, covered, planned)
             /\ FiguresNow.legs[h] =
                  FigureRow(down, covered, planned,
                            Longest(Measured(h, Covered(h, Collected(h)))),
                            EstateSeconds(Gaps(AllCollected)))
<1> DEFINE covered == Covered(h, Collected(h))
           measured == Measured(h, covered)
           anyones == EstateSeconds(Gaps(AllCollected))
<1>1. FiguresNow.legs[h] = FigureRow(TotalSeconds(measured), TotalSeconds(covered),
                                     TotalSeconds(Planned(h)), Longest(measured), anyones)
  BY DEF FiguresNow, FiguresOf, AllFigures, WithPath, HostFigures, AllCollected
<1>2. /\ covered \in Intervals /\ Seconds(covered) = MeasuredSeconds(h)
      /\ MeasuredSeconds(h) \in SUBSET Moments
      /\ measured \in Intervals /\ Seconds(measured) = DownSeconds(h)
      /\ DownSeconds(h) \in SUBSET MeasuredSeconds(h)
  BY CoveredIs, MeasuredIs DEF Apart
<1> HIDE DEF covered, measured, anyones
<1>3. /\ TotalSeconds(covered) = Cardinality(MeasuredSeconds(h))
      /\ TotalSeconds(measured) = Cardinality(DownSeconds(h))
      /\ TotalSeconds(Planned(h)) = Cardinality(In(asked.planned[h]))
  BY <1>2, PlannedIs, TotalIsCount
<1>4. In(asked.planned[h]) \in SUBSET Moments /\ DownSeconds(h) \in SUBSET Moments
  BY <1>2 DEF In, Moments
<1>5. /\ Cardinality(DownSeconds(h)) \in Nat /\ Cardinality(MeasuredSeconds(h)) \in Nat
      /\ Cardinality(In(asked.planned[h])) \in Nat
  BY <1>2, <1>4, CountOf
<1>6. Cardinality(DownSeconds(h)) <= Cardinality(MeasuredSeconds(h))
  BY <1>2, CountOf, FS_Subset
<1>7. ~asked.strict => Cardinality(MeasuredSeconds(h)) = Window - Cardinality(In(asked.planned[h]))
  <2>1. ~asked.strict => MeasuredSeconds(h) = Moments \ In(asked.planned[h])
    BY DEF MeasuredSeconds, Moments
  <2> QED BY <1>4, <2>1, CountOfRest
<1> QED BY <1>1, <1>3, <1>5, <1>6, <1>7 DEF Counts, covered, measured, anyones

LEMMA PathIs ==
  ASSUME Asked
  PROVE  FiguresNow.path.downtime = Cardinality(DownSeconds("legA") \cap DownSeconds("legB"))
<1> DEFINE a == Measured("legA", Covered("legA", Collected("legA")))
           b == Measured("legB", Covered("legB", Collected("legB")))
<1>1. "legA" \in Host /\ "legB" \in Host
  BY DEF Host
<1>2. FiguresNow.path.downtime = TotalSeconds(Intersected(a, b))
  BY <1>1 DEF FiguresNow, FiguresOf, AllFigures, WithPath, PathFigures, AllCollected
<1>3. /\ a \in Intervals /\ Seconds(a) = DownSeconds("legA")
      /\ b \in Intervals /\ Seconds(b) = DownSeconds("legB")
  BY <1>1, MeasuredIs DEF Apart
<1> HIDE DEF a, b
<1>4. /\ Intersected(a, b) \in Intervals
      /\ Seconds(Intersected(a, b)) = DownSeconds("legA") \cap DownSeconds("legB")
  BY <1>3, IntersectionIsExact
<1> QED BY <1>2, <1>4, TotalIsCount

\* What a host that collected whenever another did measures is all the estate
\* could, but for its own maintenance.
LEMMA NothingMissing ==
  ASSUME Asked, asked.strict, NEW h \in Host, MeasuredSeconds(h) # {},
         \A s \in Moments \ In(asked.declared), g \in Host :
           s \in CollectedSeconds(g) => s \in CollectedSeconds(h)
  PROVE  Greater(0, EstateSeconds(Gaps(AllCollected)) - Cardinality(In(asked.planned[h])))
           <= Cardinality(MeasuredSeconds(h))
<1> DEFINE gaps == Gaps(AllCollected)
           G == Seconds(gaps)
           D == In(asked.declared)
           P == In(asked.planned[h])
           M == MeasuredSeconds(h)
<1>1. /\ G \in SUBSET Moments /\ D \in SUBSET Moments /\ P \in SUBSET Moments
      /\ M \in SUBSET Moments /\ gaps \in Intervals
  BY CoveredIs, GapsAre DEF In, Moments
<1>2. M = CollectedSeconds(h) \ P
  BY DEF MeasuredSeconds
<1>3. TotalSeconds(gaps) = Cardinality(G) /\ TotalSeconds(Declared) = Cardinality(D)
  BY <1>1, DeclaredIs, TotalIsCount
<1>4. EstateSeconds(gaps) = Greater(0, Window - (Cardinality(G) + Cardinality(D)))
  BY <1>3 DEF EstateSeconds
<1>5. Moments = ((M \cup P) \cup D) \cup G
  <2> SUFFICES ASSUME NEW s \in Moments, s \notin P, s \notin D, s \notin G PROVE s \in M
    BY <1>1
  <2>1. CollectedSeconds(h) # {}
    BY <1>2
  <2>2. PICK g \in Host : s \in CollectedSeconds(g)
    BY <2>1, GapsAre
  <2> QED BY <1>2, <2>2
<1> HIDE DEF gaps, G, D, P, M
<1>6. /\ (M \cup P) \cup D \in SUBSET Moments /\ M \cup P \in SUBSET Moments
      /\ Cardinality(M \cup P) <= Cardinality(M) + Cardinality(P)
      /\ Cardinality((M \cup P) \cup D) <= Cardinality(M \cup P) + Cardinality(D)
      /\ Cardinality(Moments) <= Cardinality((M \cup P) \cup D) + Cardinality(G)
  BY <1>1, <1>5, CountOfUnion
<1>7. /\ Cardinality(M) \in Nat /\ Cardinality(P) \in Nat /\ Cardinality(D) \in Nat
      /\ Cardinality(G) \in Nat /\ Cardinality(M \cup P) \in Nat
      /\ Cardinality((M \cup P) \cup D) \in Nat
      /\ Window \in Nat /\ Cardinality(Moments) = Window
  BY <1>1, <1>6, CountOf, WindowIs
<1>8. Window <= Cardinality(M) + Cardinality(P) + Cardinality(D) + Cardinality(G)
  BY <1>6, <1>7
<1>9. Greater(0, Greater(0, Window - (Cardinality(G) + Cardinality(D))) - Cardinality(P)) <= Cardinality(M)
  BY <1>7, <1>8 DEF Greater
<1> QED BY <1>4, <1>9 DEF gaps, P, M

FigureInv == Asked /\ (figures # NoFigures => figures = FiguresNow)

\* The figures of what was asked, one by one.
LEMMA FiguresNowAreExact ==
  ASSUME FigureInv
  PROVE  FiguresExact
<1> SUFFICES ASSUME Asked, figures = FiguresNow PROVE FiguresExact
  BY DEF FigureInv, FiguresExact
<1> DEFINE Right(h) ==
             LET f == figures.legs[h] IN
             /\ f.downtime = Cardinality(DownSeconds(h))
             /\ f.covered = Cardinality(MeasuredSeconds(h))
             /\ f.maintenance = Cardinality(In(asked.planned[h]))
             /\ f.downtime <= f.covered
             /\ \A a, b \in From..Until - 1 :
                  a..b \subseteq DownSeconds(h) => b - a + 1 <= f.longest
             /\ f.sli # NoFigure => f.sli = <<f.covered - f.downtime, f.covered>>
             /\ f.status = "partial" =>
                  \E s \in (From..Until - 1) \ In(asked.declared) :
                    \E g \in Host : s \in CollectedSeconds(g) \ CollectedSeconds(h)
<1>1. figures.path.downtime = Cardinality(DownSeconds("legA") \cap DownSeconds("legB"))
  BY PathIs
<1>2. ASSUME NEW h \in Host PROVE Right(h)
  <2> DEFINE down == Cardinality(DownSeconds(h))
             covered == Cardinality(MeasuredSeconds(h))
             planned == Cardinality(In(asked.planned[h]))
             measured == Measured(h, Covered(h, Collected(h)))
             anyones == EstateSeconds(Gaps(AllCollected))
             f == figures.legs[h]
             Lost == \E s \in Moments \ In(asked.declared) :
                       \E g \in Host : s \in CollectedSeconds(g) \ CollectedSeconds(h)
  <2>1. Counts(down, covered, planned) /\ f = FigureRow(down, covered, planned, Longest(measured), anyones)
    BY LegsAre
  <2>2. Apart(measured) /\ Seconds(measured) = DownSeconds(h)
    BY MeasuredIs
  <2>3. asked.strict /\ covered # 0 /\ 100 * covered < 95 * Greater(0, anyones - planned) => Lost
    <3> SUFFICES ASSUME asked.strict, covered # 0, ~Lost
                 PROVE  ~(100 * covered < 95 * Greater(0, anyones - planned))
      OBVIOUS
    <3>1. MeasuredSeconds(h) # {}
      BY FS_EmptySet
    <3>2. \A s \in Moments \ In(asked.declared), g \in Host :
             s \in CollectedSeconds(g) => s \in CollectedSeconds(h)
      OBVIOUS
    <3>3. Greater(0, anyones - planned) <= covered
      BY <3>1, <3>2, NothingMissing
    <3>4. covered \in Nat /\ planned \in Nat /\ anyones \in Int
      <4>1. TotalSeconds(Gaps(AllCollected)) \in Nat /\ TotalSeconds(Declared) \in Nat
        BY GapsAre, DeclaredIs, TotalIsCount, FS_CardinalityType
      <4>2. anyones \in Int
        BY <4>1, WindowIs DEF EstateSeconds, Greater
      <4> QED BY <2>1, <4>2 DEF Counts
    <3> HIDE DEF covered, planned, anyones
    <3> QED BY <3>3, <3>4 DEF Greater
  <2> HIDE DEF down, covered, planned, measured, anyones, f, Lost
  <2>4. /\ f.downtime = down /\ f.covered = covered /\ f.maintenance = planned
        /\ f.longest = Longest(measured)
        /\ f.sli # NoFigure => f.sli = <<f.covered - f.downtime, f.covered>>
        /\ f.status = "partial" =>
             asked.strict /\ covered # 0 /\ 100 * covered < 95 * Greater(0, anyones - planned)
    BY <2>1, FigureRowIs DEF Asked
  <2>5. f.downtime <= f.covered
    BY <2>1, <2>4 DEF Counts
  <2>6. ASSUME NEW a \in From..Until - 1, NEW b \in From..Until - 1, a..b \subseteq DownSeconds(h)
        PROVE  b - a + 1 <= f.longest
    <3>1. a \in Int /\ b \in Int
      BY WindowIs
    <3> QED BY <2>2, <2>4, <2>6, <3>1, NoRunIsLonger
  <2>7. f.status = "partial" => Lost
    BY <2>3, <2>4
  <2> QED BY <2>4, <2>5, <2>6, <2>7 DEF down, covered, planned, f, Lost, Moments
<1> HIDE DEF Right
<1>3. (\A h \in Host : Right(h)) /\ figures.path.downtime = Cardinality(DownSeconds("legA") \cap DownSeconds("legB"))
  BY <1>1, <1>2
<1> QED BY <1>3 DEF FiguresExact, Right

LEMMA FigureInitial == FigureInit => FigureInv
<1> SUFFICES ASSUME FigureInit PROVE FigureInv
  OBVIOUS
<1>1. Lists \subseteq Intervals
  BY FigureAssumption DEF Intervals
<1>2. <<>> \in Intervals
  BY DEF Intervals
<1>3. /\ asked.strict \in BOOLEAN /\ asked.down \in [Host -> Lists] /\ asked.declared \in Lists
      /\ \E l \in Lists : asked.planned = [h \in Host |-> IF h = "legA" THEN l ELSE <<>>]
      /\ \E s \in Hours : asked.collected = [h \in Host |-> IF h = "legA" THEN s ELSE UNION Hours]
  BY DEF FigureInit
<1>4. ASSUME NEW h \in Host
      PROVE  /\ asked.down[h] \in Intervals /\ asked.planned[h] \in Intervals
             /\ asked.collected[h] \in SUBSET UNION Hours
  <2>1. asked.down[h] \in Intervals
    BY <1>1, <1>3
  <2>2. asked.planned[h] \in Intervals
    BY <1>1, <1>2, <1>3
  <2>3. asked.collected[h] \in SUBSET UNION Hours
    BY <1>3
  <2> QED BY <2>1, <2>2, <2>3
<1>5. Asked
  BY <1>1, <1>3, <1>4 DEF Asked
<1> QED BY <1>5 DEF FigureInv, FigureInit

LEMMA FigureStep == FigureInv /\ [ComputeFigures]_figureVars => FigureInv'
<1> SUFFICES ASSUME FigureInv, [ComputeFigures]_figureVars PROVE FigureInv'
  OBVIOUS
<1>1. asked' = asked /\ (figures' = figures \/ figures' = FiguresNow)
  BY DEF ComputeFigures, figureVars, FiguresNow, AllCollected
<1>2. Asked'
  BY <1>1 DEF FigureInv, Asked
<1>3. FiguresNow' = FiguresNow
  <2>1. Declared' = Declared /\ OutsideDeclared' = OutsideDeclared
    BY <1>1 DEF Declared, OutsideDeclared
  <2>2. AllCollected' = AllCollected
    BY <1>1, <2>1 DEF AllCollected, Collected
  <2>3. EstateSeconds(Gaps(AllCollected))' = EstateSeconds(Gaps(AllCollected))
    BY <1>1, <2>1, <2>2 DEF EstateSeconds, Gaps
  <2> DEFINE anyones == EstateSeconds(Gaps(AllCollected))
             covered == [h \in Host |-> Covered(h, AllCollected[h])]
             measured == [h \in Host |-> Measured(h, covered[h])]
             legs == [h \in Host |-> HostFigures(h, covered[h], measured[h], anyones)]
             path == PathFigures(legs, covered, measured)
  <2>4. FiguresNow = [legs |-> legs, path |-> path] /\ FiguresNow' = [legs |-> legs', path |-> path']
    BY DEF FiguresNow, FiguresOf, AllFigures, WithPath
  <2>5. covered' = covered
    BY <1>1, <2>2 DEF Covered, Planned, OutsidePlanned
  <2> HIDE DEF covered
  <2>6. measured' = measured
    BY <1>1, <2>1, <2>5 DEF Measured
  <2> HIDE DEF measured, anyones
  <2>7. legs' = legs
    BY <1>1, <2>3, <2>5, <2>6 DEF HostFigures, FigureRow, Planned, anyones
  <2> HIDE DEF legs
  <2>8. path' = path
    BY <1>1, <2>5, <2>6, <2>7 DEF PathFigures
  <2> HIDE DEF path
  <2> QED BY <2>4, <2>7, <2>8
<1> QED BY <1>1, <1>2, <1>3 DEF FigureInv

\* computeSli: downtime, coverage and maintenance of a host, and the downtime of
\* the path, are counts of seconds, each once; and only a host that did not collect when
\* another did is called partial.
THEOREM FiguresAreExact == FigureSpec => []FiguresExact
<1>1. FigureInv => FiguresExact
  BY FiguresNowAreExact
<1> QED BY <1>1, FigureInitial, FigureStep, PTL DEF FigureSpec

-----------------------------------------------------------------------------
(* Division.                                                               *)

LEMMA DividedBy ==
  ASSUME NEW s \in Int, NEW n \in Nat \ {0}
  PROVE  /\ s \div n \in Int /\ s % n \in 0..n - 1
         /\ s = (s \div n) * n + (s % n)
         /\ \A k \in Int : k * n <= s <=> k <= s \div n
         /\ \A k \in Int : \A r \in 0..n - 1 : s = k * n + r => k = s \div n /\ r = s % n
<1> DEFINE q == s \div n
           m == s % n
<1>1. q \in Int /\ m \in 0..n - 1 /\ s = q * n + m /\ q * n \in Int
  OBVIOUS
<1> HIDE DEF q, m
<1>2. ASSUME NEW k \in Int PROVE k * n <= s <=> k <= q
  <2>1. k * n \in Int
    OBVIOUS
  <2>2. ASSUME k <= q PROVE k * n <= s
    <3>1. k * n <= q * n
      BY <1>1, <2>2, MultiplesInOrder
    <3> QED BY <1>1, <2>1, <3>1
  <2>3. ASSUME k * n <= s, q + 1 <= k PROVE FALSE
    <3>1. (q + 1) * n <= k * n
      BY <1>1, <2>3, MultiplesInOrder
    <3>2. (q + 1) * n = q * n + n
      BY <1>1
    <3> QED BY <1>1, <2>1, <2>3, <3>1, <3>2
  <2> QED BY <1>1, <2>2, <2>3
<1>3. ASSUME NEW k \in Int, NEW r \in 0..n - 1, s = k * n + r PROVE k = q /\ r = m
  <2>1. k * n \in Int /\ (k + 1) * n = k * n + n /\ k + 1 \in Int
    OBVIOUS
  <2>2. k <= q
    BY <1>2, <1>3, <2>1
  <2>3. ~(k + 1 <= q)
    BY <1>2, <1>3, <2>1
  <2>4. k = q
    BY <1>1, <2>2, <2>3
  <2>5. s = q * n + r
    BY <1>3, <2>4
  <2> HIDE <1>3
  <2> QED BY <1>1, <2>4, <2>5
<1> QED BY <1>1, <1>2, <1>3 DEF q, m

LEMMA IsMultiple ==
  ASSUME NEW d \in Nat, NEW n \in Nat \ {0}
  PROVE  d % n = 0 <=> \E k \in 0..d : d = k * n
<1>1. ASSUME d % n = 0 PROVE \E k \in 0..d : d = k * n
  <2> DEFINE q == d \div n
  <2>1. q \in Nat /\ q * n <= d /\ d = q * n
    BY <1>1, HourOf, DividedBy
  <2> HIDE DEF q
  <2>2. q <= d
    <3>1. PICK m \in Nat : n = m + 1
      <4>1. n - 1 \in Nat /\ n = (n - 1) + 1
        OBVIOUS
      <4> QED BY <4>1
    <3>2. q * n = q * m + q /\ q * m \in Nat
      BY <2>1, <3>1
    <3> QED BY <2>1, <3>2
  <2> QED BY <2>1, <2>2
<1>2. ASSUME NEW k \in 0..d, d = k * n PROVE d % n = 0
  <2>1. d = k * n + 0 /\ k \in Int /\ 0 \in 0..n - 1
    BY <1>2
  <2> QED BY <2>1, DividedBy
<1> QED BY <1>1, <1>2

LEMMA SameMultiple ==
  ASSUME NEW a \in Int, NEW b \in Int, NEW n \in Nat \ {0}, a * n = b * n
  PROVE  a = b
<1>1. a * n \in Int /\ a * n = a * n + 0 /\ a * n = b * n + 0 /\ 0 \in 0..n - 1
  OBVIOUS
<1> QED BY <1>1, DividedBy

-----------------------------------------------------------------------------
(* Days.                                                                   *)

LEMMA CalendarIs ==
  /\ DaySeconds \in Nat \ {0} /\ WeekDays \in Nat \ {0} /\ MonthDays \in Nat \ {0}
  /\ Offset \in Int /\ 0 <= DaySeconds + Offset
BY MaintenanceAssumption

\* A day is the last to have begun.
LEMMA DayIs ==
  ASSUME NEW t \in Int
  PROVE  /\ DayOf(t) \in Int
         /\ \A n \in Int : DayStart(n) \in Int /\ DayStart(n + 1) = DayStart(n) + DaySeconds
         /\ \A n \in Int : DayStart(n) <= t <=> n <= DayOf(t)
<1>1. DaySeconds \in Nat \ {0} /\ Offset \in Int /\ t + Offset \in Int
  BY CalendarIs
<1>2. ASSUME NEW n \in Int
      PROVE  DayStart(n) \in Int /\ DayStart(n + 1) = DayStart(n) + DaySeconds
             /\ (DayStart(n) <= t <=> n * DaySeconds <= t + Offset)
  <2>1. n * DaySeconds \in Int /\ (n + 1) * DaySeconds = n * DaySeconds + DaySeconds
    BY <1>1
  <2> QED BY <1>1, <2>1 DEF DayStart
<1>3. /\ (t + Offset) \div DaySeconds \in Int
      /\ \A n \in Int : n * DaySeconds <= t + Offset <=> n <= (t + Offset) \div DaySeconds
  BY <1>1, DividedBy
<1> QED BY <1>2, <1>3 DEF DayOf

\* The span of day n, as the loop over the days finds it.
Runs(tp, n, s) == s - (DayStart(n) + tp.start) \in 0..tp.period - 1

LEMMA DaysLookedAt ==
  ASSUME NEW tp, TimePeriod(tp), tp.type # "once",
         NEW lo \in Int, NEW hi \in Int, NEW s \in lo..hi - 1, NEW n \in Int, Runs(tp, n, s)
  PROVE  /\ FirstDay(lo, tp) <= n /\ n <= DayOf(hi)
         /\ n \in DayOf(s) - DayOf(tp.start + tp.period) - 2..DayOf(s) + 1
<1> DEFINE start == tp.start
           period == tp.period
<1>1. start \in 0..DaySeconds - 1 /\ period \in Int /\ s \in Int /\ lo <= s /\ s < hi
      /\ DaySeconds \in Nat \ {0} /\ Offset \in Int /\ 0 <= DaySeconds + Offset
  BY CalendarIs DEF TimePeriod
<1>2. DayStart(n) \in Int /\ DayStart(n) + start <= s /\ s < DayStart(n) + start + period
  <2>1. DayStart(n) \in Int
    BY <1>1, DayIs
  <2> QED BY <1>1, <2>1 DEF Runs
<1> HIDE DEF start, period
<1>3. n <= DayOf(s) /\ n <= DayOf(hi) /\ DayOf(s) \in Int /\ DayOf(hi) \in Int
  <2>1. DayStart(n) <= s /\ DayStart(n) <= hi
    BY <1>1, <1>2
  <2>2. n <= DayOf(s) /\ DayOf(s) \in Int
    BY <1>1, <2>1, DayIs
  <2>3. n <= DayOf(hi) /\ DayOf(hi) \in Int
    BY <2>1, DayIs
  <2> QED BY <2>2, <2>3
<1>4. DayOf(lo - period) \in Int /\ DayOf(lo - period) <= n
  <2>1. lo - period \in Int /\ n + 1 \in Int
    BY <1>1
  <2>2. DayStart(n + 1) = DayStart(n) + DaySeconds /\ DayOf(lo - period) \in Int
        /\ (DayStart(n + 1) <= lo - period <=> n + 1 <= DayOf(lo - period))
    BY <2>1, DayIs
  <2> QED BY <1>1, <1>2, <2>2
<1>5. DayOf(start + period) \in Int /\ DayOf(s) - DayOf(start + period) - 2 <= n
  <2> DEFINE B == DayOf(start + period)
             A == DayOf(s)
  <2>1. B \in Int /\ start + period < DayStart(B + 1)
    <3>1. start + period \in Int
      BY <1>1
    <3>2. B \in Int
          /\ \A k \in Int : DayStart(k) \in Int /\ (DayStart(k) <= start + period <=> k <= B)
      BY <3>1, DayIs
    <3> HIDE DEF B
    <3>3. B + 1 \in Int
      BY <3>2
    <3>4. DayStart(B + 1) \in Int /\ (DayStart(B + 1) <= start + period <=> B + 1 <= B)
      BY <3>2, <3>3
    <3> QED BY <3>1, <3>2, <3>4
  <2>2. A \in Int
    BY <1>3
  <2> HIDE DEF B
  <2>3. n + B + 3 <= A => DayStart(n + B + 3) <= s
    <3>1. n + B + 3 \in Int
      BY <2>1
    <3> QED BY <1>1, <3>1, DayIs
  <2>4. /\ DayStart(n + B + 3) = DayStart(n) + DayStart(B + 1) + 2 * DaySeconds + Offset
        /\ DayStart(B + 1) \in Int
    <3>1. DaySeconds \in Int /\ B \in Int
      BY <1>1, <2>1
    <3>2. (n + B + 3) * DaySeconds = n * DaySeconds + B * DaySeconds + 3 * DaySeconds
      BY <3>1
    <3>3. (B + 1) * DaySeconds = B * DaySeconds + DaySeconds
      BY <3>1
    <3>4. n * DaySeconds \in Int /\ B * DaySeconds \in Int
      BY <3>1
    <3>5. DayStart(n + B + 3) = (n + B + 3) * DaySeconds - Offset
      BY DEF DayStart
    <3>6. DayStart(n) = n * DaySeconds - Offset
      BY DEF DayStart
    <3>7. DayStart(B + 1) = (B + 1) * DaySeconds - Offset
      BY DEF DayStart
    <3> QED BY <1>1, <3>2, <3>3, <3>4, <3>5, <3>6, <3>7
  <2>5. ~(n + B + 3 <= A)
    BY <1>1, <1>2, <2>1, <2>3, <2>4
  <2> QED BY <2>1, <2>2, <2>5 DEF B
<1> QED BY <1>1, <1>3, <1>4, <1>5 DEF FirstDay, start, period

-----------------------------------------------------------------------------
(* On which days a period starts.                                          *)

LEMMA DailyStarts ==
  ASSUME NEW tp, TimePeriod(tp), tp.type = "daily", NEW n \in Int, NEW since \in Int
  PROVE  StartsOn(tp, n, since) <=> Occurs(tp, n, since)
<1> DEFINE e == tp.every
<1>1. e \in Nat \ {0}
  BY DEF TimePeriod
<1>2. StartsOn(tp, n, since) <=> n >= since /\ (n - since) % e = 0
  BY DEF StartsOn
<1>3. Occurs(tp, n, since) <=> \E k \in 0..n - since : n = since + k * e
  BY DEF Occurs
<1> HIDE DEF e
<1>4. CASE n >= since
  <2> DEFINE d == n - since
  <2>1. d \in Nat
    BY <1>4
  <2>2. d % e = 0 <=> \E k \in 0..d : d = k * e
    BY <1>1, <2>1, IsMultiple
  <2>3. \A k \in 0..d : d = k * e <=> n = since + k * e
    BY <1>1
  <2> QED BY <1>2, <1>3, <1>4, <2>2, <2>3
<1>5. CASE ~(n >= since)
  BY <1>2, <1>3, <1>5
<1> QED BY <1>4, <1>5

\* A weekday's week begins with a multiple of the days of one.
LEMMA WeekOf ==
  ASSUME NEW n \in Int
  PROVE  /\ n \div WeekDays \in Int /\ Weekday(n) \in 0..WeekDays - 1
         /\ n - Weekday(n) = (n \div WeekDays) * WeekDays
<1>1. WeekDays \in Nat \ {0}
  BY CalendarIs
<1>2. n \div WeekDays \in Int /\ n % WeekDays \in 0..WeekDays - 1
      /\ n = (n \div WeekDays) * WeekDays + (n % WeekDays)
  BY <1>1, DividedBy
<1>3. (n \div WeekDays) * WeekDays \in Int
  BY <1>1, <1>2
<1> QED BY <1>1, <1>2, <1>3 DEF Weekday

LEMMA WeeklyStarts ==
  ASSUME NEW tp, TimePeriod(tp), tp.type = "weekly", NEW n \in Int, NEW since \in Int
  PROVE  StartsOn(tp, n, since) <=> Occurs(tp, n, since)
<1> DEFINE e == tp.every
           monday == since - Weekday(since)
           a == since \div WeekDays
           b == n \div WeekDays
           most == Greater(0, n - since + WeekDays)
           Due(k) == n - Weekday(n) = monday + k * e * WeekDays
<1>1. e \in Nat \ {0} /\ WeekDays \in Nat \ {0}
  BY CalendarIs DEF TimePeriod
<1>2. StartsOn(tp, n, since) <=>
        Weekday(n) \in tp.weekdays /\ n >= monday /\ ((n - monday) \div WeekDays) % e = 0
  BY DEF StartsOn
<1>3. Occurs(tp, n, since) <=> Weekday(n) \in tp.weekdays /\ \E k \in 0..most : Due(k)
  BY DEF Occurs
<1>4. /\ a \in Int /\ b \in Int /\ Weekday(n) \in 0..WeekDays - 1 /\ Weekday(since) \in 0..WeekDays - 1
      /\ n - Weekday(n) = b * WeekDays /\ monday = a * WeekDays
  BY WeekOf
<1>5. /\ monday \in Int /\ a * WeekDays \in Int /\ b * WeekDays \in Int
      /\ (b - a) * WeekDays = b * WeekDays - a * WeekDays
  BY <1>1, <1>4
<1> HIDE DEF e, monday, a, b
<1>6. (n - monday) \div WeekDays = b - a
  <2>1. n - monday = (b - a) * WeekDays + Weekday(n)
    BY <1>1, <1>4, <1>5
  <2>2. n - monday \in Int /\ b - a \in Int
    BY <1>4, <1>5
  <2> QED BY <1>1, <1>4, <2>1, <2>2, DividedBy
<1>7. n >= monday <=> b >= a
  <2>1. ASSUME b >= a PROVE n >= monday
    <3>1. a * WeekDays <= b * WeekDays
      BY <1>1, <1>4, <2>1, MultiplesInOrder
    <3> QED BY <1>1, <1>4, <1>5, <3>1
  <2>2. ASSUME b + 1 <= a PROVE ~(n >= monday)
    <3>1. (b + 1) * WeekDays <= a * WeekDays
      BY <1>1, <1>4, <2>2, MultiplesInOrder
    <3>2. (b + 1) * WeekDays = b * WeekDays + WeekDays
      BY <1>1, <1>4
    <3> QED BY <1>1, <1>4, <1>5, <3>1, <3>2
  <2> QED BY <1>4, <2>1, <2>2
<1>8. ASSUME NEW k \in Nat PROVE Due(k) <=> b - a = k * e
  <2>1. k * e \in Nat
    BY <1>1
  <2>2. Due(k) <=> (b - a) * WeekDays = (k * e) * WeekDays
    <3>1. (k * e) * WeekDays \in Int
      BY <1>1, <2>1
    <3>2. Due(k) <=> n - Weekday(n) = monday + (k * e) * WeekDays
      OBVIOUS
    <3> QED BY <1>4, <1>5, <3>1, <3>2
  <2>3. \A x, y \in Int : x * WeekDays = y * WeekDays => x = y
    BY <1>1, SameMultiple
  <2>4. b - a \in Int /\ k * e \in Int
    BY <1>4, <2>1
  <2> QED BY <2>2, <2>3, <2>4
<1> HIDE DEF Due
<1>9. ASSUME b >= a PROVE (b - a) % e = 0 <=> \E k \in 0..most : Due(k)
  <2>1. b - a \in Nat
    BY <1>4, <1>9
  <2>2. (b - a) % e = 0 <=> \E k \in 0..(b - a) : b - a = k * e
    BY <1>1, <2>1, IsMultiple
  <2>3. b - a <= most
    <3>1. PICK w \in Nat : WeekDays = w + 1
      <4>1. WeekDays - 1 \in Nat /\ WeekDays = (WeekDays - 1) + 1
        BY <1>1
      <4> QED BY <4>1
    <3>2. (b - a) * w \in Nat /\ (b - a) * WeekDays = (b - a) * w + (b - a)
      BY <2>1, <3>1
    <3>3. b - a <= n - monday
      BY <1>4, <1>5, <2>1, <3>2
    <3>4. monday = since - Weekday(since) /\ most = Greater(0, n - since + WeekDays)
      BY DEF monday
    <3> HIDE DEF most
    <3> QED BY <1>1, <1>4, <2>1, <3>3, <3>4 DEF Greater
  <2>4. most \in Nat
    BY <1>1 DEF Greater
  <2> HIDE DEF most
  <2>5. ASSUME NEW k \in 0..most, Due(k) PROVE k \in 0..(b - a) /\ b - a = k * e
    <3>1. k \in Nat /\ b - a = k * e
      BY <1>8, <2>4, <2>5
    <3>2. PICK x \in Nat : e = x + 1
      <4>1. e - 1 \in Nat /\ e = (e - 1) + 1
        BY <1>1
      <4> QED BY <4>1
    <3>3. k * e = k * x + k /\ k * x \in Nat
      BY <3>1, <3>2
    <3> QED BY <2>1, <3>1, <3>3
  <2>6. ASSUME NEW k \in 0..(b - a), b - a = k * e PROVE k \in 0..most /\ Due(k)
    BY <1>8, <2>1, <2>3, <2>4, <2>6
  <2> QED BY <2>2, <2>5, <2>6
<1>10. ASSUME NEW k \in 0..most, Due(k) PROVE b >= a
  <2>1. k \in Nat
    BY <1>1, <1>10 DEF Greater
  <2>2. b - a = k * e /\ k * e \in Nat
    BY <1>1, <1>8, <1>10, <2>1
  <2> QED BY <1>4, <2>2
<1> HIDE DEF most
<1> QED BY <1>2, <1>3, <1>6, <1>7, <1>9, <1>10

\* Days of one weekday are weeks apart.
LEMMA WeeksApart ==
  ASSUME NEW n \in Int, NEW d \in Int
  PROVE  Weekday(d) = Weekday(n) <=> \E j \in Int : d = n - j * WeekDays
<1>1. WeekDays \in Nat \ {0}
  BY CalendarIs
<1>2. ASSUME Weekday(d) = Weekday(n) PROVE \E j \in Int : d = n - j * WeekDays
  <2> DEFINE a == d \div WeekDays
             b == n \div WeekDays
  <2>1. b \in Int /\ Weekday(n) \in 0..WeekDays - 1 /\ n - Weekday(n) = b * WeekDays
    BY WeekOf
  <2>2. a \in Int /\ d - Weekday(n) = a * WeekDays
    BY <1>2, WeekOf
  <2> HIDE DEF a, b
  <2>3. /\ (b - a) * WeekDays = b * WeekDays - a * WeekDays /\ b - a \in Int
        /\ a * WeekDays \in Int /\ b * WeekDays \in Int
    BY <1>1, <2>1, <2>2
  <2>4. d = n - (b - a) * WeekDays
    BY <2>1, <2>2, <2>3
  <2> QED BY <2>3, <2>4
<1>3. ASSUME NEW j \in Int, d = n - j * WeekDays PROVE Weekday(d) = Weekday(n)
  <2> DEFINE b == n \div WeekDays
  <2>1. b \in Int /\ Weekday(n) \in 0..WeekDays - 1 /\ n - Weekday(n) = b * WeekDays
    BY WeekOf
  <2> HIDE DEF b
  <2>2. (b - j) * WeekDays = b * WeekDays - j * WeekDays /\ b - j \in Int
        /\ b * WeekDays \in Int /\ j * WeekDays \in Int
    BY <1>1, <2>1
  <2>3. d = (b - j) * WeekDays + Weekday(n)
    BY <1>1, <1>3, <2>1, <2>2
  <2>4. \A k \in Int : \A r \in 0..WeekDays - 1 : d = k * WeekDays + r => r = d % WeekDays
    BY <1>1, DividedBy
  <2>5. Weekday(n) = d % WeekDays
    BY <2>1, <2>2, <2>3, <2>4
  <2> QED BY <2>5 DEF Weekday
<1> QED BY <1>2, <1>3

LEMMA MonthIs ==
  ASSUME NEW n \in Int
  PROVE  DayOfMonth(n) \in 1..MonthDays
<1>1. n % MonthDays \in 0..MonthDays - 1 /\ MonthDays \in Nat \ {0}
  BY CalendarIs, DividedBy
<1> QED BY <1>1 DEF DayOfMonth

LEMMA LastOfItsWeekday ==
  ASSUME NEW n \in Int
  PROVE  (\A d \in SameWeekday(n) : d <= n) <=> DayOfMonth(n) + WeekDays > MonthDays
<1> DEFINE dom == DayOfMonth(n)
<1>1. dom \in 1..MonthDays /\ MonthDays \in Nat /\ WeekDays \in Nat \ {0}
  BY CalendarIs, MonthIs
<1> HIDE DEF dom
<1>2. ASSUME dom + WeekDays <= MonthDays PROVE \E d \in SameWeekday(n) : ~(d <= n)
  <2> DEFINE d == n + WeekDays
  <2>1. d \in n - dom + 1..n - dom + MonthDays /\ d \in Int /\ ~(d <= n)
    BY <1>1, <1>2
  <2>2. d = n - (-1) * WeekDays /\ -1 \in Int
    BY <1>1
  <2> HIDE DEF d
  <2>3. Weekday(d) = Weekday(n)
    BY <2>1, <2>2, WeeksApart
  <2> QED BY <2>1, <2>3 DEF SameWeekday, dom
<1>3. ASSUME dom + WeekDays > MonthDays, NEW d \in SameWeekday(n) PROVE d <= n
  <2>1. d \in n - dom + 1..n - dom + MonthDays /\ Weekday(d) = Weekday(n)
    BY DEF SameWeekday, dom
  <2>2. d \in Int /\ d <= n - dom + MonthDays
    BY <1>1, <2>1
  <2>3. PICK j \in Int : d = n - j * WeekDays
    BY <2>1, <2>2, WeeksApart
  <2>4. CASE 0 <= j
    <3>1. j * WeekDays \in Nat
      BY <1>1, <2>4
    <3> QED BY <2>3, <3>1
  <2>5. CASE j <= -1
    <3>1. j * WeekDays <= (-1) * WeekDays /\ j * WeekDays \in Int
      BY <1>1, <2>5, MultiplesInOrder
    <3>2. (-1) * WeekDays = -WeekDays
      BY <1>1
    <3> QED BY <1>1, <1>3, <2>2, <2>3, <3>1, <3>2
  <2> QED BY <2>4, <2>5
<1>4. dom + WeekDays > MonthDays <=> ~(dom + WeekDays <= MonthDays)
  BY <1>1
<1> QED BY <1>2, <1>3, <1>4 DEF dom

LEMMA WeekIsCounted ==
  ASSUME NEW n \in Int
  PROVE  Cardinality({d \in SameWeekday(n) : d <= n}) = WeekOfMonth(n)
<1> DEFINE dom == DayOfMonth(n)
           J == (dom - 1) \div WeekDays
           before == {d \in SameWeekday(n) : d <= n}
           f == [j \in 0..J |-> n - j * WeekDays]
<1>1. dom \in 1..MonthDays /\ MonthDays \in Nat /\ WeekDays \in Nat \ {0}
  BY CalendarIs, MonthIs
<1>2. before = {d \in n - dom + 1..n : Weekday(d) = Weekday(n)}
  <2>1. \A d : d \in n - dom + 1..n - dom + MonthDays /\ d <= n <=> d \in n - dom + 1..n
    BY <1>1 DEF DayOfMonth
  <2> HIDE DEF dom
  <2>2. SameWeekday(n) = {d \in n - dom + 1..n - dom + MonthDays : Weekday(d) = Weekday(n)}
    BY DEF SameWeekday, dom
  <2> QED BY <2>1, <2>2
<1> HIDE DEF dom, before
<1>3. J \in Nat /\ \A j \in Int : j * WeekDays <= dom - 1 <=> j <= J
  <2>1. dom - 1 \in Nat
    BY <1>1
  <2> QED BY <1>1, <2>1, HourOf, DividedBy
<1>4. WeekOfMonth(n) = J + 1
  <2> DEFINE r == (dom - 1) % WeekDays
  <2>1. dom - 1 \in Int /\ dom + WeekDays - 1 \in Int
    BY <1>1
  <2>2. r \in 0..WeekDays - 1 /\ dom - 1 = J * WeekDays + r
    BY <1>1, <2>1, DividedBy
  <2> HIDE DEF r, J
  <2>3. (J + 1) * WeekDays = J * WeekDays + WeekDays /\ J * WeekDays \in Int /\ J + 1 \in Int
    BY <1>1, <1>3
  <2>4. dom + WeekDays - 1 = (J + 1) * WeekDays + r
    BY <1>1, <1>3, <2>2, <2>3
  <2>5. J + 1 = (dom + WeekDays - 1) \div WeekDays
    <3>1. \A k \in Int : \A x \in 0..WeekDays - 1 : dom + WeekDays - 1 = k * WeekDays + x =>
                                                      k = (dom + WeekDays - 1) \div WeekDays
      BY <1>1, <2>1, DividedBy
    <3> QED BY <2>2, <2>3, <2>4, <3>1
  <2> QED BY <2>5 DEF WeekOfMonth, dom
<1> HIDE DEF J
<1>5. f \in Bijection(0..J, before)
  <2>1. ASSUME NEW j \in 0..J PROVE f[j] \in before /\ f[j] = n - j * WeekDays
    <3>1. j \in Nat /\ j <= J
      BY <1>3
    <3>2. j * WeekDays <= dom - 1 /\ j * WeekDays \in Nat
      BY <1>1, <1>3, <3>1
    <3> DEFINE d == n - j * WeekDays
    <3>3. d \in n - dom + 1..n /\ d \in Int
      BY <1>1, <3>2
    <3>4. Weekday(d) = Weekday(n)
      BY <3>1, <3>3, WeeksApart
    <3> QED BY <1>2, <3>3, <3>4
  <2>2. ASSUME NEW i \in 0..J, NEW j \in 0..J, f[i] = f[j] PROVE i = j
    <3>1. i * WeekDays \in Int /\ j * WeekDays \in Int /\ i \in Int /\ j \in Int
      BY <1>1, <1>3
    <3>2. n - i * WeekDays = n - j * WeekDays
      BY <2>1, <2>2
    <3>3. i * WeekDays = j * WeekDays
      BY <3>1, <3>2
    <3> QED BY <1>1, <3>1, <3>3, SameMultiple
  <2>3. ASSUME NEW d \in before PROVE \E j \in 0..J : f[j] = d
    <3>1. d \in n - dom + 1..n /\ d \in Int /\ Weekday(d) = Weekday(n)
      BY <1>1, <1>2
    <3>2. PICK j \in Int : d = n - j * WeekDays
      BY <3>1, WeeksApart
    <3>3. j * WeekDays \in Int
      BY <1>1
    <3>4. j * WeekDays <= dom - 1 /\ 0 <= j * WeekDays
      BY <1>1, <3>1, <3>2, <3>3
    <3>5. j <= J
      BY <1>3, <3>4
    <3>6. 0 <= j
      <4>1. 0 * WeekDays = 0 /\ 0 \in Int
        BY <1>1
      <4>2. CASE j + 1 <= 0
        <5>1. (j + 1) * WeekDays <= 0 * WeekDays /\ (j + 1) * WeekDays = j * WeekDays + WeekDays
          BY <1>1, <4>2, MultiplesInOrder
        <5> QED BY <1>1, <3>3, <3>4, <4>1, <5>1
      <4> QED BY <4>2
    <3>7. j \in 0..J
      BY <1>3, <3>5, <3>6
    <3> QED BY <2>1, <3>2, <3>7
  <2>4. f \in [0..J -> before]
    BY <2>1
  <2> HIDE DEF f
  <2>5. f \in Injection(0..J, before)
    BY <2>2, <2>4 DEF Injection, IsInjective
  <2>6. f \in Surjection(0..J, before)
    BY <2>3, <2>4 DEF Surjection
  <2> QED BY <2>5, <2>6 DEF Bijection
<1> HIDE DEF f
<1>6. Cardinality(0..J) = J + 1 /\ IsFiniteSet(0..J) /\ ExistsBijection(0..J, before)
  BY <1>3, <1>5, FS_Interval DEF ExistsBijection
<1>7. Cardinality(before) = J + 1
  BY <1>6, FS_Bijection
<1> QED BY <1>4, <1>7 DEF before

LEMMA MonthlyStarts ==
  ASSUME NEW tp, TimePeriod(tp), tp.type = "monthly", NEW n \in Int, NEW since \in Int
  PROVE  StartsOn(tp, n, since) <=> Occurs(tp, n, since)
<1>1. IsWeek(n, tp.every) <=>
        IF tp.every = LastWeek THEN DayOfMonth(n) + WeekDays > MonthDays
        ELSE WeekOfMonth(n) = tp.every
  BY LastOfItsWeekday, WeekIsCounted DEF IsWeek
<1>2. StartsOn(tp, n, since) <=>
         /\ MonthOf(n) \in tp.months
         /\ IF tp.day > 0 THEN DayOfMonth(n) = tp.day
            ELSE /\ Weekday(n) \in tp.weekdays
                 /\ IF tp.every = LastWeek THEN DayOfMonth(n) + WeekDays > MonthDays
                    ELSE WeekOfMonth(n) = tp.every
  BY DEF StartsOn
<1>3. Occurs(tp, n, since) <=>
         MonthOf(n) \in tp.months /\
         IF tp.day > 0 THEN DayOfMonth(n) = tp.day
         ELSE Weekday(n) \in tp.weekdays /\ IsWeek(n, tp.every)
  BY DEF Occurs
<1> QED BY <1>1, <1>2, <1>3

LEMMA StartsWhenDue ==
  ASSUME NEW tp, TimePeriod(tp), tp.type # "once", NEW n \in Int, NEW since \in Int
  PROVE  StartsOn(tp, n, since) <=> Occurs(tp, n, since)
<1>1. tp.type = "daily" \/ tp.type = "weekly" \/ tp.type = "monthly"
  BY DEF TimePeriod
<1> QED BY <1>1, DailyStarts, WeeklyStarts, MonthlyStarts

-----------------------------------------------------------------------------
(* The seconds of a period's spans, and of all of them.                    *)

LEMMA RecurringSpans ==
  ASSUME NEW tp, TimePeriod(tp), tp.type # "once", NEW since \in Int, NEW lo \in Int, NEW hi \in Int
  PROVE  /\ Recurring(tp, since, lo, hi) \in Intervals
         /\ \A s \in lo..hi - 1 : s \in Seconds(Recurring(tp, since, lo, hi)) <=> InPeriod(tp, s, since)
<1> DEFINE first == FirstDay(lo, tp)
           N == Greater(0, DayOf(hi) - first + 1)
           spans == [k \in 1..N |-> SpanFrom(tp, DayStart(first + k - 1) + tp.start)]
           places == {k \in 1..N : StartsOn(tp, first + k - 1, DayOf(since))}
           kept == KeptEntries(spans, places)
           start(n) == DayStart(n) + tp.start
<1>1. /\ tp.start \in Int /\ tp.period \in Int /\ DayOf(hi) \in Int /\ DayOf(since) \in Int
      /\ \A n \in Int : start(n) \in Int
  <2>1. tp.start \in Int /\ tp.period \in Int
    BY DEF TimePeriod
  <2>2. DayOf(hi) \in Int /\ DayOf(since) \in Int
    BY DayIs
  <2>3. \A n \in Int : DayStart(n) \in Int
    BY DayIs
  <2> QED BY <2>1, <2>2, <2>3
<1>2. first \in Int /\ N \in Nat /\ \A n \in Int : first <= n /\ n <= DayOf(hi) => n - first + 1 \in 1..N
  <2>1. lo - tp.period \in Int
    BY <1>1
  <2>2. first \in Int
    BY <2>1, DayIs DEF FirstDay
  <2> HIDE DEF first
  <2> QED BY <1>1, <2>2 DEF Greater
<1>3. kept = Recurring(tp, since, lo, hi)
  BY DEF Recurring
<1> HIDE DEF first, N
<1>4. spans \in Intervals /\ Len(spans) = N
      /\ \A k \in 1..N : first + k - 1 \in Int
           /\ spans[k][1] = start(first + k - 1) /\ spans[k][2] = start(first + k - 1) + tp.period
  <2>1. ASSUME NEW k \in 1..N
        PROVE  /\ first + k - 1 \in Int
               /\ spans[k] = <<start(first + k - 1), start(first + k - 1) + tp.period>>
               /\ spans[k] \in Int \X Int
    <3>1. first + k - 1 \in Int
      BY <1>2
    <3>2. start(first + k - 1) \in Int
      BY <1>1, <3>1
    <3>3. spans[k] = <<start(first + k - 1), start(first + k - 1) + tp.period>>
      BY DEF SpanFrom
    <3> QED BY <1>1, <3>1, <3>2, <3>3
  <2>2. spans \in Seq(Int \X Int) /\ Len(spans) = N
    BY <1>2, <2>1
  <2> HIDE DEF spans, start
  <2>3. ASSUME NEW k \in 1..N
        PROVE  /\ spans[k][1] = start(first + k - 1)
               /\ spans[k][2] = start(first + k - 1) + tp.period
    <3>1. spans[k] = <<start(first + k - 1), start(first + k - 1) + tp.period>>
      BY <2>1
    <3> QED BY <3>1
  <2>4. spans \in Intervals
    BY <2>2 DEF Intervals
  <2> QED BY <2>1, <2>2, <2>3, <2>4, Zenon
<1>5. places \in SUBSET (1..N)
      /\ \A k \in 1..N : k \in places <=> StartsOn(tp, first + k - 1, DayOf(since))
  OBVIOUS
<1> HIDE DEF spans, places
<1>6. kept \in Intervals /\ \A s : s \in Seconds(kept) <=>
        \E k \in places : s \in Int /\ spans[k][1] <= s /\ s < spans[k][2]
  BY <1>4, <1>5, KeptSeconds
<1> HIDE DEF kept
<1>7. ASSUME NEW n \in Int, NEW s \in Int
      PROVE  Runs(tp, n, s) <=> start(n) <= s /\ s < start(n) + tp.period
  BY <1>1 DEF Runs
<1>8. ASSUME NEW s \in lo..hi - 1, s \in Seconds(kept) PROVE InPeriod(tp, s, since)
  <2>1. PICK k \in places : s \in Int /\ spans[k][1] <= s /\ s < spans[k][2]
    BY <1>6, <1>8
  <2> DEFINE n == first + k - 1
  <2>2. n \in Int /\ StartsOn(tp, n, DayOf(since)) /\ start(n) <= s /\ s < start(n) + tp.period
    BY <1>4, <1>5, <2>1
  <2> HIDE DEF n, start
  <2>3. Occurs(tp, n, DayOf(since)) /\ Runs(tp, n, s)
    BY <1>1, <1>7, <2>1, <2>2, StartsWhenDue
  <2>4. n \in DayOf(s) - DayOf(tp.start + tp.period) - 2..DayOf(s) + 1
    BY <2>2, <2>3, DaysLookedAt
  <2> QED BY <2>3, <2>4 DEF InPeriod, Runs
<1>9. ASSUME NEW s \in lo..hi - 1, InPeriod(tp, s, since) PROVE s \in Seconds(kept)
  <2> DEFINE from == DayOf(s) - DayOf(tp.start + tp.period) - 2
  <2>1. s \in Int /\ from \in Int /\ DayOf(s) \in Int
    <3>1. s \in Int /\ tp.start + tp.period \in Int
      BY <1>1
    <3>2. DayOf(s) \in Int
      BY <3>1, DayIs
    <3>3. DayOf(tp.start + tp.period) \in Int
      BY <3>1, DayIs
    <3> QED BY <3>1, <3>2, <3>3
  <2>2. PICK n \in from..DayOf(s) + 1 : Occurs(tp, n, DayOf(since)) /\ Runs(tp, n, s)
    BY <1>9 DEF InPeriod, Runs
  <2> HIDE DEF from, start
  <2>3. n \in Int
    BY <2>1
  <2>4. StartsOn(tp, n, DayOf(since)) /\ start(n) <= s /\ s < start(n) + tp.period
    BY <1>1, <1>7, <2>1, <2>2, <2>3, StartsWhenDue
  <2>5. first <= n /\ n <= DayOf(hi)
    BY <2>2, <2>3, DaysLookedAt DEF first
  <2> DEFINE k == n - first + 1
  <2>6. k \in 1..N /\ first + k - 1 = n
    BY <1>2, <2>3, <2>5
  <2> HIDE DEF k
  <2>7. k \in places /\ spans[k][1] <= s /\ s < spans[k][2]
    BY <1>4, <1>5, <2>4, <2>6
  <2> QED BY <1>6, <2>1, <2>7
<1> QED BY <1>3, <1>6, <1>8, <1>9

LEMMA OneSpan ==
  ASSUME NEW a \in Int, NEW b \in Int
  PROVE  <<<<a, b>>>> \in Intervals /\ Seconds(<<<<a, b>>>>) = a..b - 1
<1> DEFINE ivs == <<<<a, b>>>>
<1>1. ivs \in Intervals /\ Len(ivs) = 1 /\ ivs[1] = <<a, b>>
  BY DEF Intervals
<1> HIDE DEF ivs
<1>2. \A s : s \in Seconds(ivs) <=> s \in a..b - 1
  BY <1>1, IntervalFacts
<1> QED BY <1>1, <1>2 DEF ivs

LEMMA NoSpans == <<>> \in Intervals /\ Seconds(<<>>) = {}
BY DEF Intervals, Seconds

LEMMA PeriodSpansAre ==
  ASSUME NEW tp, TimePeriod(tp), NEW since \in Int, NEW lo \in Int, NEW hi \in Int
  PROVE  /\ PeriodSpans(tp, since, lo, hi) \in Intervals
         /\ \A s \in lo..hi - 1 : s \in Seconds(PeriodSpans(tp, since, lo, hi)) <=> InPeriod(tp, s, since)
<1>1. tp.start \in Int /\ tp.period \in Int
  BY DEF TimePeriod
<1>2. CASE tp.period <= 0
  <2>1. \A x : ~(x \in 0..tp.period - 1)
    BY <1>1, <1>2
  <2>2. \A s : ~InPeriod(tp, s, since)
    BY <2>1 DEF InPeriod
  <2> QED BY <1>2, <2>2, NoSpans DEF PeriodSpans
<1>3. CASE tp.period > 0 /\ tp.type = "once"
  <2>1. PeriodSpans(tp, since, lo, hi) = <<<<tp.start, tp.start + tp.period>>>>
    BY <1>1, <1>3 DEF PeriodSpans, SpanFrom
  <2>2. /\ PeriodSpans(tp, since, lo, hi) \in Intervals
        /\ Seconds(PeriodSpans(tp, since, lo, hi)) = tp.start..tp.start + tp.period - 1
    BY <1>1, <2>1, OneSpan
  <2>3. \A s \in lo..hi - 1 : InPeriod(tp, s, since) <=> s - tp.start \in 0..tp.period - 1
    BY <1>3 DEF InPeriod
  <2>4. \A s \in lo..hi - 1 : s - tp.start \in 0..tp.period - 1 <=> s \in tp.start..tp.start + tp.period - 1
    BY <1>1
  <2> QED BY <2>2, <2>3, <2>4
<1>4. CASE tp.period > 0 /\ tp.type # "once"
  <2>1. PeriodSpans(tp, since, lo, hi) = Recurring(tp, since, lo, hi)
    BY <1>1, <1>4 DEF PeriodSpans
  <2> QED BY <1>4, <2>1, RecurringSpans
<1> QED BY <1>1, <1>2, <1>3, <1>4

LEMMA SecondsOfBoth ==
  ASSUME NEW a, a \in Intervals, NEW b, b \in Intervals
  PROVE  a \o b \in Intervals /\ Seconds(a \o b) = Seconds(a) \cup Seconds(b)
<1> DEFINE both == a \o b
<1>1. /\ both \in Intervals /\ Len(both) = Len(a) + Len(b) /\ Len(a) \in Nat /\ Len(b) \in Nat
      /\ \A n \in 1..Len(a) : both[n] = a[n]
      /\ \A n \in 1..Len(b) : both[Len(a) + n] = b[n]
  <2>1. a \in Seq(Int \X Int) /\ b \in Seq(Int \X Int)
    BY DEF Intervals
  <2>2. both \in Intervals
    BY <2>1 DEF Intervals
  <2> QED BY <2>1, <2>2
<1> HIDE DEF both
<1>2. ASSUME NEW s PROVE s \in Seconds(both) <=> s \in Seconds(a) \/ s \in Seconds(b)
  <2> DEFINE Holds(iv) == s \in Int /\ iv[1] <= s /\ s < iv[2]
  <2>1. /\ s \in Seconds(both) <=> \E n \in 1..Len(both) : Holds(both[n])
        /\ s \in Seconds(a) <=> \E n \in 1..Len(a) : Holds(a[n])
        /\ s \in Seconds(b) <=> \E n \in 1..Len(b) : Holds(b[n])
    BY <1>1, IntervalFacts
  <2> HIDE DEF Holds
  <2>2. ASSUME NEW n \in 1..Len(both), Holds(both[n]) PROVE s \in Seconds(a) \/ s \in Seconds(b)
    <3>1. CASE n <= Len(a)
      BY <1>1, <2>1, <2>2, <3>1
    <3>2. CASE n > Len(a)
      <4>1. n - Len(a) \in 1..Len(b) /\ Len(a) + (n - Len(a)) = n
        BY <1>1, <3>2
      <4>2. both[n] = b[n - Len(a)]
        BY <1>1, <4>1
      <4> QED BY <2>1, <2>2, <4>1, <4>2
    <3> QED BY <1>1, <3>1, <3>2
  <2>3. ASSUME NEW n \in 1..Len(a), Holds(a[n]) PROVE s \in Seconds(both)
    <3>1. n \in 1..Len(both) /\ both[n] = a[n]
      BY <1>1
    <3> QED BY <2>1, <2>3, <3>1
  <2>4. ASSUME NEW n \in 1..Len(b), Holds(b[n]) PROVE s \in Seconds(both)
    <3>1. Len(a) + n \in 1..Len(both) /\ both[Len(a) + n] = b[n]
      BY <1>1
    <3> QED BY <2>1, <2>4, <3>1
  <2> QED BY <2>1, <2>2, <2>3, <2>4
<1> QED BY <1>1, <1>2 DEF both

LEMMA SecondsOfAll ==
  ASSUME NEW lists, lists \in Seq(Intervals)
  PROVE  /\ FlattenSeq(lists) \in Intervals
         /\ \A s : s \in Seconds(FlattenSeq(lists)) <=> \E k \in 1..Len(lists) : s \in Seconds(lists[k])
<1> DEFINE N == Len(lists)
<1>1. N \in Nat /\ \A k \in 1..N : lists[k] \in Intervals
  OBVIOUS
<1>2. PICK run : /\ run[0] = <<>>
                 /\ \A n \in 0..N : run[n] \in Intervals
                 /\ \A n \in 1..N : run[n] = run[n - 1] \o lists[n]
                 /\ FlattenSeq(lists) = run[N]
  <2>1. lists \in Seq(Seq(Int \X Int))
    BY DEF Intervals
  <2> QED BY <2>1, FlattenRuns DEF Intervals
<1> HIDE DEF N
<1> DEFINE held(n) == UNION {Seconds(lists[k]) : k \in 1..n}
           Fine == {n \in 0..N : Seconds(run[n]) = held(n)}
<1>3. \A n \in 0..N : n \in Fine
  <2>1. 0 \in Fine
    <3>1. Seconds(run[0]) = {} /\ held(0) = {}
      BY <1>2, NoSpans
    <3> QED BY <1>1, <3>1
  <2>2. ASSUME NEW n \in 1..N, n - 1 \in Fine PROVE n \in Fine
    <3>1. n \in 0..N /\ n - 1 \in 0..N /\ Seconds(run[n - 1]) = held(n - 1)
      BY <1>1, <2>2
    <3>2. Seconds(run[n]) = Seconds(run[n - 1]) \cup Seconds(lists[n])
      <4>1. run[n - 1] \in Intervals /\ lists[n] \in Intervals /\ run[n] = run[n - 1] \o lists[n]
        BY <1>1, <1>2, <3>1
      <4> QED BY <4>1, SecondsOfBoth
    <3>3. held(n) = held(n - 1) \cup Seconds(lists[n])
      <4>1. \A k : k \in 1..n <=> k \in 1..(n - 1) \/ k = n
        BY <1>1
      <4> QED BY <4>1
    <3> HIDE DEF held
    <3> QED BY <3>1, <3>2, <3>3
  <2> HIDE DEF Fine
  <2> QED BY <1>1, <2>1, <2>2, Onwards
<1>4. Seconds(FlattenSeq(lists)) = held(N) /\ FlattenSeq(lists) \in Intervals
  BY <1>1, <1>2, <1>3
<1> QED BY <1>4 DEF N

-----------------------------------------------------------------------------
(* maintenanceWindows.                                                     *)

MaintenanceAsked ==
  /\ maintenance.since \in Int /\ maintenance.till \in Int
  /\ maintenance.from \in Int /\ maintenance.to \in Int
  /\ Len(maintenance.periods) \in Nat
  /\ \A k \in 1..Len(maintenance.periods) : TimePeriod(maintenance.periods[k])

MaintenanceInv ==
  /\ MaintenanceAsked
  /\ windowsFound # Unknown =>
       windowsFound = WindowsOf(maintenance, maintenance.from, maintenance.to)

LEMMA WindowsAreExact ==
  MaintenanceInv => WindowsExact
<1> SUFFICES ASSUME MaintenanceInv, windowsFound # Unknown PROVE WindowsExact
  BY DEF WindowsExact
<1> DEFINE m == maintenance
           lo == Greater(m.from, m.since)
           hi == Lesser(m.to, m.till)
           N == Len(m.periods)
           spans == [k \in 1..N |-> PeriodSpans(m.periods[k], m.since, lo, hi)]
           all == FlattenSeq(spans)
           found == windowsFound
           InOne(s) == \E k \in 1..N : InPeriod(m.periods[k], s, m.since)
<1>1. /\ m.since \in Int /\ m.till \in Int /\ m.from \in Int /\ m.to \in Int
      /\ N \in Nat /\ \A k \in 1..N : TimePeriod(m.periods[k])
  BY DEF MaintenanceInv, MaintenanceAsked
<1>2. found = IF hi <= lo THEN <<>> ELSE Merged(Clipped(all, lo, hi))
  BY DEF MaintenanceInv, WindowsOf
<1>3. /\ lo \in Int /\ hi \in Int
      /\ \A s : s \in lo..hi - 1 <=> s \in m.from..m.to - 1 /\ s \in m.since..m.till - 1
  BY <1>1 DEF Greater, Lesser
<1>4. WindowsExact <=>
        /\ Seconds(found) = {s \in m.from..m.to - 1 : s \in m.since..m.till - 1 /\ InOne(s)}
        /\ \A k \in 1..Len(found) - 1 : found[k][2] < found[k + 1][1]
  BY DEF WindowsExact
<1> HIDE DEF lo, hi, m, found
<1>5. CASE hi <= lo
  <2>1. found = <<>> /\ \A s : ~(s \in lo..hi - 1)
    BY <1>2, <1>3, <1>5
  <2>2. Seconds(found) = {} /\ Len(found) = 0
    BY <2>1, NoSpans
  <2> HIDE DEF InOne
  <2> QED BY <1>3, <1>4, <2>1, <2>2
<1>6. CASE ~(hi <= lo)
  <2>1. spans \in Seq(Intervals) /\ Len(spans) = N
        /\ \A k \in 1..N : \A s \in lo..hi - 1 :
             s \in Seconds(spans[k]) <=> InPeriod(m.periods[k], s, m.since)
    <3>1. ASSUME NEW k \in 1..N
          PROVE  /\ spans[k] \in Intervals
                 /\ \A s \in lo..hi - 1 : s \in Seconds(spans[k]) <=> InPeriod(m.periods[k], s, m.since)
      <4>1. TimePeriod(m.periods[k]) /\ spans[k] = PeriodSpans(m.periods[k], m.since, lo, hi)
        BY <1>1
      <4> HIDE DEF spans
      <4>2. /\ PeriodSpans(m.periods[k], m.since, lo, hi) \in Intervals
            /\ \A s \in lo..hi - 1 : s \in Seconds(PeriodSpans(m.periods[k], m.since, lo, hi)) <=>
                                     InPeriod(m.periods[k], s, m.since)
        BY <1>1, <1>3, <4>1, PeriodSpansAre
      <4> QED BY <4>1, <4>2
    <3>2. spans \in Seq(Intervals) /\ Len(spans) = N
      <4>1. \A k \in 1..N : spans[k] \in Intervals
        BY <3>1
      <4> HIDE DEF N
      <4> QED BY <1>1, <4>1
    <3> HIDE DEF spans, N
    <3> QED BY <3>1, <3>2
  <2> HIDE DEF spans, N
  <2>2. all \in Intervals /\ \A s : s \in Seconds(all) <=> \E k \in 1..N : s \in Seconds(spans[k])
    BY <2>1, SecondsOfAll
  <2> HIDE DEF all
  <2>3. /\ Clipped(all, lo, hi) \in Intervals
        /\ Seconds(Clipped(all, lo, hi)) = Seconds(all) \cap (lo..hi - 1)
    BY <1>3, <2>2, ClippedToWindow
  <2>4. Apart(found) /\ Seconds(found) = Seconds(all) \cap (lo..hi - 1)
    <3>1. found = Merged(Clipped(all, lo, hi))
      BY <1>2, <1>6
    <3> QED BY <2>3, <3>1, MergedStayApart
  <2>5. \A s \in lo..hi - 1 : s \in Seconds(all) <=> InOne(s)
    BY <2>1, <2>2
  <2> HIDE DEF InOne
  <2>6. Seconds(found) = {s \in m.from..m.to - 1 : s \in m.since..m.till - 1 /\ InOne(s)}
    BY <1>3, <2>4, <2>5
  <2>7. ASSUME NEW k \in 1..Len(found) - 1 PROVE found[k][2] < found[k + 1][1]
    <3>1. k \in 1..Len(found) /\ k + 1 \in 1..Len(found) /\ k < k + 1
      BY <2>4, IntervalFacts DEF Apart
    <3> QED BY <2>4, <3>1 DEF Apart
  <2> QED BY <1>4, <2>6, <2>7
<1> QED BY <1>5, <1>6

LEMMA MaintenanceInitial == MaintenanceInit => MaintenanceInv
<1> SUFFICES ASSUME MaintenanceInit PROVE MaintenanceInv
  OBVIOUS
<1>1. PICK a \in Periods, b \in Periods, bounds \in Bounds, range \in Ranges :
        maintenance = [periods |-> <<a, b>>, since |-> bounds[1], till |-> bounds[2],
                       from |-> range[1], to |-> range[2]]
  BY DEF MaintenanceInit
<1>2. TimePeriod(a) /\ TimePeriod(b) /\ bounds \in Int \X Int /\ range \in Int \X Int
  BY MaintenanceAssumption
<1>3. /\ maintenance.since \in Int /\ maintenance.till \in Int
      /\ maintenance.from \in Int /\ maintenance.to \in Int
  BY <1>1, <1>2
<1>4. maintenance.periods = <<a, b>>
  BY <1>1
<1>5. Len(maintenance.periods) = 2 /\ maintenance.periods[1] = a /\ maintenance.periods[2] = b
  BY <1>4
<1>6. \A k \in 1..2 : k = 1 \/ k = 2
  OBVIOUS
<1>7. MaintenanceAsked
  BY <1>2, <1>3, <1>5, <1>6 DEF MaintenanceAsked
<1> QED BY <1>7 DEF MaintenanceInv, MaintenanceInit

LEMMA MaintenanceStep == MaintenanceInv /\ [FindWindows]_maintenanceVars => MaintenanceInv'
<1> SUFFICES ASSUME MaintenanceInv, [FindWindows]_maintenanceVars PROVE MaintenanceInv'
  OBVIOUS
<1>1. /\ maintenance' = maintenance
      /\ windowsFound' = windowsFound \/ windowsFound' = WindowsOf(maintenance, maintenance.from, maintenance.to)
  BY DEF FindWindows, maintenanceVars
<1>2. MaintenanceAsked'
  BY <1>1 DEF MaintenanceInv, MaintenanceAsked
<1>3. WindowsOf(maintenance, maintenance.from, maintenance.to)' = WindowsOf(maintenance, maintenance.from, maintenance.to)
  BY <1>1
<1> QED BY <1>1, <1>2, <1>3 DEF MaintenanceInv, Unknown

\* maintenanceWindows: planned downtime is taken out of the measurement for the
\* seconds one of the periods runs, and for no others.
THEOREM WindowsStayExact == MaintenanceSpec => []WindowsExact
<1> QED BY WindowsAreExact, MaintenanceInitial, MaintenanceStep, PTL DEF MaintenanceSpec

-----------------------------------------------------------------------------
(* Zabbix's outages, and how they go on while the reads run.               *)

World ==
  /\ outages \in [Trigger -> Seq(Nat \X (Nat \cup {StillOpen}) \X BOOLEAN)]
  /\ \A t \in Trigger : OutageList(outages[t])
  /\ severe \subseteq Trigger /\ till \in {CutAt, ReportTime}

Moved(id, was, is) == is = was \/ (was = StillOpen /\ is = ReportTime)

\* What is there stays, but that the open may be resolved now; what comes is new.
GoesOn ==
  /\ UNCHANGED <<hostOf, severe, till>>
  /\ \A id \in Ids :
       /\ id \in Ids' /\ Outage(id)'[1] = Outage(id)[1] /\ Outage(id)'[3] = Outage(id)[3]
       /\ Moved(id, Outage(id)[2], Outage(id)'[2])
  /\ \A id \in Ids' \ Ids :
       Outage(id)'[1] = ReportTime /\ Outage(id)'[2] = StillOpen

-----------------------------------------------------------------------------
(* What the answers that have come say of it, now.                         *)

Faithful(events) ==
  \A e \in events :
    /\ e.id \in Severe /\ e.clock = Outage(e.id)[1] /\ e.resolved \in BOOLEAN
    /\ e.resolved => Outage(e.id)[2] # StillOpen
    /\ ~e.resolved => Outage(e.id)[2] \in {StillOpen, ReportTime}

Covers(events, ids) == \A id \in ids : \E e \in events : e.id = id

BeganIn(lo, hi) ==
  {id \in Severe : Outage(id)[1] \in lo..hi /\ Outage(id)[1] < ReportTime}

WereOpen(ids) ==
  /\ \A id \in ids : id \in Severe /\ Outage(id)[2] \in {StillOpen, ReportTime}
  /\ \A id \in Severe : Outage(id)[1] < LookFrom /\ Outage(id)[2] = StillOpen => id \in ids

Recovered(recoveries) ==
  /\ \A r \in recoveries :
       /\ r.id \in Ids /\ HasRecovery(r.id) /\ r.clock = Outage(r.id)[2] /\ r.clock \in WindowStart..till
       /\ r = [id |-> r.id, clock |-> r.clock]
  /\ \A id \in Ids :
       HasRecovery(id) /\ Outage(id)[2] \in WindowStart..till /\ Outage(id)[2] < ReportTime =>
         \E r \in recoveries : r.id = id

WindowTold ==
  reads["inWindow"] # NotYetRead =>
    Faithful(Answer("inWindow")) /\ Covers(Answer("inWindow"), BeganIn(WindowStart, till))
BeforeTold ==
  reads["before"] # NotYetRead =>
    Faithful(Answer("before")) /\ Covers(Answer("before"), BeganIn(LookFrom, WindowStart - 1))
OpenTold == reads["openIds"] # NotYetRead => WereOpen(Answer("openIds"))
OlderTold ==
  reads["older"] # NotYetRead =>
    /\ reads["openIds"] # NotYetRead
    /\ Faithful(Answer("older")) /\ Covers(Answer("older"), Answer("openIds"))
RecoveriesTold == reads["recoveries"] # NotYetRead => Recovered(Answer("recoveries"))

AnswersHold ==
  /\ reads = [name \in ReadNames |-> reads[name]]
  /\ WindowTold /\ BeforeTold /\ OpenTold /\ OlderTold /\ RecoveriesTold

IncidentInv ==
  /\ World /\ AnswersHold
  /\ report # NoReport => \A name \in ReadNames : reads[name] # NotYetRead
  /\ ReportsExact

-----------------------------------------------------------------------------
LEMMA TimesAre ==
  /\ LookFrom \in Nat /\ WindowStart \in Nat /\ CutAt \in Nat /\ ReportTime \in Nat
  /\ LookFrom <= WindowStart /\ WindowStart < CutAt /\ CutAt < ReportTime
  /\ Lookups \in Nat /\ Chronic \in Nat /\ StillOpen \notin Nat
BY IncidentAssumption DEF LookFrom, StillOpen

LEMMA OutageIs ==
  ASSUME World, NEW id
  PROVE  id \in Ids <=> \E t \in Trigger, n \in Nat : id = <<t, n>> /\ n \in 1..Len(outages[t])
<1>1. id \in Ids <=> \E t \in Trigger : \E n \in 1..Len(outages[t]) : id = <<t, n>>
  BY DEF Ids
<1>2. \A t \in Trigger : Len(outages[t]) \in Nat
  BY DEF World
<1> QED BY <1>1, <1>2

LEMMA OutageFacts ==
  ASSUME World, NEW id \in Ids
  PROVE  /\ id[1] \in Trigger /\ id[2] \in 1..Len(outages[id[1]]) /\ id = <<id[1], id[2]>>
         /\ Outage(id)[1] \in Nat /\ Outage(id)[1] <= ReportTime
         /\ Outage(id)[2] \in Nat \cup {StillOpen} /\ Outage(id)[3] \in BOOLEAN
         /\ Outage(id)[2] = StillOpen => id[2] = Len(outages[id[1]]) /\ ~Outage(id)[3]
         /\ Outage(id)[2] # StillOpen =>
              Outage(id)[2] \in Nat /\ Outage(id)[1] <= Outage(id)[2] /\ Outage(id)[2] <= ReportTime
<1>1. PICK t \in Trigger, n \in Nat : id = <<t, n>> /\ n \in 1..Len(outages[t])
  BY OutageIs
<1>2. id[1] = t /\ id[2] = n
  BY <1>1
<1>3. outages[t] \in Seq(Nat \X (Nat \cup {StillOpen}) \X BOOLEAN) /\ OutageList(outages[t])
  BY DEF World
<1> DEFINE o == outages[t][n]
<1>4. o \in Nat \X (Nat \cup {StillOpen}) \X BOOLEAN
  BY <1>1, <1>3
<1>5. o[1] \in Nat /\ o[2] \in Nat \cup {StillOpen} /\ o[3] \in BOOLEAN
  BY <1>4
<1>6. /\ o[1] <= ReportTime
      /\ o[2] = StillOpen => n = Len(outages[t]) /\ ~o[3]
      /\ o[2] # StillOpen => o[1] <= o[2] /\ o[2] <= ReportTime
  BY <1>1, <1>3 DEF OutageList
<1>7. Outage(id) = o
  BY <1>2 DEF Outage
<1> HIDE DEF o
<1> QED BY <1>1, <1>2, <1>5, <1>6, <1>7

\* The outages of a trigger follow each other.
LEMMA InTheirOrder ==
  ASSUME World, NEW i \in Ids, NEW j \in Ids, i[1] = j[1], i[2] < j[2]
  PROVE  Outage(i)[2] \in Nat /\ Outage(i)[2] <= Outage(j)[1]
<1>1. /\ i[1] \in Trigger /\ i[2] \in 1..Len(outages[i[1]]) /\ Len(outages[i[1]]) \in Nat
      /\ j[2] \in 1..Len(outages[i[1]]) /\ Outage(i)[2] \in Nat \cup {StillOpen}
  BY OutageFacts DEF World
<1>2. OutageList(outages[i[1]])
  BY <1>1 DEF World
<1>3. i[2] \in 1..j[2] - 1 /\ i[2] # Len(outages[i[1]])
  BY <1>1
<1>4. Outage(i) = outages[i[1]][i[2]] /\ Outage(j) = outages[i[1]][j[2]]
  BY DEF Outage
<1>5. outages[i[1]][i[2]][2] <= outages[i[1]][j[2]][1]
  BY <1>1, <1>2, <1>3 DEF OutageList
<1>6. Outage(i)[2] # StillOpen
  BY <1>3, OutageFacts
<1> QED BY <1>1, <1>4, <1>5, <1>6

LEMMA RaiseGoesOn ==
  ASSUME World, NEW t \in Trigger, Raise(t)
  PROVE  World' /\ GoesOn /\ UNCHANGED <<reads, report>>
<1> DEFINE old == outages[t]
           N == Len(old)
           new == Append(old, <<ReportTime, StillOpen, FALSE>>)
<1>1. /\ outages' = [outages EXCEPT ![t] = new] /\ Clear(t)
      /\ UNCHANGED <<hostOf, severe, till, reads, report>>
  BY DEF Raise
<1>2. /\ old \in Seq(Nat \X (Nat \cup {StillOpen}) \X BOOLEAN) /\ OutageList(old) /\ N \in Nat
      /\ outages \in [Trigger -> Seq(Nat \X (Nat \cup {StillOpen}) \X BOOLEAN)]
  BY DEF World
<1>3. <<ReportTime, StillOpen, FALSE>> \in Nat \X (Nat \cup {StillOpen}) \X BOOLEAN
  BY TimesAre
<1>4. /\ new \in Seq(Nat \X (Nat \cup {StillOpen}) \X BOOLEAN) /\ Len(new) = N + 1
      /\ \A n \in 1..N : new[n] = old[n]
      /\ new[N + 1] = <<ReportTime, StillOpen, FALSE>>
  <2> DEFINE S == Nat \X (Nat \cup {StillOpen}) \X BOOLEAN
             one == <<ReportTime, StillOpen, FALSE>>
  <2>1. old \in Seq(S) /\ one \in S /\ N = Len(old) /\ N \in Nat
    BY <1>2, <1>3
  <2> HIDE DEF S, one, old, N
  <2>2. /\ Append(old, one) \in Seq(S) /\ Len(Append(old, one)) = Len(old) + 1
        /\ \A n \in 1..Len(old) : Append(old, one)[n] = old[n]
        /\ Append(old, one)[Len(old) + 1] = one
    BY <2>1, AppendProperties
  <2> QED BY <2>1, <2>2 DEF S, one, old
<1>5. \A n \in 1..N : old[n][2] \in Nat /\ old[n][2] <= ReportTime
  <2>1. ASSUME N # 0 PROVE old[N][2] # StillOpen
    <3>1. old # <<>> /\ Last(old) = old[N]
      BY <1>2, <2>1 DEF Last
    <3> QED BY <1>1, <3>1 DEF Clear
  <2>2. ASSUME NEW n \in 1..N PROVE old[n][2] \in Nat /\ old[n][2] <= ReportTime
    <3>1. old[n] \in Nat \X (Nat \cup {StillOpen}) \X BOOLEAN
      BY <1>2
    <3>2. old[n][2] \in Nat \cup {StillOpen} /\ N # 0
      BY <1>2, <3>1
    <3>3. old[n][2] # StillOpen
      BY <1>2, <2>1, <3>2 DEF OutageList
    <3> QED BY <1>2, <3>2, <3>3 DEF OutageList
  <2> QED BY <2>2
<1>6. outages'[t] = new /\ \A u \in Trigger : u # t => outages'[u] = outages[u]
  BY <1>1, <1>2
<1> HIDE DEF new
<1>7. OutageList(new)
  <2>1. ASSUME NEW n \in 1..Len(new)
        PROVE  /\ new[n][1] <= ReportTime
               /\ new[n][2] = StillOpen => n = Len(new) /\ ~new[n][3]
               /\ new[n][2] # StillOpen => new[n][1] <= new[n][2] /\ new[n][2] <= ReportTime
               /\ \A m \in 1..n - 1 : new[m][2] <= new[n][1]
    <3>1. CASE n = N + 1
      <4>1. new[n][1] = ReportTime /\ new[n][2] = StillOpen /\ ~new[n][3]
        <5>1. new[n] = <<ReportTime, StillOpen, FALSE>>
          BY <1>4, <3>1
        <5>2. <<ReportTime, StillOpen, FALSE>>[1] = ReportTime /\ <<ReportTime, StillOpen, FALSE>>[2] = StillOpen
              /\ ~(<<ReportTime, StillOpen, FALSE>>[3])
          OBVIOUS
        <5> QED BY <5>1, <5>2, Zenon
      <4>2. \A m \in 1..n - 1 : m \in 1..N
        BY <1>2, <3>1
      <4>3. \A m \in 1..n - 1 : new[m][2] <= ReportTime
        BY <1>4, <1>5, <4>2
      <4> QED BY <1>4, <3>1, <4>1, <4>3, TimesAre
    <3>2. CASE n # N + 1
      <4>1. n \in 1..N /\ \A m \in 1..n - 1 : m \in 1..N
        BY <1>2, <1>4, <3>2
      <4>2. new[n] = old[n] /\ \A m \in 1..n - 1 : new[m] = old[m]
        BY <1>4, <4>1
      <4>3. new[n][2] # StillOpen
        BY <1>5, <4>1, <4>2, TimesAre
      <4>4. /\ old[n][1] <= ReportTime
            /\ old[n][2] # StillOpen => old[n][1] <= old[n][2] /\ old[n][2] <= ReportTime
            /\ \A m \in 1..n - 1 : old[m][2] <= old[n][1]
        BY <1>2, <4>1 DEF OutageList
      <4> QED BY <4>2, <4>3, <4>4
    <3> QED BY <3>1, <3>2
  <2> QED BY <1>4, <2>1 DEF OutageList
<1>8. World'
  <2>1. outages' \in [Trigger -> Seq(Nat \X (Nat \cup {StillOpen}) \X BOOLEAN)]
    BY <1>1, <1>2, <1>4, <1>6
  <2>2. \A u \in Trigger : OutageList(outages'[u])
    BY <1>6, <1>7 DEF World
  <2>3. severe' \subseteq Trigger /\ till' \in {CutAt, ReportTime}
    BY <1>1 DEF World
  <2> QED BY <2>1, <2>2, <2>3 DEF World, OutageList
<1>9. ASSUME NEW id \in Ids
      PROVE  /\ id \in Ids' /\ Outage(id)'[1] = Outage(id)[1] /\ Outage(id)'[3] = Outage(id)[3]
             /\ Moved(id, Outage(id)[2], Outage(id)'[2])
  <2>1. id[1] \in Trigger /\ id[2] \in 1..Len(outages[id[1]]) /\ id = <<id[1], id[2]>>
        /\ Len(outages[id[1]]) \in Nat
    BY OutageFacts DEF World
  <2>2. outages'[id[1]][id[2]] = outages[id[1]][id[2]] /\ id[2] \in 1..Len(outages'[id[1]])
    <3>1. CASE id[1] = t
      <4>1. outages'[id[1]] = new /\ outages[id[1]] = old
        BY <1>6, <3>1
      <4>2. id[2] \in 1..N /\ id[2] \in 1..N + 1
        BY <1>2, <2>1, <3>1
      <4> QED BY <1>4, <4>1, <4>2
    <3>2. CASE id[1] # t
      <4>1. outages'[id[1]] = outages[id[1]]
        BY <1>6, <2>1, <3>2
      <4> QED BY <2>1, <4>1, Zenon
    <3> QED BY <3>1, <3>2
  <2>3. id \in Ids'
    BY <2>1, <2>2 DEF Ids
  <2> QED BY <2>2, <2>3 DEF Outage, Moved
<1>10. ASSUME NEW id \in Ids' \ Ids
       PROVE  Outage(id)'[1] = ReportTime /\ Outage(id)'[2] = StillOpen
  <2>1. PICK u \in Trigger : \E n \in 1..Len(outages'[u]) : id = <<u, n>>
    BY <1>10 DEF Ids
  <2>2. PICK n \in 1..Len(outages'[u]) : id = <<u, n>>
    BY <2>1
  <2>3. ~(n \in 1..Len(outages[u]))
    BY <1>10, <2>2 DEF Ids
  <2>4. u = t /\ n = N + 1
    BY <1>2, <1>4, <1>6, <2>2, <2>3
  <2>5. Outage(id)' = new[N + 1]
    BY <1>6, <2>2, <2>4 DEF Outage
  <2> QED BY <1>4, <2>5
<1> QED BY <1>1, <1>8, <1>9, <1>10 DEF GoesOn

LEMMA ResolveGoesOn ==
  ASSUME World, NEW t \in Trigger, Resolve(t)
  PROVE  World' /\ GoesOn /\ UNCHANGED <<reads, report>>
<1> DEFINE old == outages[t]
           N == Len(old)
           new == [old EXCEPT ![N] = [@ EXCEPT ![2] = ReportTime]]
<1>1. /\ outages' = [outages EXCEPT ![t][Len(outages[t])][2] = ReportTime]
      /\ old # <<>> /\ Last(old)[2] = StillOpen /\ Last(old)[1] < ReportTime
      /\ UNCHANGED <<hostOf, severe, till, reads, report>>
  BY DEF Resolve
<1>2. /\ old \in Seq(Nat \X (Nat \cup {StillOpen}) \X BOOLEAN) /\ OutageList(old) /\ N \in Nat
      /\ outages \in [Trigger -> Seq(Nat \X (Nat \cup {StillOpen}) \X BOOLEAN)]
      /\ N \in 1..N /\ Last(old) = old[N]
  BY <1>1 DEF World, Last
<1>3. old[N] \in Nat \X (Nat \cup {StillOpen}) \X BOOLEAN
  BY <1>2
<1>4. \A n \in 1..N : new[n] = IF n = N THEN [old[N] EXCEPT ![2] = ReportTime] ELSE old[n]
  BY <1>2
<1>5. [old[N] EXCEPT ![2] = ReportTime] = <<old[N][1], ReportTime, old[N][3]>>
  BY <1>3
<1>6. new \in Seq(Nat \X (Nat \cup {StillOpen}) \X BOOLEAN) /\ Len(new) = N
  <2>1. <<old[N][1], ReportTime, old[N][3]>> \in Nat \X (Nat \cup {StillOpen}) \X BOOLEAN
    BY <1>3, TimesAre
  <2>2. [old EXCEPT ![N] = <<old[N][1], ReportTime, old[N][3]>>] \in Seq(Nat \X (Nat \cup {StillOpen}) \X BOOLEAN)
        /\ Len([old EXCEPT ![N] = <<old[N][1], ReportTime, old[N][3]>>]) = N
    BY <1>2, <2>1
  <2>3. new = [old EXCEPT ![N] = <<old[N][1], ReportTime, old[N][3]>>]
    BY <1>5
  <2> QED BY <2>2, <2>3
<1>7. outages' = [outages EXCEPT ![t] = new]
  BY <1>1
<1>8. outages'[t] = new /\ \A u \in Trigger : u # t => outages'[u] = outages[u]
  BY <1>2, <1>7
<1>9. new[N] = <<old[N][1], ReportTime, old[N][3]>> /\ \A n \in 1..N : n # N => new[n] = old[n]
  BY <1>2, <1>4, <1>5
<1> HIDE DEF new
<1>10. /\ new[N][1] = old[N][1] /\ new[N][2] = ReportTime /\ new[N][3] = old[N][3]
       /\ old[N][2] = StillOpen /\ old[N][1] < ReportTime /\ old[N][1] \in Nat
  BY <1>1, <1>2, <1>3, <1>9
<1>11. OutageList(new)
  <2>1. ASSUME NEW n \in 1..Len(new)
        PROVE  /\ new[n][1] <= ReportTime
               /\ new[n][2] = StillOpen => n = Len(new) /\ ~new[n][3]
               /\ new[n][2] # StillOpen => new[n][1] <= new[n][2] /\ new[n][2] <= ReportTime
               /\ \A m \in 1..n - 1 : new[m][2] <= new[n][1]
    <3>1. /\ old[n][1] <= ReportTime
          /\ old[n][2] = StillOpen => n = N /\ ~old[n][3]
          /\ old[n][2] # StillOpen => old[n][1] <= old[n][2] /\ old[n][2] <= ReportTime
          /\ \A m \in 1..n - 1 : old[m][2] <= old[n][1]
      BY <1>2, <1>6 DEF OutageList
    <3>2. \A m \in 1..n - 1 : m \in 1..N /\ m # N
      BY <1>2, <1>6
    <3>3. \A m \in 1..n - 1 : new[m] = old[m]
      BY <1>9, <3>2
    <3>4. new[n][1] = old[n][1]
      BY <1>6, <1>9, <1>10
    <3>5. CASE n = N
      <4>1. new[n][1] = old[N][1] /\ new[n][2] = ReportTime
        BY <1>10, <3>5
      <4>2. old[N][1] \in Nat /\ ReportTime \in Nat /\ old[N][1] < ReportTime /\ ReportTime # StillOpen
        BY <1>10, TimesAre
      <4>3. \A m \in 1..n - 1 : new[m][2] <= new[n][1]
        BY <3>1, <3>3, <3>4, Zenon
      <4> QED BY <4>1, <4>2, <4>3
    <3>6. CASE n # N
      BY <1>6, <1>9, <3>1, <3>3, <3>6
    <3> QED BY <3>5, <3>6
  <2> QED BY <1>6, <2>1 DEF OutageList
<1>12. World'
  <2>1. outages' \in [Trigger -> Seq(Nat \X (Nat \cup {StillOpen}) \X BOOLEAN)]
    BY <1>2, <1>6, <1>7
  <2>2. \A u \in Trigger : OutageList(outages'[u])
    BY <1>8, <1>11 DEF World
  <2>3. severe' \subseteq Trigger /\ till' \in {CutAt, ReportTime}
    BY <1>1 DEF World
  <2> QED BY <2>1, <2>2, <2>3 DEF World, OutageList
<1>13. \A u \in Trigger : Len(outages'[u]) = Len(outages[u])
  BY <1>6, <1>8
<1>14. Ids' = Ids
  BY <1>13 DEF Ids
<1>15. ASSUME NEW id \in Ids
       PROVE  /\ Outage(id)'[1] = Outage(id)[1] /\ Outage(id)'[3] = Outage(id)[3]
              /\ Moved(id, Outage(id)[2], Outage(id)'[2])
  <2>1. id[1] \in Trigger /\ id[2] \in 1..Len(outages[id[1]])
    BY OutageFacts
  <2>2. CASE id[1] = t /\ id[2] = N
    <3>1. Outage(id)' = new[N] /\ Outage(id) = old[N]
      BY <1>8, <2>2 DEF Outage
    <3> QED BY <1>10, <3>1 DEF Moved
  <2>3. CASE ~(id[1] = t /\ id[2] = N)
    <3>1. Outage(id)' = Outage(id)
      BY <1>8, <1>9, <2>1, <2>3 DEF Outage
    <3> QED BY <3>1 DEF Moved
  <2> QED BY <2>2, <2>3
<1> QED BY <1>1, <1>12, <1>14, <1>15 DEF GoesOn

-----------------------------------------------------------------------------
(* What an answer says stays so.                                           *)

LEMMA SevereGoesOn ==
  ASSUME World, GoesOn
  PROVE  /\ \A id \in Severe : id \in Severe'
         /\ \A id \in Severe' : id \in Severe \/ Outage(id)'[1] = ReportTime
<1>1. \A id \in Severe : id \in Severe'
  BY DEF Severe, GoesOn
<1>2. \A id \in Severe' : id \in Severe \/ Outage(id)'[1] = ReportTime
  BY DEF Severe, GoesOn
<1> QED BY <1>1, <1>2

LEMMA FaithfulStays ==
  ASSUME World, GoesOn, NEW name \in ReadNames, reads'[name] = reads[name], Faithful(Answer(name))
  PROVE  Faithful(Answer(name))'
<1> SUFFICES ASSUME NEW e \in reads[name][1]
             PROVE  /\ e.id \in Severe' /\ e.clock = Outage(e.id)'[1] /\ e.resolved \in BOOLEAN
                    /\ e.resolved => Outage(e.id)'[2] # StillOpen
                    /\ ~e.resolved => Outage(e.id)'[2] \in {StillOpen, ReportTime}
  BY DEF Faithful, Answer
<1> DEFINE id == e.id
<1>1. /\ id \in Severe /\ e.clock = Outage(id)[1] /\ e.resolved \in BOOLEAN
      /\ e.resolved => Outage(id)[2] # StillOpen
      /\ ~e.resolved => Outage(id)[2] \in {StillOpen, ReportTime}
  BY DEF Faithful, Answer
<1> HIDE DEF id
<1>2. id \in Ids
  BY <1>1 DEF Severe
<1>3. id \in Severe' /\ Outage(id)'[1] = Outage(id)[1] /\ Moved(id, Outage(id)[2], Outage(id)'[2])
  BY <1>1, <1>2, SevereGoesOn DEF GoesOn
<1>4. ReportTime # StillOpen
  BY TimesAre
<1> QED BY <1>1, <1>3, <1>4 DEF Moved, id

\* The problems of a window that are new are not of those asked for.
LEMMA CoversStays ==
  ASSUME World, GoesOn, NEW name \in ReadNames, reads'[name] = reads[name],
         NEW lo \in Int, NEW hi \in Int, Covers(Answer(name), BeganIn(lo, hi))
  PROVE  Covers(reads[name][1], BeganIn(lo, hi)')
<1> SUFFICES ASSUME NEW id \in BeganIn(lo, hi)'
             PROVE  \E e \in reads[name][1] : e.id = id
  BY DEF Covers
<1>1. id \in Severe' /\ Outage(id)'[1] \in lo..hi /\ Outage(id)'[1] < ReportTime
  BY DEF BeganIn
<1>2. id \in Severe
  BY <1>1, SevereGoesOn, TimesAre
<1>3. Outage(id)'[1] = Outage(id)[1]
  BY <1>2 DEF Severe, GoesOn
<1>4. id \in BeganIn(lo, hi)
  BY <1>1, <1>2, <1>3 DEF BeganIn
<1> QED BY <1>4 DEF Covers, Answer

LEMMA OpenStays ==
  ASSUME World, GoesOn, reads'["openIds"] = reads["openIds"], WereOpen(Answer("openIds"))
  PROVE  WereOpen(Answer("openIds"))'
<1> DEFINE ids == reads["openIds"][1]
<1>1. /\ \A id \in ids : id \in Severe /\ Outage(id)[2] \in {StillOpen, ReportTime}
      /\ \A id \in Severe : Outage(id)[1] < LookFrom /\ Outage(id)[2] = StillOpen => id \in ids
  BY DEF WereOpen, Answer
<1>2. Answer("openIds")' = ids
  BY DEF Answer
<1> HIDE DEF ids
<1>3. ASSUME NEW id \in ids PROVE id \in Severe' /\ Outage(id)'[2] \in {StillOpen, ReportTime}
  <2>1. id \in Severe /\ Outage(id)[2] \in {StillOpen, ReportTime}
    BY <1>1
  <2>2. id \in Severe' /\ Moved(id, Outage(id)[2], Outage(id)'[2])
    BY <2>1, SevereGoesOn DEF GoesOn, Severe
  <2> QED BY <2>1, <2>2 DEF Moved
<1>4. ASSUME NEW id \in Severe', Outage(id)'[1] < LookFrom, Outage(id)'[2] = StillOpen
      PROVE  id \in ids
  <2>1. LookFrom <= ReportTime /\ ReportTime # StillOpen /\ LookFrom \in Nat /\ ReportTime \in Nat
    BY TimesAre
  <2>2. id \in Severe
    <3>1. Outage(id)'[1] # ReportTime
      BY <1>4, <2>1
    <3> QED BY <3>1, SevereGoesOn
  <2>3. Outage(id)'[1] = Outage(id)[1] /\ Moved(id, Outage(id)[2], Outage(id)'[2])
    BY <2>2 DEF Severe, GoesOn
  <2>4. Outage(id)[2] = StillOpen
    BY <1>4, <2>1, <2>3 DEF Moved
  <2> QED BY <1>1, <1>4, <2>2, <2>3, <2>4
<1>5. /\ \A id \in ids : id \in Severe' /\ Outage(id)'[2] \in {StillOpen, ReportTime}
      /\ \A id \in Severe' : Outage(id)'[1] < LookFrom /\ Outage(id)'[2] = StillOpen => id \in ids
  BY <1>3, <1>4
<1> QED BY <1>2, <1>5 DEF WereOpen, LookFrom

LEMMA RecoveredStays ==
  ASSUME World, GoesOn, reads'["recoveries"] = reads["recoveries"], Recovered(Answer("recoveries"))
  PROVE  Recovered(Answer("recoveries"))'
<1> DEFINE all == reads["recoveries"][1]
<1>1. /\ \A r \in all :
           /\ r.id \in Ids /\ HasRecovery(r.id) /\ r.clock = Outage(r.id)[2] /\ r.clock \in WindowStart..till
           /\ r = [id |-> r.id, clock |-> r.clock]
      /\ \A id \in Ids :
           HasRecovery(id) /\ Outage(id)[2] \in WindowStart..till /\ Outage(id)[2] < ReportTime =>
             \E r \in all : r.id = id
  BY DEF Recovered, Answer
<1>2. Answer("recoveries")' = all /\ till' = till
  BY DEF Answer, GoesOn
<1> HIDE DEF all
<1>3. ASSUME NEW r \in all
      PROVE  /\ r.id \in Ids' /\ HasRecovery(r.id)' /\ r.clock = Outage(r.id)'[2] /\ r.clock \in WindowStart..till
             /\ r = [id |-> r.id, clock |-> r.clock]
  <2> DEFINE id == r.id
  <2>1. id \in Ids /\ Outage(id)[2] # StillOpen /\ ~Outage(id)[3]
        /\ r.clock = Outage(id)[2] /\ r.clock \in WindowStart..till
    BY <1>1 DEF HasRecovery
  <2> HIDE DEF id
  <2>2. id \in Ids' /\ Outage(id)'[3] = Outage(id)[3] /\ Moved(id, Outage(id)[2], Outage(id)'[2])
    BY <2>1 DEF GoesOn
  <2>3. Outage(id)'[2] = Outage(id)[2]
    BY <2>1, <2>2 DEF Moved
  <2>4. HasRecovery(id)'
    BY <2>1, <2>2, <2>3 DEF HasRecovery
  <2> QED BY <1>1, <2>1, <2>2, <2>3, <2>4 DEF id
<1>4. ASSUME NEW id \in Ids', HasRecovery(id)', Outage(id)'[2] \in WindowStart..till, Outage(id)'[2] < ReportTime
      PROVE  \E r \in all : r.id = id
  <2>1. Outage(id)'[2] # StillOpen /\ ~Outage(id)'[3]
    BY <1>4 DEF HasRecovery
  <2>2. id \in Ids
    BY <2>1 DEF GoesOn
  <2>3. Outage(id)'[3] = Outage(id)[3] /\ Moved(id, Outage(id)[2], Outage(id)'[2])
    BY <2>2 DEF GoesOn
  <2>4. Outage(id)'[2] = Outage(id)[2]
    BY <1>4, <2>3, TimesAre DEF Moved
  <2>5. HasRecovery(id)
    BY <2>1, <2>3, <2>4 DEF HasRecovery
  <2> QED BY <1>1, <1>4, <2>2, <2>4, <2>5
<1>5. /\ \A r \in all :
           /\ r.id \in Ids' /\ HasRecovery(r.id)' /\ r.clock = Outage(r.id)'[2] /\ r.clock \in WindowStart..till'
           /\ r = [id |-> r.id, clock |-> r.clock]
      /\ \A id \in Ids' :
           HasRecovery(id)' /\ Outage(id)'[2] \in WindowStart..till' /\ Outage(id)'[2] < ReportTime =>
             \E r \in all : r.id = id
  BY <1>2, <1>3, <1>4
<1> QED BY <1>2, <1>5 DEF Recovered

LEMMA WindowStays ==
  ASSUME World, GoesOn, WindowTold, reads'["inWindow"] = reads["inWindow"]
  PROVE  WindowTold'
<1> SUFFICES ASSUME reads["inWindow"] # NotYetRead
             PROVE  Faithful(Answer("inWindow"))' /\ Covers(Answer("inWindow"), BeganIn(WindowStart, till))'
  BY DEF WindowTold
<1>1. WindowStart \in Int /\ till \in Int /\ till' = till /\ "inWindow" \in ReadNames
  BY TimesAre DEF World, GoesOn, ReadNames
<1>2. Faithful(Answer("inWindow")) /\ Covers(Answer("inWindow"), BeganIn(WindowStart, till))
  BY DEF WindowTold
<1>3. Faithful(Answer("inWindow"))'
  BY <1>1, <1>2, FaithfulStays
<1>4. Covers(reads["inWindow"][1], BeganIn(WindowStart, till)')
  <2>1. ASSUME NEW lo \in Int, NEW hi \in Int, Covers(Answer("inWindow"), BeganIn(lo, hi))
        PROVE  Covers(reads["inWindow"][1], BeganIn(lo, hi)')
    BY <1>1, <2>1, CoversStays
  <2> QED BY <1>1, <1>2, <2>1
<1>5. Covers(Answer("inWindow"), BeganIn(WindowStart, till))'
  BY <1>1, <1>4 DEF Covers, Answer, BeganIn
<1> QED BY <1>3, <1>5

LEMMA BeforeStays ==
  ASSUME World, GoesOn, BeforeTold, reads'["before"] = reads["before"]
  PROVE  BeforeTold'
<1> SUFFICES ASSUME reads["before"] # NotYetRead
             PROVE  Faithful(Answer("before"))' /\ Covers(Answer("before"), BeganIn(LookFrom, WindowStart - 1))'
  BY DEF BeforeTold
<1>1. LookFrom \in Int /\ WindowStart - 1 \in Int /\ "before" \in ReadNames
  BY TimesAre DEF ReadNames
<1>2. Faithful(Answer("before")) /\ Covers(Answer("before"), BeganIn(LookFrom, WindowStart - 1))
  BY DEF BeforeTold
<1>3. Faithful(Answer("before"))'
  BY <1>1, <1>2, FaithfulStays
<1>4. Covers(reads["before"][1], BeganIn(LookFrom, WindowStart - 1)')
  BY <1>1, <1>2, CoversStays
<1>5. Covers(Answer("before"), BeganIn(LookFrom, WindowStart - 1))'
  BY <1>4 DEF Covers, Answer, BeganIn
<1> QED BY <1>3, <1>5

LEMMA OlderStays ==
  ASSUME World, GoesOn, OlderTold,
         reads'["older"] = reads["older"], reads'["openIds"] = reads["openIds"]
  PROVE  OlderTold'
<1> SUFFICES ASSUME reads["older"] # NotYetRead
             PROVE  /\ reads["openIds"] # NotYetRead
                    /\ Faithful(Answer("older"))' /\ Covers(Answer("older"), Answer("openIds"))'
  BY DEF OlderTold
<1>1. /\ reads["openIds"] # NotYetRead /\ "older" \in ReadNames
      /\ Faithful(Answer("older")) /\ Covers(Answer("older"), Answer("openIds"))
  BY DEF OlderTold, ReadNames
<1>2. Faithful(Answer("older"))'
  BY <1>1, FaithfulStays
<1>3. Covers(Answer("older"), Answer("openIds"))'
  BY <1>1 DEF Covers, Answer
<1> QED BY <1>1, <1>2, <1>3

LEMMA OpenToldStays ==
  ASSUME World, GoesOn, OpenTold, reads'["openIds"] = reads["openIds"]
  PROVE  OpenTold'
BY OpenStays DEF OpenTold

LEMMA RecoveriesStay ==
  ASSUME World, GoesOn, RecoveriesTold, reads'["recoveries"] = reads["recoveries"]
  PROVE  RecoveriesTold'
BY RecoveredStays DEF RecoveriesTold

LEMMA AnswersStay ==
  ASSUME World, GoesOn, AnswersHold, reads' = reads
  PROVE  AnswersHold'
BY WindowStays, BeforeStays, OlderStays, OpenToldStays, RecoveriesStay DEF AnswersHold

-----------------------------------------------------------------------------
(* The reads.                                                              *)

LEMMA GotKeeps ==
  ASSUME World, AnswersHold, NEW name \in ReadNames, NEW answer, Got(name, answer)
  PROVE  /\ World' /\ GoesOn /\ report' = report /\ reads[name] = NotYetRead
         /\ reads' = [n \in ReadNames |-> reads'[n]]
         /\ reads'[name] = <<answer>> /\ \A n \in ReadNames : n # name => reads'[n] = reads[n]
<1>1. reads' = [reads EXCEPT ![name] = <<answer>>] /\ UNCHANGED <<outages, hostOf, severe, till, report>>
      /\ reads[name] = NotYetRead
  BY DEF Got
<1>2. World'
  BY <1>1 DEF World
<1>3. GoesOn
  BY <1>1 DEF GoesOn, Ids, Outage, Moved
<1>4. DOMAIN reads = ReadNames
  BY DEF AnswersHold
<1>5. reads'[name] = <<answer>> /\ \A n \in ReadNames : n # name => reads'[n] = reads[n]
  BY <1>1, <1>4
<1>6. reads' = [n \in ReadNames |-> reads'[n]]
  BY <1>1, <1>4
<1> QED BY <1>1, <1>2, <1>3, <1>5, <1>6

\* What is read is as it is.
LEMMA ProblemsAreFaithful ==
  ASSUME World, NEW lo \in Int, NEW hi \in Int
  PROVE  Faithful(ProblemsFrom(lo, hi)) /\ Covers(ProblemsFrom(lo, hi), BeganIn(lo, hi))
<1>1. ASSUME NEW id \in Severe
      PROVE  /\ Event(id).id = id /\ Event(id).clock = Outage(id)[1] /\ Event(id).resolved \in BOOLEAN
             /\ Event(id).resolved <=> Outage(id)[2] # StillOpen
  BY DEF Event
<1>2. Faithful(ProblemsFrom(lo, hi))
  <2> SUFFICES ASSUME NEW e \in ProblemsFrom(lo, hi)
               PROVE  /\ e.id \in Severe /\ e.clock = Outage(e.id)[1] /\ e.resolved \in BOOLEAN
                      /\ e.resolved => Outage(e.id)[2] # StillOpen
                      /\ ~e.resolved => Outage(e.id)[2] \in {StillOpen, ReportTime}
    BY DEF Faithful
  <2>1. PICK id \in Severe : e = Event(id)
    BY DEF ProblemsFrom, Severe
  <2> QED BY <1>1, <2>1
<1>3. ASSUME NEW id \in BeganIn(lo, hi) PROVE \E e \in ProblemsFrom(lo, hi) : e.id = id
  <2>1. id \in Severe /\ Event(id) \in ProblemsFrom(lo, hi)
    BY DEF BeganIn, ProblemsFrom, Severe
  <2> QED BY <1>1, <2>1
<1> QED BY <1>2, <1>3 DEF Covers

\* A read changes nothing but what has been read.
LEMMA ReadOnlyReads ==
  ASSUME NEW name, NEW answer, Got(name, answer)
  PROVE  /\ Severe' = Severe /\ Ids' = Ids /\ till' = till
         /\ \A id : Outage(id)' = Outage(id) /\ HasRecovery(id)' = HasRecovery(id)
BY DEF Got, Severe, Ids, Outage, HasRecovery

LEMMA ToldNow ==
  ASSUME World, AnswersHold, NEW name \in ReadNames, NEW lo \in Int, NEW hi \in Int,
         Got(name, ProblemsFrom(lo, hi))
  PROVE  Faithful(Answer(name))' /\ Covers(reads'[name][1], BeganIn(lo, hi)')
<1> PICK a : a = ProblemsFrom(lo, hi)
  OBVIOUS
<1>1. Got(name, a) /\ reads'[name] = <<a>> /\ Answer(name)' = a
  BY GotKeeps DEF Answer
<1>2. Faithful(a) /\ Covers(a, BeganIn(lo, hi))
  BY ProblemsAreFaithful
<1>3. Severe' = Severe /\ \A id : Outage(id)' = Outage(id)
  BY <1>1, ReadOnlyReads
<1>4. BeganIn(lo, hi)' = BeganIn(lo, hi)
  BY <1>3 DEF BeganIn
<1>5. \A e \in a :
        /\ e.id \in Severe' /\ e.clock = Outage(e.id)'[1] /\ e.resolved \in BOOLEAN
        /\ e.resolved => Outage(e.id)'[2] # StillOpen
        /\ ~e.resolved => Outage(e.id)'[2] \in {StillOpen, ReportTime}
  BY <1>2, <1>3 DEF Faithful
<1>6. Faithful(Answer(name))'
  BY <1>1, <1>5 DEF Faithful
<1>7. reads'[name][1] = a
  BY <1>1
<1> QED BY <1>2, <1>4, <1>6, <1>7

LEMMA ReadWindowKeeps ==
  ASSUME World, AnswersHold, ReadWindow
  PROVE  World' /\ AnswersHold' /\ report' = report
<1>1. "inWindow" \in ReadNames /\ "before" \in ReadNames /\ "openIds" \in ReadNames
      /\ "older" \in ReadNames /\ "recoveries" \in ReadNames
  BY DEF ReadNames
<1>2. Got("inWindow", ProblemsFrom(WindowStart, till))
  BY DEF ReadWindow
<1>3. /\ World' /\ GoesOn /\ report' = report
      /\ reads' = [n \in ReadNames |-> reads'[n]]
      /\ \A n \in ReadNames : n # "inWindow" => reads'[n] = reads[n]
  BY <1>1, <1>2, GotKeeps
<1>4. BeforeTold' /\ OpenTold' /\ OlderTold' /\ RecoveriesTold'
  BY <1>1, <1>3, BeforeStays, OpenToldStays, OlderStays, RecoveriesStay DEF AnswersHold
<1>5. WindowTold'
  <2> PICK hi : hi = till
    OBVIOUS
  <2>1. hi \in Int /\ WindowStart \in Int /\ till' = hi
    BY <1>3, TimesAre DEF World, GoesOn
  <2>2. Faithful(Answer("inWindow"))' /\ Covers(reads'["inWindow"][1], BeganIn(WindowStart, hi)')
    BY <1>1, <1>2, <2>1, ToldNow
  <2>3. Covers(Answer("inWindow"), BeganIn(WindowStart, till))'
    BY <2>1, <2>2 DEF Covers, BeganIn, Answer
  <2> QED BY <2>2, <2>3 DEF WindowTold
<1> QED BY <1>3, <1>4, <1>5 DEF AnswersHold

LEMMA ReadBeforeKeeps ==
  ASSUME World, AnswersHold, ReadBefore
  PROVE  World' /\ AnswersHold' /\ report' = report
<1>1. "inWindow" \in ReadNames /\ "before" \in ReadNames /\ "openIds" \in ReadNames
      /\ "older" \in ReadNames /\ "recoveries" \in ReadNames
  BY DEF ReadNames
<1>2. Got("before", ProblemsFrom(LookFrom, WindowStart - 1))
  BY DEF ReadBefore
<1>3. /\ World' /\ GoesOn /\ report' = report
      /\ reads' = [n \in ReadNames |-> reads'[n]]
      /\ \A n \in ReadNames : n # "before" => reads'[n] = reads[n]
  BY <1>1, <1>2, GotKeeps
<1>4. WindowTold' /\ OpenTold' /\ OlderTold' /\ RecoveriesTold'
  BY <1>1, <1>3, WindowStays, OpenToldStays, OlderStays, RecoveriesStay DEF AnswersHold
<1>5. BeforeTold'
  <2>1. LookFrom \in Int /\ WindowStart - 1 \in Int
    BY TimesAre
  <2>2. Faithful(Answer("before"))' /\ Covers(reads'["before"][1], BeganIn(LookFrom, WindowStart - 1)')
    BY <1>1, <1>2, <2>1, ToldNow
  <2>3. Covers(Answer("before"), BeganIn(LookFrom, WindowStart - 1))'
    BY <2>2 DEF Covers, BeganIn, Answer
  <2> QED BY <2>2, <2>3 DEF BeforeTold
<1> QED BY <1>3, <1>4, <1>5 DEF AnswersHold

LEMMA ReadOpenIdsKeeps ==
  ASSUME World, AnswersHold, ReadOpenIds
  PROVE  World' /\ AnswersHold' /\ report' = report
<1>1. "inWindow" \in ReadNames /\ "before" \in ReadNames /\ "openIds" \in ReadNames
      /\ "older" \in ReadNames /\ "recoveries" \in ReadNames
  BY DEF ReadNames
<1> PICK a : a = {id \in Ids : id[1] \in severe /\ Outage(id)[1] < LookFrom /\ Outage(id)[2] = StillOpen}
  OBVIOUS
<1>2. Got("openIds", a)
  BY DEF ReadOpenIds
<1>3. /\ World' /\ GoesOn /\ report' = report /\ reads["openIds"] = NotYetRead
      /\ reads' = [n \in ReadNames |-> reads'[n]]
      /\ reads'["openIds"] = <<a>>
      /\ \A n \in ReadNames : n # "openIds" => reads'[n] = reads[n]
  BY <1>1, <1>2, GotKeeps
<1>4. WindowTold' /\ BeforeTold' /\ RecoveriesTold'
  BY <1>1, <1>3, WindowStays, BeforeStays, RecoveriesStay DEF AnswersHold
<1>5. OlderTold'
  BY <1>1, <1>3 DEF AnswersHold, OlderTold
<1>6. OpenTold'
  <2>1. Severe' = Severe /\ \A id : Outage(id)' = Outage(id)
    BY <1>2, ReadOnlyReads
  <2>2. /\ \A id \in a : id \in Severe' /\ Outage(id)'[2] \in {StillOpen, ReportTime}
        /\ \A id \in Severe' : Outage(id)'[1] < LookFrom /\ Outage(id)'[2] = StillOpen => id \in a
    BY <2>1 DEF Severe
  <2>3. Answer("openIds")' = a
    BY <1>3 DEF Answer
  <2> QED BY <2>2, <2>3 DEF OpenTold, WereOpen, LookFrom
<1> QED BY <1>3, <1>4, <1>5, <1>6 DEF AnswersHold

LEMMA ReadOlderKeeps ==
  ASSUME World, AnswersHold, ReadOlder
  PROVE  World' /\ AnswersHold' /\ report' = report
<1>1. "inWindow" \in ReadNames /\ "before" \in ReadNames /\ "openIds" \in ReadNames
      /\ "older" \in ReadNames /\ "recoveries" \in ReadNames
  BY DEF ReadNames
<1> PICK ids : ids = Answer("openIds")
  OBVIOUS
<1> PICK a : a = {Event(id) : id \in ids}
  OBVIOUS
<1>2. Got("older", a) /\ reads["openIds"] # NotYetRead
  BY DEF ReadOlder
<1>3. /\ World' /\ GoesOn /\ report' = report
      /\ reads' = [n \in ReadNames |-> reads'[n]]
      /\ reads'["older"] = <<a>>
      /\ \A n \in ReadNames : n # "older" => reads'[n] = reads[n]
  BY <1>1, <1>2, GotKeeps
<1>4. WindowTold' /\ BeforeTold' /\ OpenTold' /\ RecoveriesTold'
  BY <1>1, <1>3, WindowStays, BeforeStays, OpenToldStays, RecoveriesStay DEF AnswersHold
<1>5. OlderTold'
  <2>1. Severe' = Severe /\ \A id : Outage(id)' = Outage(id)
    BY <1>2, ReadOnlyReads
  <2>2. \A id \in ids : id \in Severe
    BY <1>2 DEF AnswersHold, OpenTold, WereOpen
  <2>3. ASSUME NEW e \in a
        PROVE  /\ e.id \in Severe' /\ e.clock = Outage(e.id)'[1] /\ e.resolved \in BOOLEAN
               /\ e.resolved => Outage(e.id)'[2] # StillOpen
               /\ ~e.resolved => Outage(e.id)'[2] \in {StillOpen, ReportTime}
    <3>1. PICK id \in ids : e = Event(id)
      OBVIOUS
    <3>2. e.id = id /\ e.clock = Outage(id)[1] /\ e.resolved = (Outage(id)[2] # StillOpen)
      BY <3>1 DEF Event
    <3> QED BY <2>1, <2>2, <3>2
  <2>4. Answer("older")' = a /\ Answer("openIds")' = ids /\ reads'["openIds"] # NotYetRead
    BY <1>1, <1>2, <1>3 DEF Answer
  <2>5. Faithful(Answer("older"))'
    BY <2>3, <2>4 DEF Faithful
  <2>6. ASSUME NEW id \in ids PROVE \E e \in a : e.id = id
    <3>1. Event(id) \in a /\ Event(id).id = id
      BY DEF Event
    <3> HIDE DEF Event
    <3> QED BY <3>1
  <2>7. Covers(Answer("older"), Answer("openIds"))'
    BY <2>4, <2>6 DEF Covers
  <2> QED BY <2>4, <2>5, <2>7 DEF OlderTold
<1> QED BY <1>3, <1>4, <1>5 DEF AnswersHold

LEMMA ReadRecoveriesKeeps ==
  ASSUME World, AnswersHold, ReadRecoveries
  PROVE  World' /\ AnswersHold' /\ report' = report
<1>1. "inWindow" \in ReadNames /\ "before" \in ReadNames /\ "openIds" \in ReadNames
      /\ "older" \in ReadNames /\ "recoveries" \in ReadNames
  BY DEF ReadNames
<1> PICK a : a = RecoveriesFrom(WindowStart, till)
  OBVIOUS
<1>2. Got("recoveries", a)
  BY DEF ReadRecoveries
<1>3. /\ World' /\ GoesOn /\ report' = report
      /\ reads' = [n \in ReadNames |-> reads'[n]]
      /\ reads'["recoveries"] = <<a>>
      /\ \A n \in ReadNames : n # "recoveries" => reads'[n] = reads[n]
  BY <1>1, <1>2, GotKeeps
<1>4. WindowTold' /\ BeforeTold' /\ OpenTold' /\ OlderTold'
  BY <1>1, <1>3, WindowStays, BeforeStays, OpenToldStays, OlderStays DEF AnswersHold
<1>5. RecoveriesTold'
  <2>1. /\ Ids' = Ids /\ till' = till
        /\ \A id : Outage(id)' = Outage(id) /\ HasRecovery(id)' = HasRecovery(id)
    BY <1>2, ReadOnlyReads
  <2>2. ASSUME NEW r \in a
        PROVE  /\ r.id \in Ids' /\ HasRecovery(r.id)' /\ r.clock = Outage(r.id)'[2] /\ r.clock \in WindowStart..till'
               /\ r = [id |-> r.id, clock |-> r.clock]
    <3>1. PICK id \in Ids : r = Recovery(id) /\ HasRecovery(id) /\ Outage(id)[2] \in WindowStart..till
      BY DEF RecoveriesFrom
    <3>2. r.id = id /\ r.clock = Outage(id)[2] /\ r = [id |-> id, clock |-> Outage(id)[2]]
      BY <3>1 DEF Recovery
    <3>3. r = [id |-> r.id, clock |-> r.clock]
      BY <3>2
    <3> QED BY <2>1, <3>1, <3>2, <3>3
  <2>3. ASSUME NEW id \in Ids', HasRecovery(id)', Outage(id)'[2] \in WindowStart..till'
        PROVE  \E r \in a : r.id = id
    <3>1. Recovery(id) \in a
      BY <2>1, <2>3 DEF RecoveriesFrom
    <3> QED BY <3>1 DEF Recovery
  <2>4. Answer("recoveries")' = a
    BY <1>3 DEF Answer
  <2> QED BY <2>2, <2>3, <2>4 DEF RecoveriesTold, Recovered
<1> QED BY <1>3, <1>4, <1>5 DEF AnswersHold

-----------------------------------------------------------------------------
(* What the answers come to.                                               *)

\* One of each.
OnceEach(records) == \A e, f \in records : e.id = f.id => e = f

Gathered == Latest(Answer("older") \cup Answer("before") \cup Answer("inWindow"))
Final(looked) == Latest(Gathered \cup UNION {LongOutage(r) : r \in looked})
AllRead == \A name \in ReadNames : reads[name] # NotYetRead

LEMMA LatestIs ==
  ASSUME NEW events, \A e \in events : e.resolved \in BOOLEAN
  PROVE  /\ Latest(events) \subseteq events /\ OnceEach(Latest(events))
         /\ \A e \in events : \E f \in Latest(events) : f.id = e.id
<1> DEFINE IsLast(e, id) == e.id = id /\ \A f \in events : f.id = id /\ f.resolved => e.resolved
           last(id) == CHOOSE e \in events : IsLast(e, id)
<1>1. Latest(events) = {last(id) : id \in {e.id : e \in events}}
  BY DEF Latest
<1>2. ASSUME NEW e \in events PROVE \E f \in events : IsLast(f, e.id)
  <2>1. CASE \E f \in events : f.id = e.id /\ f.resolved
    BY <2>1
  <2>2. CASE ~(\E f \in events : f.id = e.id /\ f.resolved)
    BY <2>2
  <2> QED BY <2>1, <2>2
<1>3. ASSUME NEW e \in events PROVE last(e.id) \in events /\ last(e.id).id = e.id
  <2>1. last(e.id) \in events /\ IsLast(last(e.id), e.id)
    BY <1>2
  <2> QED BY <2>1
<1> HIDE DEF last, IsLast
<1>4. ASSUME NEW f \in Latest(events) PROVE f \in events /\ f = last(f.id)
  <2>1. PICK e \in events : f = last(e.id)
    BY <1>1
  <2> QED BY <1>3, <2>1
<1>5. ASSUME NEW e \in events PROVE \E f \in Latest(events) : f.id = e.id
  <2>1. last(e.id) \in Latest(events)
    BY <1>1
  <2> QED BY <1>3, <2>1
<1> QED BY <1>4, <1>5 DEF OnceEach

LEMMA GatheredHolds ==
  ASSUME World, AnswersHold, AllRead
  PROVE  /\ Faithful(Gathered)
         /\ \A id \in Severe :
              LookFrom <= Outage(id)[1] /\ Outage(id)[1] <= till /\ Outage(id)[1] < ReportTime =>
              \E e \in Gathered : e.id = id
         /\ \A id \in Severe : Outage(id)[1] < LookFrom /\ Outage(id)[2] = StillOpen =>
              \E e \in Gathered : e.id = id
<1> DEFINE older == Answer("older")
           before == Answer("before")
           inWindow == Answer("inWindow")
           events == older \cup before \cup inWindow
<1>1. /\ Faithful(older) /\ Faithful(before) /\ Faithful(inWindow)
      /\ Covers(older, Answer("openIds")) /\ WereOpen(Answer("openIds"))
      /\ Covers(before, BeganIn(LookFrom, WindowStart - 1)) /\ Covers(inWindow, BeganIn(WindowStart, till))
  BY DEF AllRead, AnswersHold, ReadNames, WindowTold, BeforeTold, OlderTold, OpenTold
<1>2. Gathered = Latest(events)
  BY DEF Gathered
<1> HIDE DEF older, before, inWindow
<1>3. Faithful(events)
  BY <1>1 DEF Faithful
<1>4. /\ Latest(events) \subseteq events
      /\ \A e \in events : \E f \in Latest(events) : f.id = e.id
  <2>1. \A e \in events : e.resolved \in BOOLEAN
    BY <1>3 DEF Faithful
  <2> HIDE DEF events
  <2> QED BY <2>1, LatestIs
<1>5. Faithful(Gathered)
  BY <1>2, <1>3, <1>4 DEF Faithful
<1>6. ASSUME NEW id \in Severe, LookFrom <= Outage(id)[1], Outage(id)[1] <= till, Outage(id)[1] < ReportTime
      PROVE  \E e \in events : e.id = id
  <2>1. Outage(id)[1] \in Nat
    BY OutageFacts DEF Severe
  <2>2. till \in Nat /\ till <= ReportTime
    BY TimesAre DEF World
  <2>3. id \in BeganIn(LookFrom, WindowStart - 1) \/ id \in BeganIn(WindowStart, till)
    BY <1>6, <2>1, <2>2, TimesAre DEF BeganIn
  <2> QED BY <1>1, <2>3 DEF Covers
<1>7. ASSUME NEW id \in Severe, Outage(id)[1] < LookFrom, Outage(id)[2] = StillOpen
      PROVE  \E e \in events : e.id = id
  BY <1>1, <1>7 DEF Covers, WereOpen
<1> HIDE DEF events
<1> QED BY <1>2, <1>4, <1>5, <1>6, <1>7

\* A lookup gives the outage the recovery ended, or nothing.
LEMMA LookupIsFaithful ==
  ASSUME World, AnswersHold, AllRead, NEW events, NEW r \in Wanted(events)
  PROVE  Faithful(LongOutage(r)) /\ r.id \in Severe
<1>1. r \in Answer("recoveries") /\ r.id[1] \in severe
  BY DEF Wanted, FirstOfTrigger
<1>2. r.id \in Ids
  BY <1>1 DEF AllRead, AnswersHold, ReadNames, RecoveriesTold, Recovered
<1>3. r.id \in Severe
  BY <1>1, <1>2 DEF Severe
<1>4. \A e \in LongOutage(r) : e = Event(r.id)
  BY DEF LongOutage
<1>5. Event(r.id).id = r.id /\ Event(r.id).clock = Outage(r.id)[1]
      /\ Event(r.id).resolved = (Outage(r.id)[2] # StillOpen)
  BY DEF Event
<1> QED BY <1>3, <1>4, <1>5 DEF Faithful

LEMMA LookupFinds ==
  ASSUME World, NEW r, r.id \in Ids, Outage(r.id)[1] < LookFrom,
         Outage(r.id)[2] # StillOpen, WindowStart <= Outage(r.id)[2]
  PROVE  \E e \in LongOutage(r) : e.id = r.id
<1> DEFINE older == {id \in Ids : id[1] = r.id[1] /\ Outage(id)[1] < LookFrom}
<1>1. r.id \in older
  OBVIOUS
<1>2. ASSUME NEW j \in older PROVE j[2] <= r.id[2]
  <2>1. j \in Ids /\ j[1] = r.id[1] /\ Outage(j)[1] < LookFrom
    OBVIOUS
  <2>2. j[2] \in Nat /\ r.id[2] \in Nat /\ Outage(j)[1] \in Nat
    BY <2>1, OutageFacts DEF World
  <2>3. ASSUME r.id[2] < j[2] PROVE FALSE
    <3>1. Outage(r.id)[2] \in Nat /\ Outage(r.id)[2] <= Outage(j)[1]
      BY <2>1, <2>3, InTheirOrder
    <3> QED BY <2>1, <2>2, <3>1, TimesAre
  <2> QED BY <2>2, <2>3
<1>3. LongOutage(r) = {Event(id) : id \in {i \in older : i = r.id /\ \A j \in older : j[2] <= i[2]}}
  BY DEF LongOutage
<1> HIDE DEF older
<1>4. Event(r.id) \in LongOutage(r) /\ Event(r.id).id = r.id
  <2>1. Event(r.id) \in LongOutage(r)
    BY <1>1, <1>2, <1>3
  <2> QED BY <2>1 DEF Event
<1> QED BY <1>4

\* The recovery of an outage from before the look-back is its trigger's first.
LEMMA LongIsWanted ==
  ASSUME World, AnswersHold, AllRead, NEW events,
         NEW id \in Severe, Outage(id)[1] < LookFrom, HasRecovery(id),
         Outage(id)[2] \in WindowStart..till, Outage(id)[2] < ReportTime,
         \A e \in events : e.id # id
  PROVE  \E r \in Wanted(events) : r.id = id
<1> DEFINE recoveries == Answer("recoveries")
<1>1. /\ \A r \in recoveries :
           r.id \in Ids /\ HasRecovery(r.id) /\ r.clock = Outage(r.id)[2] /\ r.clock \in WindowStart..till
      /\ \A i \in Ids :
           HasRecovery(i) /\ Outage(i)[2] \in WindowStart..till /\ Outage(i)[2] < ReportTime =>
             \E r \in recoveries : r.id = i
  BY DEF AllRead, AnswersHold, ReadNames, RecoveriesTold, Recovered
<1>2. id \in Ids /\ id[1] \in severe
  BY DEF Severe
<1>3. PICK r \in recoveries : r.id = id
  BY <1>1, <1>2
<1>4. ASSUME NEW q \in recoveries, q.id[1] = id[1] PROVE id[2] <= q.id[2]
  <2>1. q.id \in Ids /\ q.clock = Outage(q.id)[2] /\ q.clock \in WindowStart..till
    BY <1>1
  <2>2. q.id[2] \in Nat /\ id[2] \in Nat /\ Outage(id)[1] \in Nat
    BY <1>2, <2>1, OutageFacts DEF World
  <2>3. ASSUME q.id[2] < id[2] PROVE FALSE
    <3>1. Outage(q.id)[2] \in Nat /\ Outage(q.id)[2] <= Outage(id)[1]
      BY <1>2, <1>4, <2>1, <2>3, InTheirOrder
    <3>2. Outage(q.id)[2] >= WindowStart
      BY <2>1, TimesAre DEF World
    <3> QED BY <2>2, <3>1, <3>2, TimesAre
  <2> QED BY <2>2, <2>3
<1>5. r \in FirstOfTrigger
  BY <1>3, <1>4 DEF FirstOfTrigger
<1>6. r \in Wanted(events)
  BY <1>2, <1>3, <1>5 DEF Wanted
<1> QED BY <1>3, <1>6

LEMMA InWindowIs ==
  ASSUME World, NEW id \in Ids
  PROVE  /\ EndOf(id) \in Nat /\ EndOf(id) <= ReportTime
         /\ InWindow(id) = Greater(Outage(id)[1], WindowStart)..Lesser(EndOf(id), till) - 1
         /\ IsFiniteSet(InWindow(id)) /\ InWindow(id) \subseteq WindowStart..till - 1
<1>1. EndOf(id) \in Nat /\ EndOf(id) <= ReportTime
  <2>1. /\ Outage(id)[2] # StillOpen => Outage(id)[2] \in Nat /\ Outage(id)[2] <= ReportTime
    BY OutageFacts
  <2> QED BY <2>1, TimesAre DEF EndOf
<1>2. Outage(id)[1] \in Nat /\ WindowStart \in Nat /\ till \in Nat
  BY OutageFacts, TimesAre DEF World
<1> DEFINE b == Outage(id)[1]
           e == EndOf(id)
<1>3. InWindow(id) = (b..e - 1) \cap (WindowStart..till - 1)
  BY DEF InWindow
<1>4. b \in Nat /\ e \in Nat /\ WindowStart \in Nat /\ till \in Nat
  BY <1>1, <1>2
<1> HIDE DEF b, e
<1>5. (b..e - 1) \cap (WindowStart..till - 1) = Greater(b, WindowStart)..Lesser(e, till) - 1
  BY <1>4 DEF Greater, Lesser
<1>6. IsFiniteSet(Greater(b, WindowStart)..Lesser(e, till) - 1)
  <2>1. Greater(b, WindowStart) \in Int /\ Lesser(e, till) - 1 \in Int
    BY <1>4 DEF Greater, Lesser
  <2> QED BY <2>1, FS_Interval
<1> QED BY <1>1, <1>3, <1>5, <1>6 DEF b, e

\* What the report must have: but for what may be missed.
Missable(partly, id) == MayBeMissed(id) \/ (partly /\ EndedLong(id))

LEMMA FinalHolds ==
  ASSUME World, AnswersHold, AllRead, NEW looked, looked \subseteq Wanted(Gathered)
  PROVE  /\ Faithful(Final(looked)) /\ OnceEach(Final(looked))
         /\ \A id \in Severe :
              InWindow(id) # {} /\ ~Missable(looked # Wanted(Gathered), id) =>
                \E e \in Final(looked) : e.id = id
<1> DEFINE found == UNION {LongOutage(r) : r \in looked}
           events == Gathered \cup found
<1>1. /\ Faithful(Gathered)
      /\ \A id \in Severe :
           LookFrom <= Outage(id)[1] /\ Outage(id)[1] <= till /\ Outage(id)[1] < ReportTime =>
           \E e \in Gathered : e.id = id
      /\ \A id \in Severe : Outage(id)[1] < LookFrom /\ Outage(id)[2] = StillOpen =>
           \E e \in Gathered : e.id = id
  BY GatheredHolds
<1>2. \A r \in looked : Faithful(LongOutage(r)) /\ r.id \in Severe
  <2>1. \A r \in Wanted(Gathered) : Faithful(LongOutage(r)) /\ r.id \in Severe
    BY LookupIsFaithful
  <2> QED BY <2>1
<1>3. Faithful(events)
  BY <1>1, <1>2 DEF Faithful
<1>4. Final(looked) = Latest(events)
  BY DEF Final
<1>5. /\ Latest(events) \subseteq events /\ OnceEach(Latest(events))
      /\ \A e \in events : \E f \in Latest(events) : f.id = e.id
  <2>1. \A e \in events : e.resolved \in BOOLEAN
    BY <1>3 DEF Faithful
  <2> HIDE DEF events
  <2> QED BY <2>1, LatestIs
<1>6. Faithful(Final(looked)) /\ OnceEach(Final(looked))
  BY <1>3, <1>4, <1>5 DEF Faithful
<1>7. ASSUME NEW id \in Severe, InWindow(id) # {}, ~MayBeMissed(id),
             looked = Wanted(Gathered) \/ ~EndedLong(id)
      PROVE  \E e \in events : e.id = id
  <2>1. /\ id \in Ids /\ Outage(id)[1] \in Nat
        /\ Outage(id)[2] # StillOpen => Outage(id)[2] \in Nat
    BY OutageFacts DEF Severe
  <2>2. till \in Nat /\ till <= ReportTime
    BY TimesAre DEF World
  <2>3. PICK s \in Int : /\ Outage(id)[1] <= s /\ s <= EndOf(id) - 1
                         /\ WindowStart <= s /\ s <= till - 1
    <3>1. EndOf(id) \in Nat
      BY <2>1, InWindowIs
    <3>2. PICK s : s \in InWindow(id)
      BY <1>7
    <3>3. s \in Outage(id)[1]..EndOf(id) - 1 /\ s \in WindowStart..till - 1
      BY <3>2 DEF InWindow
    <3> QED BY <2>1, <2>2, <3>1, <3>3, TimesAre
  <2>4. CASE LookFrom <= Outage(id)[1]
    <3>1. Outage(id)[1] <= till /\ Outage(id)[1] < ReportTime
      BY <2>1, <2>2, <2>3, TimesAre
    <3> QED BY <1>1, <2>4, <3>1
  <2>5. CASE Outage(id)[1] < LookFrom /\ Outage(id)[2] = StillOpen
    BY <1>1, <2>5
  <2>6. CASE Outage(id)[1] < LookFrom /\ Outage(id)[2] # StillOpen
    <3>1. Outage(id)[2] \in Nat /\ Outage(id)[2] < till
      BY <1>7, <2>1, <2>2, <2>6 DEF MayBeMissed
    <3>2. Outage(id)[1] < WindowStart /\ ~Outage(id)[3]
      BY <1>7, <2>1, <2>6, TimesAre DEF MayBeMissed
    <3>3. EndOf(id) = Outage(id)[2] /\ HasRecovery(id)
      BY <2>6, <3>2 DEF EndOf, HasRecovery
    <3>4. WindowStart <= Outage(id)[2] /\ Outage(id)[2] \in WindowStart..till /\ Outage(id)[2] < ReportTime
      BY <2>2, <2>3, <3>1, <3>3, TimesAre
    <3>5. looked = Wanted(Gathered)
      BY <1>7, <2>6, <3>4 DEF EndedLong
    <3>6. CASE \E e \in Gathered : e.id = id
      BY <3>6
    <3>7. CASE \A e \in Gathered : e.id # id
      <4>1. PICK r \in Wanted(Gathered) : r.id = id
        BY <2>6, <3>3, <3>4, <3>7, LongIsWanted
      <4>2. PICK e \in LongOutage(r) : e.id = id
        BY <2>1, <2>6, <3>4, <4>1, LookupFinds
      <4>3. e \in found
        BY <3>5, <4>1, <4>2
      <4> QED BY <4>2, <4>3
    <3> QED BY <3>6, <3>7
  <2> QED BY <2>1, <2>4, <2>5, <2>6, TimesAre
<1>8. ASSUME NEW id \in Severe, InWindow(id) # {}, ~Missable(looked # Wanted(Gathered), id)
      PROVE  \E e \in Final(looked) : e.id = id
  <2>1. ~MayBeMissed(id) /\ (looked = Wanted(Gathered) \/ ~EndedLong(id))
    BY <1>8 DEF Missable
  <2>2. PICK e \in events : e.id = id
    BY <1>7, <1>8, <2>1
  <2> HIDE DEF events
  <2> QED BY <1>4, <1>5, <2>2
<1> QED BY <1>6, <1>8

\* An incident is an outage, from when it began in the window to when it ended.
Tells(i) ==
  /\ i.id \in Severe /\ i.began = Outage(i.id)[1] /\ i.resolved \in BOOLEAN
  /\ i.resolved => Outage(i.id)[2] # StillOpen
  /\ ~i.resolved => Outage(i.id)[2] \in {StillOpen, ReportTime} /\ i.end = till
  /\ i.start \in Int /\ i.end \in Int /\ i.start < i.end
  /\ i.began <= i.start /\ i.end <= till
  /\ InWindow(i.id) = i.start..i.end - 1

LEMMA IncidentsTell ==
  ASSUME World, AnswersHold, AllRead, NEW events, Faithful(events), OnceEach(events)
  PROVE  /\ \A i \in IncidentsOf(events) : Tells(i)
         /\ OnceEach(IncidentsOf(events))
         /\ \A e \in events :
              InWindow(e.id) # {} /\ ~(Outage(e.id)[1] < WindowStart /\ Outage(e.id)[3]) =>
                \E i \in IncidentsOf(events) : i.id = e.id
<1> DEFINE left(e) == e.clock < WindowStart /\ e.resolved /\ ~RecoveryKnown(e)
<1>1. IncidentsOf(events) = {i \in {Clip(e) : e \in {f \in events : ~left(f)}} : i.end > i.start}
  BY DEF IncidentsOf
<1>2. ASSUME NEW e
      PROVE  /\ Clip(e).id = e.id /\ Clip(e).began = e.clock /\ Clip(e).resolved = e.resolved
             /\ Clip(e).start = Greater(e.clock, WindowStart)
             /\ Clip(e).end = IF e.resolved /\ RecoveryKnown(e) THEN Lesser(Outage(e.id)[2], till) ELSE till
  BY DEF Clip
<1>3. ASSUME NEW e \in events
      PROVE  /\ e.id \in Ids /\ e.id \in Severe /\ e.clock = Outage(e.id)[1] /\ e.resolved \in BOOLEAN
             /\ e.resolved => Outage(e.id)[2] # StillOpen
             /\ ~e.resolved => Outage(e.id)[2] \in {StillOpen, ReportTime}
             /\ RecoveryKnown(e) <=> HasRecovery(e.id)
  <2>1. /\ e.id \in Severe /\ e.clock = Outage(e.id)[1] /\ e.resolved \in BOOLEAN
        /\ e.resolved => Outage(e.id)[2] # StillOpen
        /\ ~e.resolved => Outage(e.id)[2] \in {StillOpen, ReportTime}
    BY DEF Faithful
  <2>2. \A r \in Answer("recoveries") : HasRecovery(r.id)
    BY DEF AllRead, AnswersHold, ReadNames, RecoveriesTold, Recovered
  <2> QED BY <2>1, <2>2 DEF RecoveryKnown, Severe
<1>4. ASSUME NEW e \in events, ~left(e)
      PROVE  /\ Clip(e).start \in Int /\ Clip(e).end \in Int
             /\ e.clock <= Clip(e).start /\ Clip(e).end <= till
             /\ InWindow(e.id) = Clip(e).start..Clip(e).end - 1
  <2> DEFINE id == e.id
             b == Outage(id)[1]
  <2>1. /\ id \in Ids /\ e.clock = b /\ b \in Nat /\ b <= ReportTime /\ Outage(id)[3] \in BOOLEAN
        /\ Outage(id)[2] # StillOpen => Outage(id)[2] \in Nat
    BY <1>3, OutageFacts
  <2>2. WindowStart \in Nat /\ till \in Nat /\ till <= ReportTime /\ ReportTime \in Nat
    BY TimesAre DEF World
  <2>3. InWindow(id) = Greater(b, WindowStart)..Lesser(EndOf(id), till) - 1
    BY <2>1, InWindowIs
  <2>4. Clip(e).end = Lesser(EndOf(id), till)
    <3>1. CASE e.resolved /\ HasRecovery(id)
      <4>1. EndOf(id) = Outage(id)[2]
        BY <3>1 DEF HasRecovery, EndOf
      <4> QED BY <1>2, <1>3, <3>1, <4>1
    <3>2. CASE e.resolved /\ ~HasRecovery(id)
      <4>1. Outage(id)[2] # StillOpen /\ Outage(id)[3]
        BY <1>3, <3>2 DEF HasRecovery
      <4>2. ~(b < WindowStart)
        BY <1>3, <1>4, <3>2
      <4>3. EndOf(id) = ReportTime
        BY <2>1, <2>2, <4>1, <4>2 DEF EndOf
      <4>4. Clip(e).end = till
        BY <1>2, <1>3, <3>2
      <4> QED BY <2>2, <4>3, <4>4 DEF Lesser
    <3>3. CASE ~e.resolved
      <4>1. Outage(id)[2] \in {StillOpen, ReportTime}
        BY <1>3, <3>3
      <4>2. EndOf(id) = ReportTime
        BY <4>1 DEF EndOf
      <4>3. Clip(e).end = till
        BY <1>2, <3>3
      <4> QED BY <2>2, <4>2, <4>3 DEF Lesser
    <3> QED BY <1>3, <3>1, <3>2, <3>3
  <2>5. Clip(e).start = Greater(b, WindowStart)
    BY <1>2, <2>1
  <2>6. EndOf(id) \in Nat
    BY <2>1, InWindowIs
  <2> HIDE DEF b, id
  <2>7. Greater(b, WindowStart) \in Int /\ b <= Greater(b, WindowStart)
        /\ Lesser(EndOf(id), till) \in Int /\ Lesser(EndOf(id), till) <= till
    BY <2>1, <2>2, <2>6 DEF Greater, Lesser
  <2>8. InWindow(id) = Clip(e).start..Clip(e).end - 1
    BY <2>3, <2>4, <2>5
  <2> QED BY <2>1, <2>4, <2>5, <2>7, <2>8 DEF id
<1>5. ASSUME NEW i \in IncidentsOf(events) PROVE \E e \in events : i = Clip(e) /\ i.id = e.id /\ ~left(e)
  BY <1>1, <1>2
<1>6. ASSUME NEW i \in IncidentsOf(events) PROVE Tells(i)
  <2>1. PICK e \in events : i = Clip(e) /\ ~left(e)
    BY <1>5
  <2>2. i.end > i.start
    BY <1>1
  <2>3. i.id = e.id /\ i.began = e.clock /\ i.resolved = e.resolved
    BY <1>2, <2>1
  <2>4. /\ i.start \in Int /\ i.end \in Int /\ e.clock <= i.start /\ i.end <= till
        /\ InWindow(e.id) = i.start..i.end - 1
    BY <1>4, <2>1
  <2>5. ~e.resolved => i.end = till
    BY <1>2, <2>1
  <2> HIDE DEF left
  <2> QED BY <1>3, <2>2, <2>3, <2>4, <2>5 DEF Tells
<1>7. OnceEach(IncidentsOf(events))
  <2> SUFFICES ASSUME NEW i \in IncidentsOf(events), NEW j \in IncidentsOf(events), i.id = j.id
               PROVE  i = j
    BY DEF OnceEach
  <2>1. PICK e \in events : i = Clip(e) /\ i.id = e.id
    BY <1>5
  <2>2. PICK f \in events : j = Clip(f) /\ j.id = f.id
    BY <1>5
  <2> QED BY <2>1, <2>2 DEF OnceEach
<1>8. ASSUME NEW e \in events, InWindow(e.id) # {}, ~(Outage(e.id)[1] < WindowStart /\ Outage(e.id)[3])
      PROVE  \E i \in IncidentsOf(events) : i.id = e.id
  <2>1. ~left(e)
    <3>1. ASSUME left(e) PROVE FALSE
      <4>1. Outage(e.id)[1] < WindowStart /\ Outage(e.id)[2] # StillOpen /\ ~HasRecovery(e.id)
        BY <1>3, <3>1
      <4>2. Outage(e.id)[3]
        BY <4>1 DEF HasRecovery
      <4> QED BY <1>8, <4>1, <4>2
    <3> QED BY <3>1
  <2>2. Clip(e).start \in Int /\ Clip(e).end \in Int /\ InWindow(e.id) = Clip(e).start..Clip(e).end - 1
    BY <1>4, <2>1
  <2>3. Clip(e).end > Clip(e).start
    BY <1>8, <2>2
  <2>4. Clip(e) \in IncidentsOf(events)
    BY <1>1, <2>1, <2>3
  <2> QED BY <1>2, <2>4
<1> HIDE DEF left
<1> QED BY <1>6, <1>7, <1>8

-----------------------------------------------------------------------------
(* The figures.                                                            *)

LEMMA FinitelyMany ==
  ASSUME World
  PROVE  IsFiniteSet(Ids)
<1> DEFINE ofTrigger(t) == {<<t, n>> : n \in 1..Len(outages[t])}
           each == {ofTrigger(t) : t \in Trigger}
           f == [t \in Trigger |-> ofTrigger(t)]
<1>1. ASSUME NEW t \in Trigger PROVE IsFiniteSet(ofTrigger(t))
  <2> DEFINE g == [n \in 1..Len(outages[t]) |-> <<t, n>>]
  <2>1. g \in Surjection(1..Len(outages[t]), ofTrigger(t))
    BY DEF Surjection
  <2>2. IsFiniteSet(1..Len(outages[t]))
    <3>1. Len(outages[t]) \in Int
      BY DEF World
    <3> QED BY <3>1, FS_Interval
  <2> HIDE DEF g, ofTrigger
  <2> QED BY <2>1, <2>2, FS_Surjection
<1>2. f \in Surjection(Trigger, each)
  BY DEF Surjection
<1>3. IsFiniteSet(Trigger)
  BY IncidentAssumption
<1>4. \A T \in each : IsFiniteSet(T)
  BY <1>1
<1>5. Ids = UNION each
  BY DEF Ids
<1> HIDE DEF f, each
<1>6. IsFiniteSet(each)
  BY <1>2, <1>3, FS_Surjection
<1> QED BY <1>4, <1>5, <1>6, FS_UNION

\* Of records, one of each, there are as many as ids.
LEMMA AsManyIds ==
  ASSUME NEW records, OnceEach(records), NEW ids, ids = {e.id : e \in records}, IsFiniteSet(ids)
  PROVE  IsFiniteSet(records) /\ Cardinality(records) = Cardinality(ids)
<1> DEFINE f == [e \in records |-> e.id]
<1>1. f \in [records -> ids] /\ \A a, b \in records : f[a] = f[b] => a = b
  BY DEF OnceEach
<1>2. \A i \in ids : \E e \in records : f[e] = i
  OBVIOUS
<1>3. DOMAIN f = records
  OBVIOUS
<1> HIDE DEF f
<1>4. f \in Injection(records, ids)
  BY <1>1, <1>3 DEF Injection, IsInjective
<1>5. f \in Surjection(records, ids)
  BY <1>1, <1>2 DEF Surjection
<1> QED BY <1>4, <1>5, FS_Injection

\* What is left of an incident where the window is measured.
LEMMA KeptIs ==
  ASSUME World, NEW i, Tells(i)
  PROVE  /\ Kept(i) \in Intervals /\ Seconds(Kept(i)) = InWindow(i.id) \ Ignored
         /\ Kept(i) # <<>> <=> InWindow(i.id) \ Ignored # {}
<1>1. /\ NotMeasured \in Intervals /\ WindowStart \in Int /\ till \in Int /\ WindowStart <= till
  BY IncidentAssumption, TimesAre DEF World, Intervals
<1> DEFINE holes == Merged(Clipped(NotMeasured, WindowStart, till))
<1>2. holes \in Intervals /\ Seconds(holes) = Seconds(NotMeasured) \cap (WindowStart..till - 1)
  BY <1>1, ClippedToWindow, MergedStayApart
<1>3. OutsideNotMeasured = Complement(holes, WindowStart, till)
  BY DEF OutsideNotMeasured
<1> HIDE DEF holes
<1>4. /\ OutsideNotMeasured \in Intervals
      /\ Seconds(OutsideNotMeasured) = (WindowStart..till - 1) \ Seconds(holes)
  BY <1>1, <1>2, <1>3, ComplementIsExact
<1>5. i.start \in Int /\ i.end \in Int /\ InWindow(i.id) = i.start..i.end - 1 /\ i.id \in Ids
  BY DEF Tells, Severe
<1>6. /\ <<<<i.start, i.end>>>> \in Intervals
      /\ Seconds(<<<<i.start, i.end>>>>) = InWindow(i.id)
  BY <1>5, OneSpan
<1>7. /\ Apart(Kept(i)) /\ Kept(i) \in Intervals
      /\ Seconds(Kept(i)) = InWindow(i.id) \cap Seconds(OutsideNotMeasured)
  BY <1>4, <1>6, IntersectionIsExact DEF Kept
<1>8. InWindow(i.id) \subseteq WindowStart..till - 1
  BY <1>5, InWindowIs
<1>9. Seconds(Kept(i)) = InWindow(i.id) \ Ignored
  BY <1>2, <1>4, <1>7, <1>8 DEF Ignored
<1> QED BY <1>7, <1>9, NotEmpty

\* Incidents that are what they tell, one of an outage.
Honest(incidents) == OnceEach(incidents) /\ \A i \in incidents : Tells(i)
Counted(incidents) == {i.id : i \in incidents}

LEMMA HonestAreFinite ==
  ASSUME World, NEW incidents, Honest(incidents)
  PROVE  IsFiniteSet(incidents) /\ IsFiniteSet(Counted(incidents)) /\ Counted(incidents) \subseteq Severe
<1>1. Counted(incidents) \subseteq Severe
  BY DEF Honest, Tells, Counted
<1>2. IsFiniteSet(Counted(incidents))
  BY <1>1, FinitelyMany, FS_Subset DEF Severe
<1>3. IsFiniteSet(incidents)
  BY <1>2, AsManyIds DEF Honest, Counted
<1> QED BY <1>1, <1>2, <1>3

\* getAvailability, of the outages it was given.
LEMMA HostRowIs ==
  ASSUME World, NEW incidents, Honest(incidents), NEW h
  PROVE  LET row == HostRow(h, incidents)
             ids == Counted(incidents)
             down == SecondsDown(h, ids)
         IN /\ IsFiniteSet(down) /\ row.downtime = Cardinality(down)
            /\ row.incidents = Cardinality({id \in ids : hostOf[id[1]] = h /\ InWindow(id) \ Ignored # {}})
            /\ \A a, b \in down : a..b \subseteq down => b - a + 1 <= row.longest
            /\ row.longest # 0 => \E a \in down : a..a + row.longest - 1 \subseteq down
<1> DEFINE row == HostRow(h, incidents)
           ids == Counted(incidents)
           down == SecondsDown(h, ids)
           mine == {i \in incidents : hostOf[i.id[1]] = h /\ Kept(i) # <<>>}
           N == Cardinality(mine)
           lists == [n \in 1..N |-> Kept(SetToSeq(mine)[n])]
           all == FlattenSeq(lists)
           spans == Merged(all)
<1>1. row.downtime = TotalSeconds(spans) /\ row.incidents = N /\ row.longest = Longest(spans)
  BY DEF HostRow
<1> HIDE DEF row
<1>2. IsFiniteSet(incidents) /\ IsFiniteSet(ids) /\ ids \subseteq Severe
  BY HonestAreFinite
<1>3. \A i \in incidents : Tells(i)
  BY DEF Honest
<1>4. \A i \in incidents :
        /\ Kept(i) \in Intervals /\ Seconds(Kept(i)) = InWindow(i.id) \ Ignored
        /\ Kept(i) # <<>> <=> InWindow(i.id) \ Ignored # {}
  BY <1>3, KeptIs
<1>5. IsFiniteSet(mine)
  BY <1>2, FS_Subset
<1>6. /\ N \in Nat /\ \A n \in 1..N : SetToSeq(mine)[n] \in mine
      /\ \A i \in mine : \E n \in 1..N : SetToSeq(mine)[n] = i
  BY <1>5, Listing
<1>7. lists \in Seq(Intervals) /\ Len(lists) = N
  <2>1. \A n \in 1..N : Kept(SetToSeq(mine)[n]) \in Intervals
    BY <1>4, <1>6
  <2> HIDE DEF mine, N
  <2> QED BY <1>6, <2>1
<1>8. \A n \in 1..N : lists[n] = Kept(SetToSeq(mine)[n])
  OBVIOUS
<1>9. all \in Intervals /\ \A s : s \in Seconds(all) <=> \E n \in 1..N : s \in Seconds(lists[n])
  <2> HIDE DEF lists, N
  <2> QED BY <1>7, SecondsOfAll
<1>10. Seconds(all) = down
  <2>1. ASSUME NEW s, s \in Seconds(all) PROVE s \in down
    <3>1. PICK n \in 1..N : s \in Seconds(lists[n])
      BY <1>9, <2>1
    <3>2. PICK i \in mine : i = SetToSeq(mine)[n]
      BY <1>6
    <3>3. s \in InWindow(i.id) \ Ignored /\ hostOf[i.id[1]] = h /\ i.id \in ids
      BY <1>4, <1>8, <3>1, <3>2 DEF Counted
    <3> QED BY <3>3 DEF SecondsDown
  <2>2. ASSUME NEW s \in down PROVE s \in Seconds(all)
    <3>1. PICK id \in ids : hostOf[id[1]] = h /\ s \in InWindow(id) /\ s \notin Ignored
      BY DEF SecondsDown
    <3>2. PICK i \in incidents : i.id = id
      BY DEF Counted
    <3>3. i \in mine /\ s \in Seconds(Kept(i))
      BY <1>4, <3>1, <3>2
    <3>4. PICK n \in 1..N : SetToSeq(mine)[n] = i
      BY <1>6, <3>3
    <3> QED BY <1>8, <1>9, <3>3, <3>4
  <2> QED BY <2>1, <2>2
<1>11. row.incidents = Cardinality({id \in ids : hostOf[id[1]] = h /\ InWindow(id) \ Ignored # {}})
  <2> DEFINE these == {id \in ids : hostOf[id[1]] = h /\ InWindow(id) \ Ignored # {}}
  <2>1. these = {i.id : i \in mine}
    <3>1. ASSUME NEW id \in these PROVE id \in {i.id : i \in mine}
      <4>1. PICK i \in incidents : i.id = id
        BY DEF Counted
      <4>2. i \in mine
        BY <1>4, <4>1
      <4> QED BY <4>1, <4>2
    <3>2. ASSUME NEW i \in mine PROVE i.id \in these
      BY <1>4 DEF Counted
    <3> QED BY <3>1, <3>2
  <2>2. IsFiniteSet(these)
    BY <1>2, FS_Subset
  <2>3. OnceEach(mine)
    BY DEF Honest, OnceEach
  <2> HIDE DEF these, mine
  <2>4. Cardinality(mine) = Cardinality(these)
    BY <2>1, <2>2, <2>3, AsManyIds
  <2> QED BY <1>1, <2>4 DEF these
<1> HIDE DEF all, lists, mine, N, ids
<1>12. /\ Apart(spans) /\ spans \in Intervals /\ Seconds(spans) = down
  BY <1>9, <1>10, MergedStayApart
<1> HIDE DEF spans
<1>13. IsFiniteSet(down) /\ row.downtime = Cardinality(down)
  BY <1>1, <1>12, TotalIsCount
<1> HIDE DEF down
<1>14. down \subseteq Int
  BY <1>12, IntervalFacts
<1>15. ASSUME NEW a \in down, NEW b \in down, a..b \subseteq down PROVE b - a + 1 <= row.longest
  <2>1. a \in Int /\ b \in Int
    BY <1>14
  <2> QED BY <1>1, <1>12, <1>15, <2>1, NoRunIsLonger
<1>16. ASSUME row.longest # 0 PROVE \E a \in down : a..a + row.longest - 1 \subseteq down
  <2>1. PICK n \in 1..Len(spans) : row.longest = spans[n][2] - spans[n][1]
    BY <1>1, <1>12, <1>16, LongestIs
  <2>2. spans[n][1] \in Int /\ spans[n][2] \in Int /\ spans[n][1] < spans[n][2]
    BY <1>12, IntervalFacts DEF Apart
  <2>3. \A s \in Int : spans[n][1] <= s /\ s < spans[n][2] => s \in down
    BY <1>12, IntervalFacts
  <2>4. spans[n][1] + row.longest - 1 = spans[n][2] - 1
    BY <2>1, <2>2
  <2>5. spans[n][1] \in down /\ spans[n][1]..spans[n][2] - 1 \subseteq down
    BY <2>2, <2>3
  <2> QED BY <2>4, <2>5
<1> QED BY <1>11, <1>13, <1>15, <1>16 DEF row, down, ids

SecondsEach(ids) == UNION {{id} \X InWindow(id) : id \in ids}

LEMMA SecondsOfOne ==
  ASSUME World, NEW i, Tells(i)
  PROVE  /\ IsFiniteSet({i.id} \X InWindow(i.id))
         /\ Cardinality({i.id} \X InWindow(i.id)) = i.end - i.start
<1>1. i.start \in Int /\ i.end \in Int /\ i.start < i.end /\ InWindow(i.id) = i.start..i.end - 1
  BY DEF Tells
<1>2. IsFiniteSet(InWindow(i.id)) /\ Cardinality(InWindow(i.id)) = i.end - i.start
  <2>1. i.end - 1 \in Int
    BY <1>1
  <2>2. IsFiniteSet(i.start..i.end - 1)
        /\ Cardinality(i.start..i.end - 1) = IF i.start > i.end - 1 THEN 0 ELSE (i.end - 1) - i.start + 1
    BY <1>1, <2>1, FS_Interval
  <2> QED BY <1>1, <2>2
<1>3. IsFiniteSet({i.id}) /\ Cardinality({i.id}) = 1
  BY FS_Singleton
<1>4. IsFiniteSet({i.id} \X InWindow(i.id))
      /\ Cardinality({i.id} \X InWindow(i.id)) = Cardinality({i.id}) * Cardinality(InWindow(i.id))
  BY <1>2, <1>3, FS_Product
<1> QED BY <1>1, <1>2, <1>3, <1>4

\* Durations, added up, are the seconds of each.
LEMMA DurationsAddUp ==
  ASSUME World, NEW mine, Honest(mine)
  PROVE  FoldLeft(Longer, 0, [n \in 1..Cardinality(mine) |-> <<SetToSeq(mine)[n].start, SetToSeq(mine)[n].end>>])
           = Cardinality(SecondsEach(Counted(mine)))
<1> DEFINE N == Cardinality(mine)
           at == SetToSeq(mine)
           spans == [n \in 1..N |-> <<at[n].start, at[n].end>>]
           own(n) == {at[n].id} \X InWindow(at[n].id)
           upTo(n) == UNION {own(m) : m \in 1..n}
<1>1. IsFiniteSet(mine) /\ OnceEach(mine) /\ \A i \in mine : Tells(i)
  BY HonestAreFinite DEF Honest
<1>2. /\ N \in Nat /\ \A n \in 1..N : at[n] \in mine
      /\ \A m, n \in 1..N : at[m] = at[n] => m = n
      /\ \A i \in mine : \E n \in 1..N : at[n] = i
  BY <1>1, Listing
<1> HIDE DEF N, at
<1>3. ASSUME NEW n \in 1..N
      PROVE  /\ at[n].start \in Int /\ at[n].end \in Int
             /\ IsFiniteSet(own(n)) /\ Cardinality(own(n)) = at[n].end - at[n].start
  <2>1. Tells(at[n])
    BY <1>1, <1>2
  <2> QED BY <2>1, SecondsOfOne DEF Tells
<1>4. /\ spans \in Seq(Int \X Int) /\ Len(spans) = N
      /\ \A n \in 1..N : spans[n][1] = at[n].start /\ spans[n][2] = at[n].end
  <2>1. \A n \in 1..N : <<at[n].start, at[n].end>> \in Int \X Int
    BY <1>3
  <2> QED BY <1>2, <2>1
<1> HIDE DEF spans
<1>5. PICK run : /\ run[0] = 0
                 /\ \A n \in 1..N : run[n] = Longer(run[n - 1], spans[n])
                 /\ FoldLeft(Longer, 0, spans) = run[N]
  <2>1. 0 \in Int /\ spans \in Seq(Int \X Int)
    BY <1>4
  <2>2. \E run : /\ run[0] = 0
                 /\ \A n \in 1..Len(spans) : run[n] = Longer(run[n - 1], spans[n])
                 /\ FoldLeft(Longer, 0, spans) = run[Len(spans)]
    BY <2>1, LongerRuns, Zenon
  <2>3. Len(spans) = N
    BY <1>4
  <2> QED BY <2>2, <2>3, Zenon
<1> DEFINE Fine == {n \in 0..N : IsFiniteSet(upTo(n)) /\ run[n] = Cardinality(upTo(n))}
<1>6. 0 \in Fine
  <2>1. upTo(0) = {}
    OBVIOUS
  <2>2. IsFiniteSet({}) /\ Cardinality({}) = 0
    BY FS_EmptySet
  <2> HIDE DEF upTo
  <2> QED BY <1>2, <1>5, <2>1, <2>2
<1>7. ASSUME NEW n \in 1..N, n - 1 \in Fine PROVE n \in Fine
  <2>1. IsFiniteSet(upTo(n - 1)) /\ run[n - 1] = Cardinality(upTo(n - 1))
    BY <1>7
  <2>2. \A m \in 1..n : m = n \/ m \in 1..(n - 1)
    BY <1>2
  <2>3. n \in 1..n /\ \A m \in 1..(n - 1) : m \in 1..n /\ m \in 1..N /\ m # n
    BY <1>2
  <2> HIDE DEF own
  <2>4. upTo(n) = upTo(n - 1) \cup own(n)
    BY <2>2, <2>3
  <2>5. upTo(n - 1) \cap own(n) = {}
    <3>1. ASSUME NEW x, x \in upTo(n - 1), x \in own(n) PROVE FALSE
      <4>1. PICK m \in 1..(n - 1) : x \in own(m)
        BY <3>1
      <4>2. x[1] = at[m].id /\ x[1] = at[n].id
        BY <3>1, <4>1 DEF own
      <4>3. at[m] = at[n]
        <5>1. at[m] \in mine /\ at[n] \in mine
          BY <1>2, <2>3
        <5>2. at[m].id = at[n].id
          BY <4>2
        <5> QED BY <1>1, <5>1, <5>2, Zenon DEF OnceEach
      <4> QED BY <1>2, <2>3, <4>3
    <3> QED BY <3>1
  <2> HIDE DEF upTo
  <2>6. IsFiniteSet(own(n)) /\ Cardinality(own(n)) = at[n].end - at[n].start
    BY <1>3
  <2>7. /\ IsFiniteSet(upTo(n))
        /\ Cardinality(upTo(n)) = Cardinality(upTo(n - 1)) + Cardinality(own(n)) - Cardinality({})
    BY <2>1, <2>4, <2>5, <2>6, FS_Union
  <2>8. Cardinality({}) = 0 /\ Cardinality(upTo(n - 1)) \in Nat
    BY <2>1, FS_EmptySet, FS_CardinalityType
  <2>9. run[n] = run[n - 1] + (at[n].end - at[n].start)
    BY <1>4, <1>5 DEF Longer
  <2>10. at[n].end - at[n].start \in Int
    BY <1>3
  <2>11. run[n] = Cardinality(upTo(n))
    BY <2>1, <2>6, <2>7, <2>8, <2>9, <2>10
  <2>12. n \in 0..N
    BY <1>2
  <2> QED BY <2>7, <2>11, <2>12
<1>8. N \in Fine
  <2> HIDE DEF Fine
  <2>1. \A n \in 0..N : n \in Fine
    BY <1>2, <1>6, <1>7, Onwards
  <2> QED BY <1>2, <2>1
<1>9. run[N] = Cardinality(upTo(N))
  BY <1>8
<1>10. upTo(N) = SecondsEach(Counted(mine))
  <2>1. ASSUME NEW x, x \in upTo(N) PROVE x \in SecondsEach(Counted(mine))
    <3>1. PICK n \in 1..N : x \in own(n)
      BY <2>1
    <3>2. at[n].id \in Counted(mine)
      BY <1>2 DEF Counted
    <3> QED BY <3>1, <3>2 DEF SecondsEach
  <2>2. ASSUME NEW x \in SecondsEach(Counted(mine)) PROVE x \in upTo(N)
    <3>1. PICK id \in Counted(mine) : x \in {id} \X InWindow(id)
      BY DEF SecondsEach
    <3>2. PICK i \in mine : i.id = id
      BY DEF Counted
    <3>3. PICK n \in 1..N : at[n] = i
      BY <1>2
    <3> QED BY <3>1, <3>2, <3>3
  <2> QED BY <2>1, <2>2
<1> HIDE DEF upTo
<1>11. FoldLeft(Longer, 0, spans) = Cardinality(SecondsEach(Counted(mine)))
  BY <1>5, <1>9, <1>10
<1> QED BY <1>11 DEF spans, at, N

\* getNoise, of the outages it was given.
LEMMA TriggerRowIs ==
  ASSUME World, NEW incidents, Honest(incidents), NEW t
  PROVE  LET row == TriggerRow(t, incidents)
             ids == {id \in Counted(incidents) : id[1] = t}
         IN /\ row.count = Cardinality(ids) /\ row.total = Cardinality(SecondsEach(ids))
            /\ (\E i \in incidents : i.id[1] = t /\ ~i.resolved /\ i.end - i.began > Chronic) => row.chronic
            /\ row.chronic => /\ \E i \in incidents : i.id[1] = t /\ ~i.resolved
                              /\ \E i \in incidents : i.id[1] = t /\ till - i.began > Chronic
<1> DEFINE row == TriggerRow(t, incidents)
           ids == {id \in Counted(incidents) : id[1] = t}
           mine == {i \in incidents : i.id[1] = t}
           durations == {i.end - i.start : i \in mine}
           ages == {i.end - i.began : i \in {j \in mine : ~j.resolved}}
<1>1. /\ row.count = Cardinality(mine)
      /\ row.total = FoldLeft(Longer, 0, [n \in 1..Cardinality(mine) |-> <<SetToSeq(mine)[n].start, SetToSeq(mine)[n].end>>])
      /\ row.chronic = (ages # {} /\ \E d \in durations \cup ages : d > Chronic)
  BY DEF TriggerRow
<1> HIDE DEF row
<1>2. Honest(mine) /\ Counted(mine) = ids
  BY DEF Honest, OnceEach, Counted
<1>3. IsFiniteSet(ids)
  BY <1>2, HonestAreFinite
<1>4. row.count = Cardinality(ids)
  BY <1>1, <1>2, <1>3, AsManyIds DEF Honest, Counted
<1>5. row.total = Cardinality(SecondsEach(ids))
  <2> HIDE DEF mine, ids
  <2> QED BY <1>1, <1>2, DurationsAddUp
<1>6. (\E i \in incidents : i.id[1] = t /\ ~i.resolved /\ i.end - i.began > Chronic) => row.chronic
  <2> SUFFICES ASSUME NEW i \in incidents, i.id[1] = t, ~i.resolved, i.end - i.began > Chronic
               PROVE  row.chronic
    OBVIOUS
  <2>1. i.end - i.began \in ages
    OBVIOUS
  <2> HIDE DEF ages, durations
  <2> QED BY <1>1, <2>1
<1>7. ASSUME row.chronic
      PROVE  /\ \E i \in incidents : i.id[1] = t /\ ~i.resolved
             /\ \E i \in incidents : i.id[1] = t /\ till - i.began > Chronic
  <2>1. ages # {} /\ \E d \in durations \cup ages : d > Chronic
    BY <1>1, <1>7
  <2>2. \E i \in incidents : i.id[1] = t /\ ~i.resolved
    BY <2>1
  <2>3. PICK d \in durations \cup ages : d > Chronic
    BY <2>1
  <2>4. PICK i \in mine : d = i.end - i.start \/ d = i.end - i.began
    OBVIOUS
  <2>5. /\ i.start \in Int /\ i.end \in Int /\ i.began <= i.start /\ i.end <= till /\ i.began \in Int
        /\ till \in Int
    <3>1. Tells(i) /\ i.id \in Ids
      BY DEF Honest, Tells, Severe
    <3>2. Outage(i.id)[1] \in Nat
      BY <3>1, OutageFacts
    <3> QED BY <3>1, <3>2, TimesAre DEF Tells, World
  <2>6. Chronic \in Nat
    BY TimesAre
  <2>7. till - i.began > Chronic
    BY <2>3, <2>4, <2>5, <2>6
  <2>8. i \in incidents /\ i.id[1] = t
    BY <2>4
  <2> QED BY <2>2, <2>7, <2>8
<1> QED BY <1>4, <1>5, <1>6, <1>7 DEF row

-----------------------------------------------------------------------------
(* The report.                                                             *)

\* Of a part of the seconds, and of no more than there are.
LEMMA SecondsDownGrow ==
  ASSUME World, NEW h, NEW ids, ids \subseteq Severe, NEW more, more \subseteq Severe, ids \subseteq more
  PROVE  /\ IsFiniteSet(SecondsDown(h, more)) /\ SecondsDown(h, ids) \subseteq SecondsDown(h, more)
         /\ Cardinality(SecondsDown(h, ids)) <= Cardinality(SecondsDown(h, more))
         /\ Cardinality(SecondsDown(h, ids)) \in Nat
<1>1. SecondsDown(h, more) \subseteq WindowStart..till - 1
  <2>1. ASSUME NEW id \in more PROVE InWindow(id) \subseteq WindowStart..till - 1
    BY InWindowIs DEF Severe
  <2> QED BY <2>1 DEF SecondsDown
<1>2. IsFiniteSet(WindowStart..till - 1)
  <2>1. WindowStart \in Int /\ till - 1 \in Int
    BY TimesAre DEF World
  <2> QED BY <2>1, FS_Interval
<1>3. IsFiniteSet(SecondsDown(h, more))
  BY <1>1, <1>2, FS_Subset
<1>4. SecondsDown(h, ids) \subseteq SecondsDown(h, more)
  BY DEF SecondsDown
<1>5. IsFiniteSet(SecondsDown(h, ids)) /\ Cardinality(SecondsDown(h, ids)) <= Cardinality(SecondsDown(h, more))
  BY <1>3, <1>4, FS_Subset
<1> QED BY <1>3, <1>4, <1>5, FS_CardinalityType

\* A report of incidents that are honest, and of none less than it is sure of.
Reported(r, incidents) ==
  /\ Honest(incidents)
  /\ \A id \in Sure(r) : InWindow(id) # {} => id \in Counted(incidents)

LEMMA HostsAreExact ==
  ASSUME World, NEW r, NEW incidents, Reported(r, incidents), NEW h, r.hosts[h] = HostRow(h, incidents)
  PROVE  HostExact(r, h)
<1> DEFINE row == HostRow(h, incidents)
           ids == Counted(incidents)
           down == SecondsDown(h, ids)
           all == SecondsDown(h, Severe)
<1>1. Honest(incidents) /\ ids \subseteq Severe
  BY HonestAreFinite DEF Reported
<1>2. /\ IsFiniteSet(down) /\ row.downtime = Cardinality(down)
      /\ row.incidents = Cardinality({id \in ids : hostOf[id[1]] = h /\ InWindow(id) \ Ignored # {}})
      /\ \A a, b \in down : a..b \subseteq down => b - a + 1 <= row.longest
      /\ row.longest # 0 => \E a \in down : a..a + row.longest - 1 \subseteq down
  BY <1>1, HostRowIs
<1> HIDE DEF row
<1>3. Sure(r) \subseteq Severe
  BY DEF Sure
<1>4. \A id \in Sure(r) : InWindow(id) # {} => id \in ids
  BY DEF Reported
<1> HIDE DEF ids
<1>5. row.downtime <= Cardinality(all)
  BY <1>1, <1>2, SecondsDownGrow
<1>6. Cardinality(SecondsDown(h, Sure(r))) <= row.downtime
  <2>1. SecondsDown(h, Sure(r)) \subseteq down
    BY <1>4 DEF SecondsDown
  <2>2. Cardinality(SecondsDown(h, Sure(r))) <= Cardinality(down)
    BY <1>2, <2>1, FS_Subset
  <2> QED BY <1>2, <2>2
<1>7. ASSUME Sure(r) = Severe
      PROVE  /\ row.incidents = Cardinality({id \in Severe : hostOf[id[1]] = h /\ InWindow(id) \ Ignored # {}})
             /\ \A a, b \in all : a..b \subseteq all => b - a + 1 <= row.longest
             /\ row.longest # 0 => \E a \in all : a..a + row.longest - 1 \subseteq all
  <2>1. down = all
    BY <1>1, <1>4, <1>7 DEF SecondsDown
  <2>2. {id \in ids : hostOf[id[1]] = h /\ InWindow(id) \ Ignored # {}}
          = {id \in Severe : hostOf[id[1]] = h /\ InWindow(id) \ Ignored # {}}
    BY <1>1, <1>4, <1>7
  <2> HIDE DEF down, all
  <2> QED BY <1>2, <2>1, <2>2
<1> QED BY <1>5, <1>6, <1>7 DEF HostExact, row

LEMMA TriggersAreExact ==
  ASSUME World, NEW r, r.truncated \in BOOLEAN, NEW incidents, Reported(r, incidents),
         NEW t, r.noise[t] = TriggerRow(t, incidents)
  PROVE  TriggerExact(r, t)
<1> DEFINE row == TriggerRow(t, incidents)
           ids == {id \in Counted(incidents) : id[1] = t}
           mine == {id \in Severe : id[1] = t}
           past(id) == till - Outage(id)[1] > Chronic
<1>1. Honest(incidents) /\ Counted(incidents) \subseteq Severe /\ \A i \in incidents : Tells(i)
  BY HonestAreFinite DEF Reported, Honest
<1>2. /\ row.count = Cardinality(ids) /\ row.total = Cardinality(SecondsEach(ids))
      /\ (\E i \in incidents : i.id[1] = t /\ ~i.resolved /\ i.end - i.began > Chronic) => row.chronic
      /\ row.chronic => /\ \E i \in incidents : i.id[1] = t /\ ~i.resolved
                        /\ \E i \in incidents : i.id[1] = t /\ till - i.began > Chronic
  BY <1>1, TriggerRowIs
<1> HIDE DEF row
<1>3. \A id \in Sure(r) : InWindow(id) # {} => id \in Counted(incidents)
  BY DEF Reported
<1>4. \A id \in Counted(incidents) : InWindow(id) # {}
  <2>1. ASSUME NEW i \in incidents PROVE InWindow(i.id) # {}
    <3>1. i.start \in Int /\ i.end \in Int /\ i.start < i.end /\ InWindow(i.id) = i.start..i.end - 1
      BY <1>1 DEF Tells
    <3>2. i.start \in i.start..i.end - 1
      BY <3>1
    <3> QED BY <3>1, <3>2
  <2> QED BY <2>1 DEF Counted
<1>5. ASSUME mine \subseteq Sure(r)
      PROVE  /\ row.count = Cardinality({id \in mine : InWindow(id) # {}})
             /\ row.total = Cardinality(UNION {{id} \X InWindow(id) : id \in mine})
  <2>1. ids = {id \in mine : InWindow(id) # {}}
    BY <1>1, <1>3, <1>4, <1>5
  <2>2. SecondsEach(ids) = UNION {{id} \X InWindow(id) : id \in mine}
    BY <2>1 DEF SecondsEach
  <2> HIDE DEF ids, mine
  <2> QED BY <1>2, <2>1, <2>2
<1>6. ASSUME NEW id \in mine, Outage(id)[2] = StillOpen, past(id) PROVE row.chronic
  <2>1. /\ id \in Severe /\ id \in Ids /\ Outage(id)[1] \in Nat /\ ~Outage(id)[3] /\ id[1] = t
    BY <1>6, OutageFacts DEF Severe
  <2>2. till \in Nat /\ WindowStart \in Nat /\ WindowStart < till /\ till <= ReportTime /\ Chronic \in Nat
        /\ ReportTime \in Nat
    BY TimesAre DEF World
  <2>3. Outage(id)[1] < till
    BY <1>6, <2>1, <2>2
  <2>4. EndOf(id) = ReportTime
    BY <1>6 DEF EndOf
  <2>5. till - 1 \in InWindow(id)
    BY <2>1, <2>2, <2>3, <2>4 DEF InWindow
  <2>6. id \in Sure(r)
    <3>1. ~(StillOpen >= till) /\ StillOpen \notin WindowStart..till
      BY <2>2 DEF StillOpen
    <3>2. ~MayBeMissed(id) /\ ~EndedLong(id)
      BY <1>6, <2>1, <3>1 DEF MayBeMissed, EndedLong
    <3> QED BY <2>1, <3>2 DEF Sure
  <2>7. PICK i \in incidents : i.id = id
    BY <1>3, <2>5, <2>6 DEF Counted
  <2>8. ~i.resolved /\ i.end = till /\ i.began = Outage(id)[1]
    BY <1>1, <1>6, <2>7 DEF Tells
  <2> QED BY <1>2, <1>6, <2>1, <2>7, <2>8
<1>7. ASSUME row.chronic
      PROVE  /\ \E id \in mine : Outage(id)[2] \in {StillOpen, ReportTime}
             /\ \E id \in mine : past(id)
  <2>1. PICK i \in incidents : i.id[1] = t /\ ~i.resolved
    BY <1>2, <1>7
  <2>2. PICK j \in incidents : j.id[1] = t /\ till - j.began > Chronic
    BY <1>2, <1>7
  <2>3. i.id \in mine /\ Outage(i.id)[2] \in {StillOpen, ReportTime}
    BY <1>1, <2>1 DEF Tells
  <2>4. j.id \in mine /\ past(j.id)
    BY <1>1, <2>2 DEF Tells
  <2> QED BY <2>3, <2>4
<1> QED BY <1>5, <1>6, <1>7 DEF TriggerExact, row

\* A report is a floor when more is left to look up than may be.
LEMMA FloorIsExplained ==
  ASSUME World, AnswersHold, AllRead, NEW r, NEW looked, looked \subseteq Wanted(Gathered),
         Cardinality(looked) = Lesser(Lookups, Cardinality(Wanted(Gathered))),
         r.truncated = (looked # Wanted(Gathered))
  PROVE  FloorExplained(r)
<1> DEFINE sought == Wanted(Gathered)
           ids == {q.id : q \in sought}
           long == {id \in Severe : EndedLong(id) \/ Outage(id)[2] = ReportTime}
<1>1. ASSUME NEW q \in sought PROVE q.id \in long
  <2>1. /\ q \in Answer("recoveries") /\ \A e \in Gathered : ~(e.resolved /\ e.id = q.id)
    BY DEF Wanted, FirstOfTrigger
  <2>2. q.id \in Severe
    BY LookupIsFaithful
  <2>3. q.id \in Ids /\ q.clock = Outage(q.id)[2] /\ q.clock \in WindowStart..till /\ HasRecovery(q.id)
    BY <2>1 DEF AllRead, AnswersHold, ReadNames, RecoveriesTold, Recovered
  <2>4. CASE Outage(q.id)[2] # ReportTime
    <3>1. Outage(q.id)[1] \in Nat /\ Outage(q.id)[2] \in Nat /\ Outage(q.id)[1] <= Outage(q.id)[2]
          /\ Outage(q.id)[2] <= ReportTime
      BY <2>3, OutageFacts DEF HasRecovery
    <3>2. till \in Nat /\ till <= ReportTime /\ ReportTime \in Nat /\ WindowStart \in Nat /\ LookFrom \in Nat
      BY TimesAre DEF World
    <3>3. ASSUME LookFrom <= Outage(q.id)[1] PROVE FALSE
      <4>1. Outage(q.id)[1] <= till /\ Outage(q.id)[1] < ReportTime
        BY <2>3, <2>4, <3>1, <3>2
      <4>2. PICK e \in Gathered : e.id = q.id
        BY <2>2, <3>3, <4>1, GatheredHolds
      <4>3. e.resolved \in BOOLEAN /\ (~e.resolved => Outage(e.id)[2] \in {StillOpen, ReportTime})
        BY GatheredHolds DEF Faithful
      <4>4. e.resolved
        BY <2>3, <2>4, <4>2, <4>3 DEF HasRecovery
      <4> QED BY <2>1, <4>2, <4>4
    <3>4. Outage(q.id)[1] < LookFrom
      BY <3>1, <3>2, <3>3
    <3>5. Outage(q.id)[2] \in WindowStart..till
      BY <2>3
    <3> QED BY <2>2, <3>4, <3>5 DEF EndedLong
  <2>5. CASE Outage(q.id)[2] = ReportTime
    BY <2>2, <2>5
  <2> QED BY <2>4, <2>5
<1>2. OnceEach(sought)
  <2> SUFFICES ASSUME NEW p \in sought, NEW q \in sought, p.id = q.id PROVE p = q
    BY DEF OnceEach
  <2>1. p \in Answer("recoveries") /\ q \in Answer("recoveries")
    BY DEF Wanted, FirstOfTrigger
  <2>2. /\ p = [id |-> p.id, clock |-> p.clock] /\ q = [id |-> q.id, clock |-> q.clock]
        /\ p.clock = Outage(p.id)[2] /\ q.clock = Outage(q.id)[2]
    BY <2>1 DEF AllRead, AnswersHold, ReadNames, RecoveriesTold, Recovered
  <2>3. p.clock = q.clock
    BY <2>2
  <2> QED BY <2>2, <2>3
<1>3. ids \subseteq long /\ IsFiniteSet(long)
  <2>1. long \in SUBSET Ids
    BY DEF Severe
  <2> HIDE DEF sought, long
  <2> QED BY <1>1, <2>1, FinitelyMany, FS_Subset
<1> HIDE DEF long
<1>4. IsFiniteSet(ids) /\ Cardinality(ids) <= Cardinality(long) /\ Cardinality(long) \in Nat
  BY <1>3, FS_Subset, FS_CardinalityType
<1>5. IsFiniteSet(sought) /\ Cardinality(sought) = Cardinality(ids)
  <2> HIDE DEF sought
  <2> QED BY <1>2, <1>4, AsManyIds
<1> HIDE DEF ids
<1>6. ASSUME r.truncated PROVE Cardinality(long) > Lookups
  <2>1. looked # sought /\ looked \subseteq sought
    BY <1>6
  <2>2. Cardinality(looked) # Cardinality(sought) /\ Cardinality(sought) \in Nat /\ Lookups \in Nat
    <3> HIDE DEF sought
    <3> QED BY <1>5, <2>1, FS_Subset, FS_CardinalityType, TimesAre
  <2>3. Cardinality(sought) > Lookups
    BY <2>2 DEF Lesser
  <2> QED BY <1>4, <1>5, <2>2, <2>3
<1> QED BY <1>6 DEF FloorExplained, long

\* What is right of a report is so of what has happened, and that stays.
LEMMA WhatHappenedStays ==
  ASSUME UNCHANGED <<outages, hostOf, severe, till>>
  PROVE  /\ Severe' = Severe /\ till' = till /\ hostOf' = hostOf
         /\ \A id : /\ Outage(id)' = Outage(id) /\ InWindow(id)' = InWindow(id)
                    /\ MayBeMissed(id)' = MayBeMissed(id) /\ EndedLong(id)' = EndedLong(id)
<1>1. \A id : Outage(id)' = Outage(id)
  BY DEF Outage
<1>2. Severe' = Severe
  BY DEF Severe, Ids
<1>3. \A id : InWindow(id)' = InWindow(id)
  BY <1>1 DEF InWindow, EndOf
<1>4. \A id : MayBeMissed(id)' = MayBeMissed(id)
  BY <1>1 DEF MayBeMissed, LookFrom
<1>5. \A id : EndedLong(id)' = EndedLong(id)
  BY <1>1 DEF EndedLong, LookFrom
<1> QED BY <1>1, <1>2, <1>3, <1>4, <1>5

LEMMA ExactStays ==
  ASSUME UNCHANGED <<outages, hostOf, severe, till>>, NEW r, report'[1] = r,
         FloorExplained(r), \A h \in OnHost : HostExact(r, h), \A t \in Trigger : TriggerExact(r, t)
  PROVE  ReportsExact'
<1>1. /\ Severe' = Severe /\ till' = till /\ hostOf' = hostOf
      /\ \A id : /\ Outage(id)' = Outage(id) /\ InWindow(id)' = InWindow(id)
                 /\ MayBeMissed(id)' = MayBeMissed(id) /\ EndedLong(id)' = EndedLong(id)
  BY WhatHappenedStays
<1>2. report'[1] = r
  OBVIOUS
<1>3. Sure(report[1])' = Sure(r)
  BY <1>1, <1>2 DEF Sure
<1>4. FloorExplained(report[1])'
  BY <1>1, <1>2 DEF FloorExplained
<1>5. \A h, ids : SecondsDown(h, ids)' = SecondsDown(h, ids)
  BY <1>1 DEF SecondsDown
<1>6. ASSUME NEW h \in OnHost PROVE HostExact(report[1], h)'
  <2>1. HostExact(r, h)
    OBVIOUS
  <2>2. SecondsDown(h, Severe)' = SecondsDown(h, Severe) /\ SecondsDown(h, Sure(report[1]))' = SecondsDown(h, Sure(r))
    BY <1>1, <1>3 DEF SecondsDown
  <2>3. {id \in Severe : hostOf[id[1]] = h /\ InWindow(id) \ Ignored # {}}'
          = {id \in Severe : hostOf[id[1]] = h /\ InWindow(id) \ Ignored # {}}
    BY <1>1
  <2>4. (report[1].hosts[h])' = r.hosts[h]
    BY <1>2
  <2>5. (Sure(report[1]) = Severe)' <=> Sure(r) = Severe
    BY <1>1, <1>3
  <2>6. (Cardinality(SecondsDown(h, Sure(report[1]))) <= report[1].hosts[h].downtime)'
    BY <2>1, <2>2, <2>4 DEF HostExact
  <2>7. (report[1].hosts[h].downtime <= Cardinality(SecondsDown(h, Severe)))'
    BY <2>1, <2>2, <2>4 DEF HostExact
  <2>8. ASSUME Sure(r) = Severe
        PROVE  (report[1].hosts[h].incidents
                  = Cardinality({id \in Severe : hostOf[id[1]] = h /\ InWindow(id) \ Ignored # {}}))'
    BY <2>1, <2>3, <2>4, <2>8 DEF HostExact
  <2>9. ASSUME Sure(r) = Severe
        PROVE  (\A a, b \in SecondsDown(h, Severe) :
                  a..b \subseteq SecondsDown(h, Severe) => b - a + 1 <= report[1].hosts[h].longest)'
    BY <2>1, <2>2, <2>4, <2>9 DEF HostExact
  <2>10. ASSUME Sure(r) = Severe
         PROVE  (report[1].hosts[h].longest # 0 =>
                   \E a \in SecondsDown(h, Severe) :
                     a..a + report[1].hosts[h].longest - 1 \subseteq SecondsDown(h, Severe))'
    BY <2>1, <2>2, <2>4, <2>10 DEF HostExact
  <2> QED BY <2>5, <2>6, <2>7, <2>8, <2>9, <2>10 DEF HostExact
<1>7. ASSUME NEW t \in Trigger PROVE TriggerExact(report[1], t)'
  <2>1. TriggerExact(r, t)
    OBVIOUS
  <2>2. {id \in Severe : id[1] = t}' = {id \in Severe : id[1] = t}
    BY <1>1
  <2>3. {id \in {id \in Severe : id[1] = t} : InWindow(id) # {}}' = {id \in {id \in Severe : id[1] = t} : InWindow(id) # {}}
        /\ (UNION {{id} \X InWindow(id) : id \in {id \in Severe : id[1] = t}})' = UNION {{id} \X InWindow(id) : id \in {id \in Severe : id[1] = t}}
    BY <1>1
  <2>4. (report[1].noise[t])' = r.noise[t]
    BY <1>2
  <2>5. ({id \in Severe : id[1] = t} \subseteq Sure(report[1]))' <=> {id \in Severe : id[1] = t} \subseteq Sure(r)
    BY <1>3, <2>2
  <2>6. ASSUME {id \in Severe : id[1] = t} \subseteq Sure(r)
        PROVE  (report[1].noise[t].count
                  = Cardinality({id \in {id \in Severe : id[1] = t} : InWindow(id) # {}}))'
    BY <2>1, <2>3, <2>4, <2>6 DEF TriggerExact
  <2>7. ASSUME {id \in Severe : id[1] = t} \subseteq Sure(r)
        PROVE  (report[1].noise[t].total
                  = Cardinality(UNION {{id} \X InWindow(id) : id \in {id \in Severe : id[1] = t}}))'
    BY <2>1, <2>3, <2>4, <2>7 DEF TriggerExact
  <2>8. ((\E id \in {id \in Severe : id[1] = t} : Outage(id)[2] = StillOpen /\ till - Outage(id)[1] > Chronic)
            => report[1].noise[t].chronic)'
    BY <1>1, <2>1, <2>2, <2>4 DEF TriggerExact
  <2>9. (report[1].noise[t].chronic =>
            \E id \in {id \in Severe : id[1] = t} : Outage(id)[2] \in {StillOpen, ReportTime})'
    BY <1>1, <2>1, <2>2, <2>4 DEF TriggerExact
  <2>10. (report[1].noise[t].chronic =>
             \E id \in {id \in Severe : id[1] = t} : till - Outage(id)[1] > Chronic)'
    BY <1>1, <2>1, <2>2, <2>4 DEF TriggerExact
  <2> QED BY <2>5, <2>6, <2>7, <2>8, <2>9, <2>10 DEF TriggerExact
<1> QED BY <1>4, <1>6, <1>7 DEF ReportsExact

\* A step that leaves all this alone leaves the answers so.
LEMMA NothingHappens ==
  ASSUME World, UNCHANGED <<outages, hostOf, severe, till>>
  PROVE  World' /\ GoesOn
<1>1. World'
  BY DEF World
<1>2. Ids' = Ids /\ \A id : Outage(id)' = Outage(id)
  BY DEF Ids, Outage
<1> QED BY <1>1, <1>2 DEF GoesOn, Moved

\* A report is of what it counts, and of what it may have missed.
LEMMA WrittenIsReported ==
  ASSUME World, AnswersHold, AllRead, NEW looked, looked \subseteq Wanted(Gathered),
         NEW r, r.truncated = (looked # Wanted(Gathered))
  PROVE  Reported(r, IncidentsOf(Final(looked)))
<1> DEFINE events == Final(looked)
           incidents == IncidentsOf(events)
<1>1. /\ Faithful(events) /\ OnceEach(events)
      /\ \A id \in Severe :
           InWindow(id) # {} /\ ~Missable(looked # Wanted(Gathered), id) => \E e \in events : e.id = id
  BY FinalHolds
<1> HIDE DEF events
<1>2. /\ \A i \in incidents : Tells(i)
      /\ OnceEach(incidents)
      /\ \A e \in events :
           InWindow(e.id) # {} /\ ~(Outage(e.id)[1] < WindowStart /\ Outage(e.id)[3]) =>
             \E i \in incidents : i.id = e.id
  BY <1>1, IncidentsTell
<1> HIDE DEF incidents
<1>3. Honest(incidents)
  BY <1>2 DEF Honest
<1>4. ASSUME NEW id \in Sure(r), InWindow(id) # {} PROVE id \in Counted(incidents)
  <2>1. id \in Severe /\ ~MayBeMissed(id) /\ ~(r.truncated /\ EndedLong(id))
    BY DEF Sure
  <2>2. ~Missable(looked # Wanted(Gathered), id)
    BY <2>1 DEF Missable
  <2>3. ~(Outage(id)[1] < WindowStart /\ Outage(id)[3])
    BY <2>1 DEF MayBeMissed
  <2>4. PICK e \in events : e.id = id
    BY <1>1, <1>4, <2>1, <2>2
  <2>5. PICK i \in incidents : i.id = id
    BY <1>2, <1>4, <2>3, <2>4
  <2> QED BY <2>5 DEF Counted
<1> QED BY <1>3, <1>4 DEF Reported, incidents, events

LEMMA WriteReportKeeps ==
  ASSUME World, AnswersHold, WriteReport
  PROVE  IncidentInv'
<1>1. /\ AllRead /\ UNCHANGED <<outages, hostOf, severe, till, reads>>
  BY DEF WriteReport, AllRead
<1>2. PICK looked \in SUBSET Wanted(Gathered) :
        /\ Cardinality(looked) = Lesser(Lookups, Cardinality(Wanted(Gathered)))
        /\ report' = <<[truncated |-> looked # Wanted(Gathered),
                        hosts |-> [h \in OnHost |-> HostRow(h, IncidentsOf(Final(looked)))],
                        noise |-> [t \in Trigger |-> TriggerRow(t, IncidentsOf(Final(looked)))]]>>
  BY DEF WriteReport, Gathered, Final
<1> PICK incidents : incidents = IncidentsOf(Final(looked))
  OBVIOUS
<1> PICK partly : partly = (looked # Wanted(Gathered))
  OBVIOUS
<1>3. PICK r : r = [truncated |-> partly, hosts |-> [h \in OnHost |-> HostRow(h, incidents)],
                     noise |-> [t \in Trigger |-> TriggerRow(t, incidents)]]
  OBVIOUS
<1>4. /\ r.truncated = partly
      /\ \A h \in OnHost : r.hosts[h] = HostRow(h, incidents)
      /\ \A t \in Trigger : r.noise[t] = TriggerRow(t, incidents)
  BY <1>3
<1>5. report' = <<r>>
  BY <1>2, <1>3
<1>6. looked \subseteq Wanted(Gathered) /\ partly \in BOOLEAN /\ r.truncated = (looked # Wanted(Gathered))
  BY <1>4
<1>7. Reported(r, incidents)
  BY <1>1, <1>6, WrittenIsReported
<1>8. FloorExplained(r)
  BY <1>1, <1>2, <1>6, FloorIsExplained
<1>9. \A h \in OnHost : HostExact(r, h)
  BY <1>4, <1>7, HostsAreExact
<1>10. \A t \in Trigger : TriggerExact(r, t)
  <2>1. r.truncated \in BOOLEAN
    <3> DEFINE told == r.truncated
    <3>1. told = partly /\ partly \in BOOLEAN
      BY <1>4, <1>6
    <3> HIDE DEF told
    <3>2. told \in BOOLEAN
      BY <3>1, Zenon
    <3> QED BY <3>2 DEF told
  <2>2. ASSUME NEW t \in Trigger PROVE TriggerExact(r, t)
    <3>1. r.noise[t] = TriggerRow(t, incidents)
      BY <1>4
    <3> QED BY <1>7, <2>1, <3>1, TriggersAreExact
  <2> QED BY <2>2
<1>11. ReportsExact'
  BY <1>1, <1>5, <1>8, <1>9, <1>10, ExactStays
<1>12. World' /\ GoesOn
  BY <1>1, NothingHappens
<1>13. AnswersHold'
  BY <1>1, <1>12, AnswersStay
<1>14. \A name \in ReadNames : reads'[name] # NotYetRead
  BY <1>1 DEF AllRead
<1> QED BY <1>11, <1>12, <1>13, <1>14 DEF IncidentInv

-----------------------------------------------------------------------------
(* The reports, whatever happens while they are read.                      *)

LEMMA IncidentInitial == IncidentInit => IncidentInv
<1> SUFFICES ASSUME IncidentInit PROVE IncidentInv
  OBVIOUS
<1>1. /\ outages \in [Trigger -> Histories] /\ severe \subseteq Trigger /\ till \in {CutAt, ReportTime}
      /\ reads = [name \in ReadNames |-> NotYetRead] /\ report = NoReport
  BY DEF IncidentInit
<1>2. \A t \in Trigger : OutageList(outages[t])
  BY <1>1, IncidentAssumption
<1>3. \A t \in Trigger : outages[t] \in Seq(Nat \X (Nat \cup {StillOpen}) \X BOOLEAN)
  BY <1>2 DEF OutageList
<1>4. outages \in [Trigger -> Seq(Nat \X (Nat \cup {StillOpen}) \X BOOLEAN)]
  BY <1>1, <1>3
<1>5. World
  BY <1>1, <1>2, <1>4 DEF World
<1>6. \A name \in ReadNames : reads[name] = NotYetRead
  BY <1>1
<1>7. "inWindow" \in ReadNames /\ "before" \in ReadNames /\ "openIds" \in ReadNames
      /\ "older" \in ReadNames /\ "recoveries" \in ReadNames
  BY DEF ReadNames
<1>8. WindowTold /\ BeforeTold /\ OpenTold /\ OlderTold /\ RecoveriesTold
  BY <1>6, <1>7 DEF WindowTold, BeforeTold, OpenTold, OlderTold, RecoveriesTold
<1>9. reads = [name \in ReadNames |-> reads[name]]
  BY <1>1
<1> QED BY <1>1, <1>5, <1>8, <1>9 DEF IncidentInv, AnswersHold, ReportsExact

\* No read comes after the report, and no problem is raised or resolved.
LEMMA StillNoReport ==
  ASSUME World', AnswersHold', report = NoReport, report' = report
  PROVE  IncidentInv'
BY DEF IncidentInv, ReportsExact

LEMMA IncidentStep == IncidentInv /\ [IncidentNext]_incidentVars => IncidentInv'
<1> SUFFICES ASSUME IncidentInv, [IncidentNext]_incidentVars PROVE IncidentInv'
  OBVIOUS
<1>1. World /\ AnswersHold /\ (report # NoReport => AllRead) /\ ReportsExact
  BY DEF IncidentInv, AllRead
<1>2. ASSUME NEW name \in ReadNames, NEW answer, Got(name, answer), World', AnswersHold', report' = report
      PROVE  IncidentInv'
  <2>1. report = NoReport
    BY <1>1, <1>2 DEF Got, AllRead
  <2> QED BY <1>2, <2>1, StillNoReport
<1>3. "inWindow" \in ReadNames /\ "before" \in ReadNames /\ "openIds" \in ReadNames
      /\ "older" \in ReadNames /\ "recoveries" \in ReadNames
  BY DEF ReadNames
<1>4. CASE ReadWindow
  BY <1>1, <1>2, <1>3, <1>4, ReadWindowKeeps DEF ReadWindow
<1>5. CASE ReadBefore
  BY <1>1, <1>2, <1>3, <1>5, ReadBeforeKeeps DEF ReadBefore
<1>6. CASE ReadRecoveries
  BY <1>1, <1>2, <1>3, <1>6, ReadRecoveriesKeeps DEF ReadRecoveries
<1>7. CASE ReadOpenIds
  BY <1>1, <1>2, <1>3, <1>7, ReadOpenIdsKeeps DEF ReadOpenIds
<1>8. CASE ReadOlder
  BY <1>1, <1>2, <1>3, <1>8, ReadOlderKeeps DEF ReadOlder
<1>9. CASE WriteReport
  BY <1>1, <1>9, WriteReportKeeps
<1>10. ASSUME NEW t \in Trigger, Raise(t) PROVE IncidentInv'
  <2>1. World' /\ GoesOn /\ reads' = reads /\ report' = report
    BY <1>1, <1>10, RaiseGoesOn
  <2>2. AnswersHold'
    BY <1>1, <2>1, AnswersStay
  <2>3. report = NoReport
    BY <1>10 DEF Raise
  <2> QED BY <2>1, <2>2, <2>3, StillNoReport
<1>11. ASSUME NEW t \in Trigger, Resolve(t) PROVE IncidentInv'
  <2>1. World' /\ GoesOn /\ reads' = reads /\ report' = report
    BY <1>1, <1>11, ResolveGoesOn
  <2>2. AnswersHold'
    BY <1>1, <2>1, AnswersStay
  <2>3. report = NoReport
    BY <1>11 DEF Resolve
  <2> QED BY <2>1, <2>2, <2>3, StillNoReport
<1>12. CASE UNCHANGED incidentVars
  <2>1. UNCHANGED <<outages, hostOf, severe, till>> /\ reads' = reads /\ report' = report
    BY <1>12 DEF incidentVars
  <2>2. World' /\ AnswersHold'
    BY <1>1, <2>1, NothingHappens, AnswersStay
  <2>3. (report # NoReport => \A name \in ReadNames : reads[name] # NotYetRead)'
    BY <1>1, <2>1 DEF AllRead
  <2>4. ReportsExact'
    <3>1. CASE report = NoReport
      BY <2>1, <3>1 DEF ReportsExact
    <3>2. CASE report # NoReport
      <4> PICK r : r = report[1]
        OBVIOUS
      <4>1. report'[1] = r
        BY <2>1
      <4>2. /\ FloorExplained(r) /\ \A h \in OnHost : HostExact(r, h)
            /\ \A t \in Trigger : TriggerExact(r, t)
        BY <1>1, <3>2 DEF ReportsExact
      <4> QED BY <2>1, <4>1, <4>2, ExactStays
    <3> QED BY <3>1, <3>2
  <2> QED BY <2>2, <2>3, <2>4 DEF IncidentInv
<1> QED BY <1>4, <1>5, <1>6, <1>7, <1>8, <1>9, <1>10, <1>11, <1>12 DEF IncidentNext

\* Whatever Zabbix does while fetchIncidents reads, in whichever order the
\* answers come: the availability and the noise report say what was down in the
\* window, but for what the code says it may miss.
THEOREM ReportsStayExact == IncidentSpec => []ReportsExact
<1>1. IncidentInv => ReportsExact
  BY DEF IncidentInv
<1> QED BY <1>1, IncidentInitial, IncidentStep, PTL DEF IncidentSpec

-----------------------------------------------------------------------------
(* The events of a window.                                                 *)

\* It is the same in which order lists are joined.
EitherWay(S) == \A x, y, z \in Seq(S) : x \o (y \o z) = (x \o y) \o z

LEMMA JoinedEitherWay ==
  ASSUME NEW S
  PROVE  EitherWay(S)
  BY DEF EitherWay

\* Lists one after the other.
OneThenOther(both, a, b) ==
  /\ Len(both) = Len(a) + Len(b)
  /\ \A n \in 1..Len(a) : both[n] = a[n]
  /\ \A n \in 1..Len(b) : both[Len(a) + n] = b[n]

LEMMA FlattenTwo ==
  ASSUME NEW S, NEW a, a \in Seq(Seq(S)), NEW b, b \in Seq(Seq(S)), NEW both, both \in Seq(Seq(S)),
         OneThenOther(both, a, b)
  PROVE  FlattenSeq(both) = FlattenSeq(a) \o FlattenSeq(b)
<1> DEFINE M == Len(a)
           N == Len(b)
<1>1. /\ M \in Nat /\ N \in Nat /\ both \in Seq(Seq(S)) /\ Len(both) = M + N
      /\ \A n \in 1..M : both[n] = a[n] /\ a[n] \in Seq(S)
      /\ \A n \in 1..N : both[M + n] = b[n] /\ b[n] \in Seq(S)
  <2>1. ASSUME NEW T, NEW s \in Seq(T) PROVE Len(s) \in Nat /\ \A n \in 1..Len(s) : s[n] \in T
    OBVIOUS
  <2>2. M \in Nat /\ \A n \in 1..M : a[n] \in Seq(S)
    BY <2>1, Zenon
  <2>3. N \in Nat /\ \A n \in 1..N : b[n] \in Seq(S)
    BY <2>1, Zenon
  <2> QED BY <2>2, <2>3, Zenon DEF OneThenOther
<1>2. PICK ra : /\ ra[0] = <<>> /\ \A n \in 0..M : ra[n] \in Seq(S)
                /\ \A n \in 1..M : ra[n] = ra[n - 1] \o a[n]
                /\ FlattenSeq(a) = ra[M]
  BY FlattenRuns
<1>3. PICK rb : /\ rb[0] = <<>> /\ \A n \in 0..N : rb[n] \in Seq(S)
                /\ \A n \in 1..N : rb[n] = rb[n - 1] \o b[n]
                /\ FlattenSeq(b) = rb[N]
  BY FlattenRuns
<1>4. PICK rc : /\ rc[0] = <<>> /\ \A n \in 0..Len(both) : rc[n] \in Seq(S)
                /\ \A n \in 1..Len(both) : rc[n] = rc[n - 1] \o both[n]
                /\ FlattenSeq(both) = rc[Len(both)]
  BY FlattenRuns
<1> HIDE DEF M, N
<1>5. rc[M] = ra[M]
  <2> DEFINE Fine == {n \in 0..M : rc[n] = ra[n]}
  <2>1. 0 \in Fine
    BY <1>1, <1>2, <1>4
  <2>2. ASSUME NEW n \in 1..M, n - 1 \in Fine PROVE n \in Fine
    <3>1. rc[n - 1] = ra[n - 1] /\ n \in 1..Len(both) /\ n \in 0..M
      BY <1>1, <2>2
    <3> QED BY <1>1, <1>2, <1>4, <3>1
  <2> HIDE DEF Fine
  <2>3. \A n \in 0..M : n \in Fine
    BY <1>1, <2>1, <2>2, Onwards
  <2>4. M \in Fine
    <3>1. M \in 0..M
      BY <1>1
    <3> QED BY <2>3, <3>1
  <2> QED BY <2>4 DEF Fine
<1>6. rc[M + N] = ra[M] \o rb[N]
  <2>0. PICK first : first = ra[M]
    OBVIOUS
  <2> DEFINE joined(n) == first \o rb[n]
  <2>1. first \in Seq(S) /\ joined(0) = first
    <3>1. first \in Seq(S)
      BY <1>1, <1>2, <2>0
    <3>2. first \o <<>> = first
      BY <3>1, ConcatEmptySeq
    <3> QED BY <1>3, <3>1, <3>2
  <2>2. ASSUME NEW n \in 1..N PROVE joined(n) = joined(n - 1) \o b[n]
    <3>1. rb[n - 1] \in Seq(S) /\ b[n] \in Seq(S) /\ rb[n] = rb[n - 1] \o b[n]
      <4>1. n - 1 \in 0..N
        BY <1>1
      <4>2. rb[n - 1] \in Seq(S) /\ rb[n] = rb[n - 1] \o b[n]
        BY <1>3, <4>1
      <4> QED BY <1>1, <4>2
    <3>2. EitherWay(S)
      BY JoinedEitherWay, Zenon
    <3>3. first \o (rb[n - 1] \o b[n]) = (first \o rb[n - 1]) \o b[n]
      <4> HIDE DEF joined
      <4> QED BY <2>1, <3>1, <3>2, Zenon DEF EitherWay
    <3> QED BY <3>1, <3>3
  <2> HIDE DEF joined
  <2> DEFINE Fine == {n \in 0..N : rc[M + n] = joined(n)}
  <2>3. 0 \in Fine
    BY <1>1, <1>5, <2>1, <2>0
  <2>4. ASSUME NEW n \in 1..N, n - 1 \in Fine PROVE n \in Fine
    <3>1. M + n \in 1..Len(both) /\ n \in 0..N /\ n - 1 \in 0..N /\ (M + n) - 1 = M + (n - 1)
      BY <1>1
    <3>2. rc[M + (n - 1)] = joined(n - 1)
      BY <2>4
    <3>3. rc[M + n] = rc[M + (n - 1)] \o b[n]
      BY <1>1, <1>4, <3>1
    <3> QED BY <2>2, <3>1, <3>2, <3>3
  <2> HIDE DEF Fine
  <2>5. \A n \in 0..N : n \in Fine
    BY <1>1, <2>3, <2>4, Onwards
  <2>6. rc[M + N] = joined(N)
    BY <1>1, <2>5 DEF Fine
  <2> QED BY <2>6, <2>0 DEF joined
<1> QED BY <1>1, <1>2, <1>3, <1>4, <1>6

FetchTyped ==
  /\ wanted.from \in Clocks /\ wanted.to \in Clocks
  /\ wanted.what \in {"events", "trends"}
  /\ wanted.what = "events" => wanted.density \in [Clocks -> Nat]
  /\ wanted.what = "trends" => wanted.items \in Nat /\ wanted.maxRows \in Nat /\ wanted.maxRows >= MinItems

LEMMA FetchNumbers ==
  /\ Clocks \subseteq Nat
  /\ \A a, b \in Clocks : a..b \subseteq Clocks
  /\ PageLimit \in Nat \ {0} /\ MinSliceSeconds \in Nat \ {0} /\ Mark \in Nat \ {0} /\ MinItems \in Nat \ {0}
<1>1. Cardinality(Clocks) \in Nat /\ Clocks = 0..Cardinality(Clocks) - 1
  BY FetchAssumption, FS_CardinalityType
<1> QED BY <1>1, FetchAssumption

\* The events of one second, and of the seconds of a window.
OfSecond(s) == [n \in 1..wanted.density[s] |-> <<s, n>>]
BySecond(lo, hi) == [n \in 1..AtLeast(0, hi - lo + 1) |-> OfSecond(lo + n - 1)]
AnEvent == Clocks \X Nat

LEMMA EventsAreBySecond ==
  ASSUME wanted.density \in [Clocks -> Nat], NEW lo \in Int, NEW hi \in Int, lo..hi \subseteq Clocks
  PROVE  /\ BySecond(lo, hi) \in Seq(Seq(AnEvent)) /\ Len(BySecond(lo, hi)) = AtLeast(0, hi - lo + 1)
         /\ EventsOf(lo, hi) = FlattenSeq(BySecond(lo, hi))
<1> DEFINE N == AtLeast(0, hi - lo + 1)
<1>1. N \in Nat
  BY DEF AtLeast
<1>2. ASSUME NEW n \in 1..N PROVE OfSecond(lo + n - 1) \in Seq(AnEvent)
  <2>1. lo + n - 1 \in Clocks
    <3>1. lo + n - 1 \in lo..hi
      BY DEF AtLeast
    <3> QED BY <3>1
  <2>2. ASSUME NEW s \in Clocks PROVE OfSecond(s) \in Seq(AnEvent)
    <3>1. wanted.density[s] \in Nat
      OBVIOUS
    <3>2. \A i \in 1..wanted.density[s] : <<s, i>> \in AnEvent
      BY <3>1 DEF AnEvent
    <3> QED BY <3>1, <3>2 DEF OfSecond
  <2> QED BY <2>1, <2>2
<1>3. BySecond(lo, hi) \in Seq(Seq(AnEvent)) /\ Len(BySecond(lo, hi)) = N
  <2> HIDE DEF N
  <2>1. BySecond(lo, hi) = [n \in 1..N |-> OfSecond(lo + n - 1)]
    BY DEF BySecond, N
  <2> QED BY <1>1, <1>2, <2>1
<1>4. EventsOf(lo, hi) = FlattenSeq(BySecond(lo, hi))
  <2> DEFINE seconds == [n \in 1..N |-> lo + n - 1]
             of(s) == [n \in 1..wanted.density[s] |-> <<s, n>>]
  <2>1. Len(seconds) = N /\ \A n \in 1..N : seconds[n] = lo + n - 1
    BY <1>1
  <2>2. EventsOf(lo, hi) = FlattenSeq([n \in 1..Len(seconds) |-> of(seconds[n])])
    BY DEF EventsOf
  <2>3. \A n \in 1..N : of(seconds[n]) = OfSecond(lo + n - 1)
    BY <2>1 DEF OfSecond
  <2> HIDE DEF seconds, of, N
  <2>4. [n \in 1..Len(seconds) |-> of(seconds[n])] = [n \in 1..N |-> OfSecond(lo + n - 1)]
    BY <2>1, <2>3
  <2> QED BY <2>2, <2>4 DEF BySecond, N
<1> QED BY <1>3, <1>4

LEMMA EventsAreListed ==
  ASSUME wanted.density \in [Clocks -> Nat], NEW lo \in Int, NEW hi \in Int, lo..hi \subseteq Clocks
  PROVE  EventsOf(lo, hi) \in Seq(AnEvent) /\ (hi < lo => EventsOf(lo, hi) = <<>>)
<1>1. /\ BySecond(lo, hi) \in Seq(Seq(AnEvent)) /\ Len(BySecond(lo, hi)) = AtLeast(0, hi - lo + 1)
      /\ EventsOf(lo, hi) = FlattenSeq(BySecond(lo, hi))
  BY EventsAreBySecond
<1>2. PICK run : /\ run[0] = <<>> /\ \A n \in 0..Len(BySecond(lo, hi)) : run[n] \in Seq(AnEvent)
                 /\ FlattenSeq(BySecond(lo, hi)) = run[Len(BySecond(lo, hi))]
  BY <1>1, FlattenRuns
<1>3. AtLeast(0, hi - lo + 1) \in Nat /\ (hi < lo => AtLeast(0, hi - lo + 1) = 0)
  BY DEF AtLeast
<1> QED BY <1>1, <1>2, <1>3

\* The halves of a window hold its events, in their order.
LEMMA EventsOfHalves ==
  ASSUME wanted.density \in [Clocks -> Nat],
         NEW lo \in Int, NEW mid \in Int, NEW hi \in Int, lo <= mid, mid < hi, lo..hi \subseteq Clocks
  PROVE  EventsOf(lo, hi) = EventsOf(lo, mid) \o EventsOf(mid + 1, hi)
<1>1. lo..mid \subseteq Clocks /\ mid + 1..hi \subseteq Clocks
  BY DEF AtLeast
<1> DEFINE a == BySecond(lo, mid)
           b == BySecond(mid + 1, hi)
           c == BySecond(lo, hi)
           M == mid - lo + 1
           N == hi - mid
<1>2. M \in Nat /\ N \in Nat /\ AtLeast(0, mid - lo + 1) = M /\ AtLeast(0, hi - (mid + 1) + 1) = N
      /\ AtLeast(0, hi - lo + 1) = M + N
  BY DEF AtLeast
<1>3. /\ a \in Seq(Seq(AnEvent)) /\ Len(a) = M /\ b \in Seq(Seq(AnEvent)) /\ Len(b) = N
      /\ c \in Seq(Seq(AnEvent)) /\ Len(c) = M + N
      /\ EventsOf(lo, mid) = FlattenSeq(a) /\ EventsOf(mid + 1, hi) = FlattenSeq(b)
      /\ EventsOf(lo, hi) = FlattenSeq(c)
  <2>1. mid + 1 \in Int
    OBVIOUS
  <2> QED BY <1>1, <1>2, <2>1, EventsAreBySecond
<1>4. /\ \A n \in 1..M : a[n] = OfSecond(lo + n - 1)
      /\ \A n \in 1..N : b[n] = OfSecond(mid + 1 + n - 1)
      /\ \A n \in 1..M + N : c[n] = OfSecond(lo + n - 1)
  BY <1>2 DEF BySecond
<1> HIDE DEF a, b, c
<1>5. ASSUME NEW n \in 1..N PROVE c[M + n] = b[n]
  <2>1. M + n \in 1..M + N /\ lo + (M + n) - 1 = mid + 1 + n - 1
    BY <1>2
  <2> QED BY <1>4, <2>1
<1>6. \A n \in 1..M : c[n] = a[n]
  BY <1>2, <1>4
<1>7. OneThenOther(c, a, b)
  <2> HIDE DEF M, N
  <2> QED BY <1>3, <1>5, <1>6 DEF OneThenOther
<1>8. FlattenSeq(c) = FlattenSeq(a) \o FlattenSeq(b)
  <2>1. a \in Seq(Seq(AnEvent)) /\ b \in Seq(Seq(AnEvent)) /\ c \in Seq(Seq(AnEvent))
    BY <1>3, Zenon
  <2> HIDE DEF M, N
  <2> QED BY <1>7, <2>1, FlattenTwo, Zenon
<1> QED BY <1>3, <1>8

-----------------------------------------------------------------------------
(* The slices.                                                             *)

FullWindow(lo, hi) == \E a, b \in lo..hi : b - a < MinSliceSeconds /\ Len(EventsOf(a, b)) >= PageLimit

\* What the request for a window may come back with.
Right(lo, hi, slice) ==
  \/ slice = [ok |-> TRUE, rows |-> EventsOf(lo, hi)]
  \/ slice = TooDense /\ FullWindow(lo, hi)

\* A page that is not full is the window's events; a full one is no answer, and
\* its window has two halves unless it is narrow.
LEMMA OnePage ==
  ASSUME wanted.density \in [Clocks -> Nat], NEW lo \in Clocks, NEW hi \in Clocks
  PROVE  LET mid == (lo + hi) \div 2 IN
         \/ \A g : SliceOf(lo, hi, g) = [ok |-> TRUE, rows |-> EventsOf(lo, hi)]
         \/ lo <= hi /\ FullWindow(lo, hi) /\ \A g : SliceOf(lo, hi, g) = TooDense
         \/ /\ mid \in Clocks /\ mid + 1 \in Clocks /\ lo <= mid /\ mid < hi
            /\ \A g : SliceOf(lo, hi, g) = Both(g[<<lo, mid>>], g[<<mid + 1, hi>>])
<1> DEFINE mid == (lo + hi) \div 2
           page == EventsOf(lo, hi)
           rows == SubSeq(page, 1, AtMost(PageLimit, Len(page)))
<1>1. lo \in Nat /\ hi \in Nat /\ lo..hi \subseteq Clocks /\ PageLimit \in Nat \ {0} /\ MinSliceSeconds \in Nat \ {0}
  BY FetchNumbers
<1>2. page \in Seq(AnEvent) /\ (hi < lo => page = <<>>)
  BY <1>1, EventsAreListed
<1>3. Len(page) \in Nat /\ (hi < lo => Len(page) = 0)
  BY <1>2
<1> HIDE DEF page
<1>4. Len(rows) = AtMost(PageLimit, Len(page)) /\ (Len(page) < PageLimit => rows = page)
  <2>1. AtMost(PageLimit, Len(page)) \in 0..Len(page)
    BY <1>1, <1>3 DEF AtMost
  <2>2. Len(rows) = AtMost(PageLimit, Len(page))
    BY <1>2, <2>1, FirstOf
  <2>3. ASSUME Len(page) < PageLimit PROVE rows = page
    <3>1. AtMost(PageLimit, Len(page)) = Len(page)
      BY <1>1, <1>3, <2>3 DEF AtMost
    <3>2. SubSeq(page, 1, Len(page)) = page
      BY <1>2
    <3> QED BY <3>1, <3>2
  <2> QED BY <2>2, <2>3
<1> HIDE DEF rows
<1>5. FullPage(rows) <=> Len(page) >= PageLimit
  BY <1>1, <1>3, <1>4 DEF FullPage, AtMost
<1>6. \A g : SliceOf(lo, hi, g) = IF ~FullPage(rows) THEN [ok |-> TRUE, rows |-> rows]
                                  ELSE IF hi - lo < MinSliceSeconds THEN TooDense
                                  ELSE Both(g[<<lo, mid>>], g[<<mid + 1, hi>>])
  BY DEF SliceOf, rows, page
<1>7. CASE ~FullPage(rows)
  <2>1. rows = page
    BY <1>1, <1>3, <1>4, <1>5, <1>7
  <2>2. \A g : SliceOf(lo, hi, g) = [ok |-> TRUE, rows |-> page]
    BY <1>6, <1>7, <2>1
  <2> QED BY <2>2 DEF page
<1>8. CASE FullPage(rows)
  <2>1. lo <= hi /\ Len(page) >= PageLimit
    BY <1>1, <1>3, <1>5, <1>8
  <2>2. CASE hi - lo < MinSliceSeconds
    <3>1. FullWindow(lo, hi)
      <4>1. lo \in lo..hi /\ hi \in lo..hi
        BY <1>1, <2>1
      <4> QED BY <2>1, <2>2, <4>1 DEF FullWindow, page
    <3>2. \A g : SliceOf(lo, hi, g) = TooDense
      BY <1>6, <1>8, <2>2
    <3> QED BY <2>1, <3>1, <3>2
  <2>3. CASE ~(hi - lo < MinSliceSeconds)
    <3>1. lo < hi
      BY <1>1, <2>3
    <3>2. mid \in lo..hi /\ mid + 1 \in lo..hi /\ lo <= mid /\ mid < hi
      <4>1. lo + hi \in Int /\ 2 \in Nat \ {0}
        BY <1>1
      <4>2. lo * 2 <= lo + hi <=> lo <= mid
        BY <1>1, <4>1, DividedBy
      <4>3. hi * 2 <= lo + hi <=> hi <= mid
        BY <1>1, <4>1, DividedBy
      <4>4. mid \in Int
        BY <4>1, DividedBy
      <4> QED BY <1>1, <3>1, <4>2, <4>3, <4>4
    <3>3. \A g : SliceOf(lo, hi, g) = Both(g[<<lo, mid>>], g[<<mid + 1, hi>>])
      BY <1>6, <1>8, <2>3
    <3> QED BY <1>1, <3>2, <3>3
  <2> QED BY <2>2, <2>3
<1> QED BY <1>7, <1>8


\* Two halves that are right make a window that is.
LEMMA HalvesAreRight ==
  ASSUME wanted.density \in [Clocks -> Nat],
         NEW lo \in Clocks, NEW mid \in Clocks, NEW hi \in Clocks, lo <= mid, mid < hi,
         NEW first, NEW second, Right(lo, mid, first), Right(mid + 1, hi, second)
  PROVE  Right(lo, hi, Both(first, second))
<1>1. /\ lo \in Nat /\ mid \in Nat /\ hi \in Nat /\ lo..hi \subseteq Clocks
      /\ lo..mid \subseteq lo..hi /\ (mid + 1)..hi \subseteq lo..hi
  BY FetchNumbers
<1>2. FullWindow(lo, mid) \/ FullWindow(mid + 1, hi) => FullWindow(lo, hi)
  BY <1>1 DEF FullWindow
<1>3. EventsOf(lo, hi) = EventsOf(lo, mid) \o EventsOf(mid + 1, hi)
  <2>1. lo \in Int /\ mid \in Int /\ hi \in Int
    BY <1>1
  <2> QED BY <1>1, <2>1, EventsOfHalves
<1> DEFINE e1 == EventsOf(lo, mid)
           e2 == EventsOf(mid + 1, hi)
<1>4. \/ first = [ok |-> TRUE, rows |-> e1]
      \/ first = TooDense /\ FullWindow(lo, mid)
  BY DEF Right
<1>5. \/ second = [ok |-> TRUE, rows |-> e2]
      \/ second = TooDense /\ FullWindow(mid + 1, hi)
  BY DEF Right
<1> HIDE DEF e1, e2
<1>6. CASE first = [ok |-> TRUE, rows |-> e1] /\ second = [ok |-> TRUE, rows |-> e2]
  <2>1. Both(first, second) = [ok |-> TRUE, rows |-> e1 \o e2]
    BY <1>6 DEF Both
  <2>2. [ok |-> TRUE, rows |-> e1 \o e2] = [ok |-> TRUE, rows |-> EventsOf(lo, hi)]
    BY <1>3 DEF e1, e2
  <2> QED BY <2>1, <2>2 DEF Right
<1>7. CASE first = TooDense /\ FullWindow(lo, mid)
  <2>1. Both(first, second) = TooDense
    BY <1>7 DEF Both, TooDense
  <2> QED BY <1>2, <1>7, <2>1 DEF Right
<1>8. CASE second = TooDense /\ FullWindow(mid + 1, hi)
  <2>1. Both(first, second) = TooDense
    BY <1>8 DEF Both, TooDense
  <2> QED BY <1>2, <1>8, <2>1 DEF Right
<1> QED BY <1>4, <1>5, <1>6, <1>7, <1>8

AnyWindow == Clocks \X Clocks

\* A slice depends on shorter windows only, and is right when they are.
LEMMA ShorterWindows ==
  ASSUME wanted.density \in [Clocks -> Nat], NEW lo \in Clocks, NEW hi \in Clocks
  PROVE  /\ \A g, h : (\A w \in AnyWindow : w[2] - w[1] < hi - lo => g[w] = h[w]) =>
                        SliceOf(lo, hi, g) = SliceOf(lo, hi, h)
         /\ \A g : (\A w \in AnyWindow : w[2] - w[1] < hi - lo => Right(w[1], w[2], g[w])) =>
                     Right(lo, hi, SliceOf(lo, hi, g))
         /\ hi < lo => \A g, h : /\ SliceOf(lo, hi, g) = SliceOf(lo, hi, h)
                                 /\ Right(lo, hi, SliceOf(lo, hi, g))
<1> DEFINE mid == (lo + hi) \div 2
<1>1. lo \in Nat /\ hi \in Nat
  BY FetchNumbers
<1>2. \/ \A g : SliceOf(lo, hi, g) = [ok |-> TRUE, rows |-> EventsOf(lo, hi)]
      \/ lo <= hi /\ FullWindow(lo, hi) /\ \A g : SliceOf(lo, hi, g) = TooDense
      \/ /\ mid \in Clocks /\ mid + 1 \in Clocks /\ lo <= mid /\ mid < hi
         /\ \A g : SliceOf(lo, hi, g) = Both(g[<<lo, mid>>], g[<<mid + 1, hi>>])
  BY OnePage
<1> HIDE DEF mid
<1>3. CASE \A g : SliceOf(lo, hi, g) = [ok |-> TRUE, rows |-> EventsOf(lo, hi)]
  BY <1>3 DEF Right
<1>4. CASE lo <= hi /\ FullWindow(lo, hi) /\ \A g : SliceOf(lo, hi, g) = TooDense
  BY <1>1, <1>4 DEF Right
<1>5. CASE /\ mid \in Clocks /\ mid + 1 \in Clocks /\ lo <= mid /\ mid < hi
           /\ \A g : SliceOf(lo, hi, g) = Both(g[<<lo, mid>>], g[<<mid + 1, hi>>])
  <2>1. mid \in Nat
    BY <1>5, FetchNumbers
  <2>2. /\ <<lo, mid>> \in AnyWindow /\ <<mid + 1, hi>> \in AnyWindow
        /\ <<lo, mid>>[1] = lo /\ <<lo, mid>>[2] = mid /\ <<mid + 1, hi>>[1] = mid + 1 /\ <<mid + 1, hi>>[2] = hi
    BY <1>5 DEF AnyWindow
  <2>3. mid - lo < hi - lo /\ hi - (mid + 1) < hi - lo /\ ~(hi < lo)
    BY <1>1, <1>5, <2>1
  <2>4. ASSUME NEW g, NEW h, \A w \in AnyWindow : w[2] - w[1] < hi - lo => g[w] = h[w]
        PROVE  SliceOf(lo, hi, g) = SliceOf(lo, hi, h)
    <3>1. g[<<lo, mid>>] = h[<<lo, mid>>]
      BY <2>2, <2>3, <2>4
    <3>2. g[<<mid + 1, hi>>] = h[<<mid + 1, hi>>]
      BY <2>2, <2>3, <2>4
    <3> QED BY <1>5, <3>1, <3>2
  <2>5. ASSUME NEW g, \A w \in AnyWindow : w[2] - w[1] < hi - lo => Right(w[1], w[2], g[w])
        PROVE  Right(lo, hi, SliceOf(lo, hi, g))
    <3>1. Right(lo, mid, g[<<lo, mid>>])
      BY <2>2, <2>3, <2>5
    <3>2. Right(mid + 1, hi, g[<<mid + 1, hi>>])
      BY <2>2, <2>3, <2>5
    <3>3. Right(lo, hi, Both(g[<<lo, mid>>], g[<<mid + 1, hi>>]))
      BY <1>5, <3>1, <3>2, HalvesAreRight
    <3> QED BY <1>5, <3>3
  <2> QED BY <2>3, <2>4, <2>5
<1> QED BY <1>2, <1>3, <1>4, <1>5


Slices(g) == g = [w \in AnyWindow |-> SliceOf(w[1], w[2], g)]

LEMMA SpansAreShort ==
  /\ Cardinality(Clocks) \in Nat
  /\ \A w \in AnyWindow : /\ w[1] \in Clocks /\ w[2] \in Clocks /\ w[2] - w[1] \in Int
                      /\ w[2] - w[1] < Cardinality(Clocks)
<1>1. Cardinality(Clocks) \in Nat /\ Clocks = 0..Cardinality(Clocks) - 1
  BY FetchAssumption, FS_CardinalityType
<1>2. ASSUME NEW w \in AnyWindow
      PROVE  w[1] \in Clocks /\ w[2] \in Clocks /\ w[2] - w[1] \in Int /\ w[2] - w[1] < Cardinality(Clocks)
  <2>1. w[1] \in Clocks /\ w[2] \in Clocks
    BY DEF AnyWindow
  <2> QED BY <1>1, <2>1
<1> QED BY <1>1, <1>2

\* The recursion ends: there is a slice of every window.
LEMMA SlicesExist ==
  ASSUME wanted.density \in [Clocks -> Nat]
  PROVE  \E g : Slices(g)
<1> DEFINE N == Cardinality(Clocks)
           SlicedTo(k, g) == \A w \in AnyWindow : w[2] - w[1] < k => g[w] = SliceOf(w[1], w[2], g)
           Fine == {k \in 0..N : \E g : SlicedTo(k, g)}
           after(g) == [w \in AnyWindow |-> SliceOf(w[1], w[2], g)]
<1>1. /\ N \in Nat
      /\ \A w \in AnyWindow : w[1] \in Clocks /\ w[2] \in Clocks /\ w[2] - w[1] \in Int /\ w[2] - w[1] < N
      /\ Clocks \subseteq Nat
  BY SpansAreShort, FetchNumbers
<1> HIDE DEF N
<1>2. SlicedTo(0, after(<<>>))
  <2>1. ASSUME NEW w \in AnyWindow, w[2] - w[1] < 0
        PROVE  after(<<>>)[w] = SliceOf(w[1], w[2], after(<<>>))
    <3>1. w[1] \in Clocks /\ w[2] \in Clocks /\ w[2] < w[1]
      <4>1. w[1] \in Clocks /\ w[2] \in Clocks
        BY <1>1
      <4>2. w[1] \in Nat /\ w[2] \in Nat
        BY <1>1, <4>1
      <4> QED BY <2>1, <4>1, <4>2
    <3>2. SliceOf(w[1], w[2], <<>>) = SliceOf(w[1], w[2], after(<<>>))
      <4> HIDE DEF after
      <4> QED BY <3>1, ShorterWindows
    <3>3. after(<<>>)[w] = SliceOf(w[1], w[2], <<>>)
      OBVIOUS
    <3> QED BY <3>2, <3>3
  <2> QED BY <2>1
<1>3. ASSUME NEW k \in Nat, NEW g, SlicedTo(k, g) PROVE SlicedTo(k + 1, after(g))
  <2>1. ASSUME NEW w \in AnyWindow, w[2] - w[1] < k + 1
        PROVE  after(g)[w] = SliceOf(w[1], w[2], after(g))
    <3>1. ASSUME NEW v \in AnyWindow, v[2] - v[1] < w[2] - w[1] PROVE g[v] = after(g)[v]
      <4>1. v[2] - v[1] < k
        BY <1>1, <2>1, <3>1
      <4>2. g[v] = SliceOf(v[1], v[2], g)
        BY <1>3, <4>1
      <4> QED BY <4>2
    <3>2. after(g)[w] = SliceOf(w[1], w[2], g)
      OBVIOUS
    <3>3. w[1] \in Clocks /\ w[2] \in Clocks
      BY <1>1
    <3>4. SliceOf(w[1], w[2], g) = SliceOf(w[1], w[2], after(g))
      <4>1. \A a, b : (\A v \in AnyWindow : v[2] - v[1] < w[2] - w[1] => a[v] = b[v]) =>
                        SliceOf(w[1], w[2], a) = SliceOf(w[1], w[2], b)
        BY <3>3, ShorterWindows
      <4>2. PICK h : h = after(g)
        OBVIOUS
      <4> HIDE DEF after
      <4>3. \A v \in AnyWindow : v[2] - v[1] < w[2] - w[1] => g[v] = h[v]
        BY <3>1, <4>2
      <4>4. SliceOf(w[1], w[2], g) = SliceOf(w[1], w[2], h)
        BY <4>1, <4>3
      <4> QED BY <4>2, <4>4
    <3> QED BY <3>2, <3>4
  <2> QED BY <2>1
<1> HIDE DEF after
<1>4. ASSUME NEW k \in 1..N, k - 1 \in Fine PROVE k \in Fine
  <2>1. k - 1 \in Nat /\ (k - 1) + 1 = k /\ k \in 0..N
    BY <1>1
  <2>2. PICK g : SlicedTo(k - 1, g)
    BY <1>4
  <2> HIDE DEF SlicedTo
  <2>3. SlicedTo(k, after(g))
    BY <1>3, <2>1, <2>2
  <2> QED BY <2>1, <2>3
<1>5. 0 \in Fine
  BY <1>1, <1>2
<1> HIDE DEF SlicedTo
<1>6. N \in Fine
  <2> HIDE DEF Fine
  <2>1. \A k \in 0..N : k \in Fine
    BY <1>1, <1>4, <1>5, Onwards
  <2> QED BY <1>1, <2>1
<1>7. PICK g : SlicedTo(N, g)
  BY <1>6
<1>8. SlicedTo(N + 1, after(g))
  BY <1>1, <1>3, <1>7
<1>9. \A w \in AnyWindow : after(g)[w] = SliceOf(w[1], w[2], after(g))
  BY <1>1, <1>8 DEF SlicedTo
<1>10. PICK h : h = after(g)
  OBVIOUS
<1>11. h = [w \in AnyWindow |-> h[w]]
  BY <1>10 DEF after
<1>12. h = [w \in AnyWindow |-> SliceOf(w[1], w[2], h)]
  <2>1. \A w \in AnyWindow : h[w] = SliceOf(w[1], w[2], h)
    BY <1>9, <1>10
  <2> QED BY <1>11, <2>1
<1> QED BY <1>12 DEF Slices

\* Each of them is right.
LEMMA SlicesAreRight ==
  ASSUME wanted.density \in [Clocks -> Nat], NEW g, Slices(g)
  PROVE  \A w \in AnyWindow : Right(w[1], w[2], g[w])
<1> DEFINE N == Cardinality(Clocks)
           SlicedTo(k) == \A w \in AnyWindow : w[2] - w[1] < k => Right(w[1], w[2], g[w])
           Fine == {k \in 0..N : SlicedTo(k)}
<1>1. /\ N \in Nat
      /\ \A w \in AnyWindow : w[1] \in Clocks /\ w[2] \in Clocks /\ w[2] - w[1] \in Int /\ w[2] - w[1] < N
  BY SpansAreShort
<1>2. \A w \in AnyWindow : g[w] = SliceOf(w[1], w[2], g)
  BY DEF Slices
<1> HIDE DEF N
<1>3. ASSUME NEW k \in Int, SlicedTo(k) PROVE SlicedTo(k + 1)
  <2>1. ASSUME NEW w \in AnyWindow, w[2] - w[1] < k + 1 PROVE Right(w[1], w[2], g[w])
    <3>1. w[1] \in Clocks /\ w[2] \in Clocks
      BY <1>1
    <3>2. ASSUME NEW v \in AnyWindow, v[2] - v[1] < w[2] - w[1] PROVE Right(v[1], v[2], g[v])
      <4>1. v[2] - v[1] < k
        BY <1>1, <2>1, <3>2
      <4> QED BY <1>3, <4>1
    <3>3. Right(w[1], w[2], SliceOf(w[1], w[2], g))
      BY <3>1, <3>2, ShorterWindows
    <3> QED BY <1>2, <3>3
  <2> QED BY <2>1
<1>4. SlicedTo(0)
  <2>1. ASSUME NEW w \in AnyWindow, w[2] - w[1] < 0 PROVE Right(w[1], w[2], g[w])
    <3>1. w[1] \in Clocks /\ w[2] \in Clocks /\ w[2] < w[1]
      <4>1. w[1] \in Clocks /\ w[2] \in Clocks
        BY <1>1
      <4>2. w[1] \in Nat /\ w[2] \in Nat
        BY <4>1, FetchNumbers
      <4> QED BY <2>1, <4>1, <4>2
    <3>2. Right(w[1], w[2], SliceOf(w[1], w[2], g))
      BY <3>1, ShorterWindows
    <3> QED BY <1>2, <3>2
  <2> QED BY <2>1
<1>5. 0 \in Fine
  BY <1>1, <1>4
<1>6. ASSUME NEW k \in 1..N, k - 1 \in Fine PROVE k \in Fine
  <2>1. k - 1 \in Int /\ (k - 1) + 1 = k /\ k \in 0..N
    BY <1>1
  <2>2. SlicedTo(k - 1)
    BY <1>6
  <2> HIDE DEF SlicedTo
  <2>3. SlicedTo(k)
    BY <1>3, <2>1, <2>2
  <2> QED BY <2>1, <2>3
<1> HIDE DEF SlicedTo
<1>7. N \in Fine
  <2> HIDE DEF Fine
  <2>1. \A k \in 0..N : k \in Fine
    BY <1>1, <1>5, <1>6, Onwards
  <2> QED BY <1>1, <2>1
<1> QED BY <1>1, <1>7 DEF SlicedTo

\* What a whole request comes back with.
LEMMA SlicedIsRight ==
  ASSUME wanted.density \in [Clocks -> Nat], wanted.from \in Clocks, wanted.to \in Clocks
  PROVE  EveryEvent(Sliced(wanted.from, wanted.to))
<1> DEFINE lo == wanted.from
           hi == wanted.to
           sliced == CHOOSE g : g = [w \in Clocks \X Clocks |-> SliceOf(w[1], w[2], g)]
<1>1. lo \in Nat /\ hi \in Nat /\ lo..hi \subseteq Clocks
  BY FetchNumbers
<1>2. Sliced(lo, hi) = IF hi < lo THEN [ok |-> TRUE, rows |-> <<>>] ELSE sliced[<<lo, hi>>]
  BY DEF Sliced
<1>3. Slices(sliced)
  <2>1. \E g : g = [w \in Clocks \X Clocks |-> SliceOf(w[1], w[2], g)]
    BY SlicesExist DEF Slices, AnyWindow
  <2>2. sliced = [w \in Clocks \X Clocks |-> SliceOf(w[1], w[2], sliced)]
    BY <2>1
  <2> HIDE DEF sliced
  <2> QED BY <2>2 DEF Slices, AnyWindow
<1> HIDE DEF sliced
<1>4. Right(lo, hi, Sliced(lo, hi))
  <2>1. CASE hi < lo
    <3>1. EventsOf(lo, hi) = <<>>
      BY <1>1, <2>1, EventsAreListed
    <3> QED BY <1>2, <2>1, <3>1 DEF Right
  <2>2. CASE ~(hi < lo)
    <3>1. <<lo, hi>> \in AnyWindow /\ <<lo, hi>>[1] = lo /\ <<lo, hi>>[2] = hi
      BY DEF AnyWindow
    <3>2. Right(lo, hi, sliced[<<lo, hi>>])
      BY <1>3, <3>1, SlicesAreRight
    <3> QED BY <1>2, <2>2, <3>2
  <2> QED BY <2>1, <2>2
<1> QED BY <1>4 DEF Right, EveryEvent, FullWindow, TooDense


-----------------------------------------------------------------------------
(* The cuts of a trend request.                                            *)

LEMMA RoundedUp ==
  ASSUME NEW s \in Int, NEW n \in Nat \ {0}
  PROVE  /\ DivUp(s, n) \in Int /\ s <= DivUp(s, n) * n
         /\ \A k \in Int : k <= DivUp(s, n) <=> k * n <= s + n - 1
         /\ \A k \in Int : DivUp(k * n, n) = k
<1> DEFINE q == (s + n - 1) \div n
           m == (s + n - 1) % n
<1>1. s + n - 1 \in Int
  OBVIOUS
<1>2. /\ q \in Int /\ m \in 0..n - 1 /\ s + n - 1 = q * n + m
      /\ \A k \in Int : k * n <= s + n - 1 <=> k <= q
  BY <1>1, DividedBy
<1>3. DivUp(s, n) = q
  BY DEF DivUp
<1> HIDE DEF q, m
<1>4. s <= q * n
  <2>1. q * n \in Int
    BY <1>2
  <2> QED BY <1>2, <2>1
<1>5. ASSUME NEW k \in Int PROVE DivUp(k * n, n) = k
  <2>1. k * n \in Int /\ k * n + n - 1 \in Int /\ n - 1 \in 0..n - 1 /\ k * n + n - 1 = k * n + (n - 1)
    OBVIOUS
  <2>2. k = (k * n + n - 1) \div n
    BY <2>1, DividedBy
  <2> QED BY <2>2 DEF DivUp
<1> QED BY <1>2, <1>3, <1>4, <1>5

\* Every item is in exactly one chunk, none of more items than a request holds.
LEMMA OneChunk ==
  ASSUME NEW count \in Nat, NEW p \in Nat \ {0}
  PROVE  /\ \A i \in 1..count : \E c \in Chunks(count, p) :
              /\ i \in c.first..c.last
              /\ \A d \in Chunks(count, p) : i \in d.first..d.last => d = c
         /\ \A c \in Chunks(count, p) : c.first \in Int /\ c.last \in Int /\ c.last - c.first + 1 <= p
<1> DEFINE chunk(n) == [first |-> (n - 1) * p + 1, last |-> AtMost(count, n * p)]
           N == DivUp(count, p)
<1>1. Chunks(count, p) = {chunk(n) : n \in 1..N}
  BY DEF Chunks
<1>2. N \in Int /\ \A k \in Int : k <= N <=> k * p <= count + p - 1
  BY RoundedUp
<1> HIDE DEF N
<1>3. ASSUME NEW n \in Int
      PROVE  /\ n * p \in Int /\ (n - 1) * p \in Int /\ n * p = (n - 1) * p + p
             /\ chunk(n).first = (n - 1) * p + 1 /\ chunk(n).last = AtMost(count, n * p)
  OBVIOUS
<1> HIDE DEF chunk
<1>4. ASSUME NEW n \in Int PROVE chunk(n).first \in Int /\ chunk(n).last \in Int /\ chunk(n).last - chunk(n).first + 1 <= p
  <2>1. PICK x : x = n * p
    OBVIOUS
  <2>2. PICK y : y = (n - 1) * p
    OBVIOUS
  <2>3. x \in Int /\ y \in Int /\ x = y + p
    BY <1>3, <2>1, <2>2
  <2>4. AtMost(count, x) \in Int /\ AtMost(count, x) <= x /\ y + 1 \in Int
    BY <2>3 DEF AtMost
  <2>5. AtMost(count, x) - (y + 1) + 1 <= p
    BY <2>3, <2>4
  <2> QED BY <1>3, <2>1, <2>2, <2>4, <2>5
<1>5. ASSUME NEW i \in 1..count, NEW n \in Int
      PROVE  i \in chunk(n).first..chunk(n).last <=> n = (i - 1) \div p + 1
  <2> DEFINE q == (i - 1) \div p
  <2>1. q \in Int /\ \A k \in Int : k * p <= i - 1 <=> k <= q
    BY DividedBy
  <2> HIDE DEF q
  <2>2. (n - 1) * p <= i - 1 <=> n - 1 <= q
    BY <2>1
  <2>3. n * p <= i - 1 <=> n <= q
    BY <2>1
  <2>4. i \in chunk(n).first..chunk(n).last <=> (n - 1) * p <= i - 1 /\ ~(n * p <= i - 1)
    BY <1>3 DEF AtMost
  <2>5. i \in chunk(n).first..chunk(n).last <=> n = q + 1
    BY <2>1, <2>2, <2>3, <2>4
  <2> QED BY <2>5 DEF q
<1>6. ASSUME NEW i \in 1..count
      PROVE  \E c \in Chunks(count, p) : /\ i \in c.first..c.last
                                         /\ \A d \in Chunks(count, p) : i \in d.first..d.last => d = c
  <2> DEFINE q == (i - 1) \div p
  <2>1. q \in Int /\ \A k \in Int : k * p <= i - 1 <=> k <= q
    BY DividedBy
  <2>2. q + 1 \in 1..N
    <3> HIDE DEF q
    <3>1. 0 <= q
      <4>1. 0 * p <= i - 1
        OBVIOUS
      <4> QED BY <2>1, <4>1
    <3>2. (q + 1) * p = q * p + p /\ q * p \in Int /\ q * p <= i - 1
      BY <2>1
    <3>3. (q + 1) * p <= count + p - 1
      BY <3>2
    <3> QED BY <1>2, <2>1, <3>1, <3>3
  <2>3. chunk(q + 1) \in Chunks(count, p)
    BY <1>1, <2>2
  <2>4. i \in chunk(q + 1).first..chunk(q + 1).last
    BY <1>5, <2>1
  <2>5. ASSUME NEW d \in Chunks(count, p), i \in d.first..d.last PROVE d = chunk(q + 1)
    <3>1. PICK n \in 1..N : d = chunk(n)
      BY <1>1
    <3>2. n \in Int
      BY <1>2
    <3>3. n = q + 1
      BY <1>5, <2>5, <3>1, <3>2
    <3> QED BY <3>1, <3>3
  <2> QED BY <2>3, <2>4, <2>5
<1>7. ASSUME NEW c \in Chunks(count, p) PROVE c.first \in Int /\ c.last \in Int /\ c.last - c.first + 1 <= p
  <2>1. PICK n \in 1..N : c = chunk(n)
    BY <1>1
  <2>2. n \in Int
    BY <1>2
  <2> QED BY <1>4, <2>1, <2>2
<1> QED BY <1>6, <1>7

\* Every second is in exactly one window, none of more marks than a request's hours.
LEMMA OneWindow ==
  ASSUME NEW lo \in Int, NEW hi \in Int, lo <= hi, NEW hours \in Nat \ {0}, Mark \in Nat \ {0}
  PROVE  /\ \A t \in lo..hi : \E w \in Windows(lo, hi, hours) :
              /\ t \in w.from..w.to
              /\ \A v \in Windows(lo, hi, hours) : t \in v.from..v.to => v = w
         /\ \A w \in Windows(lo, hi, hours) : MarksIn(w.from, w.to) \in Nat /\ MarksIn(w.from, w.to) <= hours
<1> DEFINE a == DivUp(lo, Mark)
           H == hours * Mark
           first == a * Mark + hours * Mark
           start(n) == IF n = 1 THEN lo ELSE first + (n - 2) * hours * Mark
           window(n) == [from |-> start(n), to |-> AtMost(hi, first + (n - 1) * hours * Mark - 1)]
           N == hi - lo + 1
           held == {m \in 1..N : start(m) <= hi}
<1>1. Windows(lo, hi, hours) = {window(n) : n \in held}
  BY DEF Windows
<1>2. /\ a \in Int /\ lo <= a * Mark /\ a * Mark \in Int
      /\ \A k \in Int : DivUp(k * Mark, Mark) = k
  <2>1. a \in Int /\ lo <= a * Mark
    BY RoundedUp
  <2>2. \A k \in Int : DivUp(k * Mark, Mark) = k
    BY RoundedUp
  <2> HIDE DEF a
  <2>3. a * Mark \in Int
    BY <2>1
  <2> QED BY <2>1, <2>2, <2>3
<1>3. H \in Nat \ {0} /\ first \in Int /\ first = a * Mark + H /\ lo < first
  <2>1. H \in Nat \ {0}
    OBVIOUS
  <2> HIDE DEF a, H
  <2> QED BY <1>2, <2>1 DEF H
<1>4. ASSUME NEW n \in Int
      PROVE  /\ (n - 2) * hours * Mark = (n - 2) * H /\ (n - 1) * hours * Mark = (n - 2) * H + H
             /\ (n - 2) * H \in Int /\ (n - 2) * H + H = (n - 1) * H
  <2>1. (n - 2) * hours * Mark = (n - 2) * H
    OBVIOUS
  <2>2. (n - 1) * hours * Mark = (n - 1) * H
    OBVIOUS
  <2> HIDE DEF H
  <2>3. (n - 2) * H \in Int /\ (n - 2) * H + H = (n - 1) * H
    BY <1>3
  <2> QED BY <2>1, <2>2, <2>3
<1>5. ASSUME NEW n \in Int
      PROVE  /\ start(n) = IF n = 1 THEN lo ELSE first + (n - 2) * H
             /\ start(n) \in Int
             /\ window(n).from = start(n) /\ window(n).to = AtMost(hi, first + (n - 2) * H + H - 1)
  <2> HIDE DEF H, first, a
  <2>1. start(n) = IF n = 1 THEN lo ELSE first + (n - 2) * H
    BY <1>4
  <2>2. first + (n - 1) * hours * Mark - 1 = first + (n - 2) * H + H - 1
    <3>1. PICK x : x = (n - 1) * hours * Mark
      OBVIOUS
    <3>2. PICK y : y = (n - 2) * H
      OBVIOUS
    <3>3. x = y + H /\ y \in Int
      BY <1>4, <3>1, <3>2
    <3>4. first + x - 1 = first + y + H - 1
      BY <1>3, <3>3
    <3> QED BY <3>1, <3>2, <3>4
  <2>3. start(n) \in Int
    <3>1. PICK y : y = (n - 2) * H
      OBVIOUS
    <3>2. y \in Int /\ first + y \in Int
      BY <1>3, <1>4, <3>1
    <3> QED BY <2>1, <3>1, <3>2
  <2> HIDE DEF start
  <2> QED BY <2>1, <2>2, <2>3
<1> HIDE DEF a, H, first, start, window
<1>6. ASSUME NEW t \in lo..hi, NEW n \in 1..N
      PROVE  t \in window(n).from..window(n).to <=> n = IF t < first THEN 1 ELSE 2 + (t - first) \div H
  <2>0. n \in Int
    OBVIOUS
  <2> DEFINE q == (t - first) \div H
  <2>1. q \in Int /\ \A k \in Int : k * H <= t - first <=> k <= q
    <3>1. t - first \in Int
      BY <1>3
    <3> QED BY <1>3, <3>1, DividedBy
  <2>2. (n - 2) * H <= t - first <=> n - 2 <= q
    BY <2>0, <2>1
  <2>3. (n - 1) * H <= t - first <=> n - 1 <= q
    BY <2>0, <2>1
  <2>4. 0 <= q <=> first <= t
    <3>1. 0 * H <= t - first <=> 0 <= q
      BY <2>1
    <3>2. 0 * H = 0
      BY <1>3
    <3> QED BY <1>3, <3>1, <3>2
  <2> HIDE DEF q
  <2>5. t \in window(n).from..window(n).to <=> start(n) <= t /\ ~((n - 1) * H <= t - first)
    <3>1. (n - 2) * H \in Int /\ (n - 2) * H + H = (n - 1) * H
      BY <2>0, <1>4
    <3>2. /\ start(n) \in Int /\ window(n).from = start(n)
          /\ window(n).to = AtMost(hi, first + (n - 2) * H + H - 1)
      BY <2>0, <1>5
    <3> QED BY <1>3, <3>1, <3>2 DEF AtMost
  <2>6. CASE n = 1
    <3>1. start(n) = lo
      BY <1>5, <2>6
    <3>2. t \in window(n).from..window(n).to <=> ~(0 <= q)
      BY <2>1, <2>3, <2>5, <2>6, <3>1
    <3>3. (n = IF t < first THEN 1 ELSE 2 + q) <=> t < first
      BY <1>3, <2>1, <2>4, <2>6
    <3>4. t < first <=> ~(0 <= q)
      BY <1>3, <2>4
    <3> QED BY <3>2, <3>3, <3>4 DEF q
  <2>7. CASE n # 1
    <3>1. start(n) = first + (n - 2) * H /\ (n - 2) * H \in Int
      BY <1>4, <1>5, <2>0, <2>7
    <3>2. t \in window(n).from..window(n).to <=> n = 2 + q
      BY <1>3, <2>1, <2>2, <2>3, <2>5, <3>1
    <3>3. (n = IF t < first THEN 1 ELSE 2 + q) <=> n = 2 + q
      BY <1>3, <2>1, <2>4, <2>7
    <3> QED BY <3>2, <3>3 DEF q
  <2> QED BY <2>6, <2>7
<1>7. ASSUME NEW t \in lo..hi
      PROVE  \E w \in Windows(lo, hi, hours) : /\ t \in w.from..w.to
                                               /\ \A v \in Windows(lo, hi, hours) : t \in v.from..v.to => v = w
  <2> DEFINE n == IF t < first THEN 1 ELSE 2 + (t - first) \div H
  <2>1. n \in 1..N
    <3>1. CASE t < first
      BY <3>1
    <3>2. CASE ~(t < first)
      <4> DEFINE q == (t - first) \div H
      <4>1. /\ t - first \in Nat /\ q \in Int
            /\ \A k \in Int : k * H <= t - first <=> k <= q
        <5>1. t - first \in Nat /\ t - first \in Int
          BY <1>3, <3>2
        <5>2. q \in Int /\ \A k \in Int : k * H <= t - first <=> k <= q
          BY <1>3, <5>1, DividedBy
        <5> QED BY <5>1, <5>2
      <4> HIDE DEF q
      <4>2. 0 <= q
        <5>1. 0 * H <= t - first
          BY <1>3, <4>1
        <5> QED BY <4>1, <5>1
      <4>3. q <= t - first
        <5>1. q * H \in Int /\ q * H <= t - first
          BY <1>3, <4>1
        <5>2. 1 * q <= H * q
          BY <1>3, <4>1, <4>2, MultiplesInOrder
        <5>3. H * q = q * H /\ 1 * q = q
          BY <1>3, <4>1
        <5> QED BY <4>1, <5>1, <5>2, <5>3
      <4>4. 2 + q \in 1..N
        BY <1>3, <4>1, <4>2, <4>3
      <4> QED BY <3>2, <4>4 DEF q
    <3> QED BY <3>1, <3>2
  <2>2. t \in window(n).from..window(n).to
    <3> HIDE DEF N
    <3> QED BY <1>6, <2>1
  <2> HIDE DEF n
  <2>3. n \in Int
    BY <2>1
  <2>4. n \in held
    <3>1. window(n).from = start(n) /\ start(n) \in Int
      BY <1>5, <2>3
    <3>2. start(n) <= t
      BY <2>2, <3>1
    <3> QED BY <2>1, <3>1, <3>2
  <2>5. window(n) \in Windows(lo, hi, hours)
    BY <1>1, <2>4
  <2>6. ASSUME NEW v \in Windows(lo, hi, hours), t \in v.from..v.to PROVE v = window(n)
    <3>1. PICK m \in held : v = window(m)
      BY <1>1
    <3>2. m \in 1..N
      OBVIOUS
    <3>3. m = n
      BY <1>6, <2>6, <3>1, <3>2 DEF n
    <3> QED BY <3>1, <3>3
  <2> QED BY <2>2, <2>5, <2>6
<1>8. ASSUME NEW w \in Windows(lo, hi, hours) PROVE MarksIn(w.from, w.to) \in Nat /\ MarksIn(w.from, w.to) <= hours
  <2>1. PICK n \in held : w = window(n)
    BY <1>1
  <2>2. n \in Int /\ n >= 1
    OBVIOUS
  <2> DEFINE k == IF n = 1 THEN a ELSE a + hours + (n - 2) * hours
             e == a + hours + (n - 2) * hours + hours
             to == window(n).to
  <2>3. (n - 2) * hours \in Int /\ k \in Int /\ e \in Int /\ e - k <= hours
    <3>1. (n - 2) * hours \in Int /\ (n = 1 => (n - 2) * hours = 0 - hours)
      BY <2>2
    <3> QED BY <1>2, <2>2, <3>1
  <2>4. DivUp(window(n).from, Mark) = k
    <3>1. CASE n = 1
      BY <1>5, <2>2, <3>1 DEF a
    <3>2. CASE n # 1
      <4>1. (a + hours + (n - 2) * hours) * Mark = first + (n - 2) * H
        <5>1. (a + hours + (n - 2) * hours) * Mark = a * Mark + hours * Mark + (n - 2) * hours * Mark
          BY <1>2, <2>2
        <5> QED BY <1>4, <2>2, <5>1 DEF first
      <4>2. window(n).from = first + (n - 2) * H
        BY <1>5, <2>2, <3>2
      <4>3. a + hours + (n - 2) * hours \in Int
        BY <1>2, <2>3
      <4> QED BY <1>2, <3>2, <4>1, <4>2, <4>3
    <3> QED BY <3>1, <3>2
  <2>5. to \div Mark \in Int /\ to \div Mark <= e - 1
    <3>1. e * Mark = first + (n - 2) * H + H
      <4>1. e * Mark = a * Mark + hours * Mark + (n - 2) * hours * Mark + hours * Mark
        BY <1>2, <2>2
      <4> QED BY <1>4, <2>2, <4>1 DEF first, H
    <3>2. to \in Int /\ to <= e * Mark - 1
      <4>1. PICK x : x = first + (n - 2) * H + H
        OBVIOUS
      <4>2. PICK y : y = (n - 2) * H
        OBVIOUS
      <4>3. y \in Int /\ x = first + y + H /\ x \in Int
        BY <1>3, <1>4, <2>2, <4>1, <4>2
      <4>4. \A z \in Int : AtMost(hi, z) \in Int /\ AtMost(hi, z) <= z
        BY DEF AtMost
      <4>5. to \in Int /\ to <= x - 1
        <5>1. to = AtMost(hi, first + (n - 2) * H + H - 1)
          BY <1>5, <2>2
        <5>2. PICK z : z = first + (n - 2) * H + H - 1
          OBVIOUS
        <5>3. z = x - 1 /\ z \in Int
          BY <1>3, <4>2, <4>3, <5>2
        <5> HIDE DEF to
        <5>4. to = AtMost(hi, z)
          BY <5>1, <5>2
        <5> QED BY <4>4, <5>3, <5>4
      <4>6. e * Mark = x
        BY <3>1, <4>1
      <4> QED BY <4>5, <4>6
    <3> HIDE DEF to, e
    <3>3. to \div Mark \in Int /\ (e * Mark <= to <=> e <= to \div Mark)
      BY <2>3, <3>2, DividedBy
    <3>4. e * Mark \in Int
      BY <2>3
    <3> QED BY <2>3, <3>2, <3>3, <3>4
  <2> HIDE DEF k, e
  <2> QED BY <2>1, <2>3, <2>4, <2>5 DEF MarksIn, AtLeast
<1> QED BY <1>7, <1>8


SlicesIn(chunks, windows) ==
  {[first |-> c.first, last |-> c.last, from |-> w.from, to |-> w.to] : c \in chunks, w \in windows}

\* Chunks and windows that each hold everything once make slices that do, and
\* that fit when a chunk's items by a window's marks do.
LEMMA SlicesOfBoth ==
  ASSUME wanted.items \in Nat, wanted.from \in Int, wanted.to \in Int, wanted.maxRows \in Nat,
         NEW p \in Nat \ {0}, NEW hours \in Nat, p * hours <= wanted.maxRows, NEW windows,
         \A t \in wanted.from..wanted.to : \E w \in windows :
           /\ t \in w.from..w.to
           /\ \A v \in windows : t \in v.from..v.to => v = w,
         \A w \in windows : MarksIn(w.from, w.to) \in Nat /\ MarksIn(w.from, w.to) <= hours
  PROVE  EveryRow(SlicesIn(Chunks(wanted.items, p), windows))
<1> DEFINE chunks == Chunks(wanted.items, p)
           slice(c, w) == [first |-> c.first, last |-> c.last, from |-> w.from, to |-> w.to]
           slices == {slice(c, w) : c \in chunks, w \in windows}
<1>1. /\ \A i \in 1..wanted.items : \E c \in chunks :
           /\ i \in c.first..c.last
           /\ \A d \in chunks : i \in d.first..d.last => d = c
      /\ \A c \in chunks : c.first \in Int /\ c.last \in Int /\ c.last - c.first + 1 <= p
  BY OneChunk
<1> HIDE DEF chunks
<1>2. ASSUME NEW i \in 1..wanted.items, NEW t \in wanted.from..wanted.to
      PROVE  Cardinality({s \in slices : i \in s.first..s.last /\ t \in s.from..s.to}) = 1
  <2>1. PICK c \in chunks : i \in c.first..c.last /\ \A d \in chunks : i \in d.first..d.last => d = c
    BY <1>1
  <2>2. PICK w \in windows : t \in w.from..w.to /\ \A v \in windows : t \in v.from..v.to => v = w
    OBVIOUS
  <2>3. slice(c, w) \in slices
    OBVIOUS
  <2>4. ASSUME NEW s \in slices, i \in s.first..s.last, t \in s.from..s.to PROVE s = slice(c, w)
    <3>1. PICK d \in chunks, v \in windows : s = slice(d, v)
      OBVIOUS
    <3>2. s.first = d.first /\ s.last = d.last /\ s.from = v.from /\ s.to = v.to
      BY <3>1
    <3> HIDE DEF slice
    <3>3. d = c
      BY <2>1, <2>4, <3>2
    <3>4. v = w
      BY <2>2, <2>4, <3>2
    <3> QED BY <3>1, <3>3, <3>4
  <2>5. /\ slice(c, w).first = c.first /\ slice(c, w).last = c.last
        /\ slice(c, w).from = w.from /\ slice(c, w).to = w.to
    OBVIOUS
  <2> HIDE DEF slice, slices
  <2>6. {s \in slices : i \in s.first..s.last /\ t \in s.from..s.to} = {slice(c, w)}
    BY <2>1, <2>2, <2>3, <2>4, <2>5
  <2> QED BY <2>6, FS_Singleton
<1>3. ASSUME NEW s \in slices PROVE (s.last - s.first + 1) * MarksIn(s.from, s.to) <= wanted.maxRows
  <2>1. PICK c \in chunks, w \in windows : s = slice(c, w)
    OBVIOUS
  <2>2. s.first = c.first /\ s.last = c.last /\ s.from = w.from /\ s.to = w.to
    BY <2>1
  <2> DEFINE x == s.last - s.first + 1
             m == MarksIn(s.from, s.to)
  <2>3. x \in Int /\ x <= p /\ m \in Nat /\ m <= hours
    BY <1>1, <2>2
  <2> HIDE DEF x, m
  <2>4. x * m <= p * m
    BY <2>3, MultiplesInOrder
  <2>5. m * p <= hours * p
    BY <2>3, MultiplesInOrder
  <2>6. m * p = p * m /\ hours * p = p * hours /\ p * m \in Int /\ x * m \in Int /\ p * hours \in Int
    BY <2>3
  <2>7. x * m <= wanted.maxRows
    BY <2>4, <2>5, <2>6
  <2> QED BY <2>7 DEF x, m
<1> HIDE DEF slices
<1>4. EveryRow(slices)
  BY <1>2, <1>3 DEF EveryRow
<1> QED BY <1>4 DEF SlicesIn, slices, slice, chunks

LEMMA EveryRowRead ==
  ASSUME wanted.items \in Nat, wanted.from \in Clocks, wanted.to \in Clocks,
         wanted.maxRows \in Nat, wanted.maxRows >= MinItems
  PROVE  EveryRow(TrendSlices(wanted.items, wanted.from, wanted.to, wanted.maxRows))
<1> DEFINE count == wanted.items
           lo == wanted.from
           hi == wanted.to
           maxRows == wanted.maxRows
           marks == AtLeast(1, MarksIn(lo, hi))
           perRequest == AtMost(count, AtLeast(MinItems, maxRows \div marks))
           hours == AtLeast(1, maxRows \div perRequest)
           windows == IF marks <= hours THEN {[from |-> lo, to |-> hi]} ELSE Windows(lo, hi, hours)
<1>1. lo \in Nat /\ hi \in Nat /\ lo \in Int /\ hi \in Int /\ Mark \in Nat \ {0} /\ MinItems \in Nat \ {0}
  <2>1. lo \in Nat /\ hi \in Nat
    BY FetchNumbers
  <2> QED BY <2>1, FetchNumbers
<1>2. CASE count = 0 \/ hi < lo
  <2>1. TrendSlices(count, lo, hi, maxRows) = {}
    BY <1>2 DEF TrendSlices
  <2>2. ASSUME NEW i \in 1..count, NEW t \in lo..hi PROVE FALSE
    BY <1>1, <1>2
  <2>3. EveryRow({})
    BY <2>2 DEF EveryRow
  <2> QED BY <2>1, <2>3
<1>3. CASE ~(count = 0 \/ hi < lo)
  <2>1. TrendSlices(count, lo, hi, maxRows) = SlicesIn(Chunks(count, perRequest), windows)
    BY <1>3 DEF TrendSlices, SlicesIn
  <2>2. MarksIn(lo, hi) \in Nat
    <3>1. hi \div Mark \in Int /\ DivUp(lo, Mark) \in Int
      BY <1>1, DividedBy, RoundedUp
    <3> QED BY <3>1 DEF MarksIn, AtLeast
  <2>3. marks \in Nat \ {0} /\ MarksIn(lo, hi) <= marks
    BY <2>2 DEF AtLeast
  <2> HIDE DEF marks
  <2>4. perRequest \in Nat \ {0} /\ perRequest <= maxRows
    <3> DEFINE q == maxRows \div marks
    <3>1. q \in Int /\ q * marks <= maxRows /\ \A k \in Int : k * marks <= maxRows <=> k <= q
      <4>1. maxRows \in Int
        OBVIOUS
      <4>2. q \in Int /\ \A k \in Int : k * marks <= maxRows <=> k <= q
        BY <2>3, <4>1, DividedBy
      <4> QED BY <4>2
    <3> HIDE DEF q
    <3>2. q <= maxRows
      <4>1. CASE q <= 0
        BY <3>1, <4>1
      <4>2. CASE ~(q <= 0)
        <5>1. 1 * q <= marks * q
          BY <2>3, <3>1, <4>2, MultiplesInOrder
        <5>2. 1 * q = q /\ marks * q = q * marks /\ q * marks \in Int
          BY <2>3, <3>1
        <5> QED BY <3>1, <5>1, <5>2
      <4> QED BY <4>1, <4>2
    <3>3. perRequest = AtMost(count, AtLeast(MinItems, q))
      BY DEF q
    <3>4. count \in Nat \ {0}
      BY <1>3
    <3> HIDE DEF perRequest
    <3> QED BY <1>1, <3>1, <3>2, <3>3, <3>4 DEF AtMost, AtLeast
  <2> HIDE DEF perRequest
  <2>5. hours \in Nat \ {0} /\ perRequest * hours <= maxRows
    <3> DEFINE q == maxRows \div perRequest
    <3>1. q \in Int /\ \A k \in Int : k * perRequest <= maxRows <=> k <= q
      <4>1. maxRows \in Int
        OBVIOUS
      <4> QED BY <2>4, <4>1, DividedBy
    <3> HIDE DEF q
    <3>2. 1 <= q
      <4>1. 1 * perRequest <= maxRows
        BY <2>4
      <4> QED BY <3>1, <4>1
    <3>3. hours = q
      <4>1. hours = AtLeast(1, q)
        BY DEF q
      <4> HIDE DEF hours
      <4> QED BY <3>1, <3>2, <4>1 DEF AtLeast
    <3>4. q * perRequest <= maxRows /\ q * perRequest = perRequest * q
      BY <2>4, <3>1
    <3> QED BY <3>1, <3>2, <3>3, <3>4
  <2> HIDE DEF hours
  <2>6. /\ \A t \in lo..hi : \E w \in windows : /\ t \in w.from..w.to
                                                /\ \A v \in windows : t \in v.from..v.to => v = w
        /\ \A w \in windows : MarksIn(w.from, w.to) \in Nat /\ MarksIn(w.from, w.to) <= hours
    <3>1. CASE marks <= hours
      <4>1. windows = {[from |-> lo, to |-> hi]}
        BY <3>1
      <4> HIDE DEF windows
      <4> QED BY <2>2, <2>3, <2>5, <3>1, <4>1
    <3>2. CASE ~(marks <= hours)
      <4>1. windows = Windows(lo, hi, hours)
        BY <3>2
      <4>2. lo <= hi
        BY <1>1, <1>3
      <4> HIDE DEF windows
      <4> QED BY <1>1, <2>5, <4>1, <4>2, OneWindow
    <3> QED BY <3>1, <3>2
  <2> HIDE DEF windows
  <2>7. EveryRow(SlicesIn(Chunks(count, perRequest), windows))
    <3>1. hours \in Nat /\ perRequest \in Nat \ {0} /\ perRequest * hours <= wanted.maxRows
      BY <2>4, <2>5
    <3>2. wanted.items \in Nat /\ wanted.from \in Int /\ wanted.to \in Int /\ wanted.maxRows \in Nat
      BY <1>1
    <3>3. /\ \A t \in wanted.from..wanted.to : \E w \in windows :
               /\ t \in w.from..w.to
               /\ \A v \in windows : t \in v.from..v.to => v = w
          /\ \A w \in windows : MarksIn(w.from, w.to) \in Nat /\ MarksIn(w.from, w.to) <= hours
      BY <2>6
    <3> QED BY <3>1, <3>2, <3>3, SlicesOfBoth
  <2> QED BY <2>1, <2>7
<1> QED BY <1>2, <1>3

-----------------------------------------------------------------------------
FetchInv == FetchTyped /\ ReadOnce

LEMMA FetchInitial == FetchInit => FetchInv
<1> SUFFICES ASSUME FetchInit PROVE FetchInv
  OBVIOUS
<1>1. ReadOnce
  BY DEF FetchInit, ReadOnce
<1>2. FetchTyped
  <2>1. PICK lo, hi \in Clocks :
          \/ \E d \in [Clocks -> 0..MaxPerSecond] :
               wanted = [what |-> "events", from |-> lo, to |-> hi, density |-> d]
          \/ \E n \in 0..MaxItems, m \in RowLimits :
               wanted = [what |-> "trends", from |-> lo, to |-> hi, items |-> n, maxRows |-> m]
    BY DEF FetchInit
  <2>2. CASE \E d \in [Clocks -> 0..MaxPerSecond] :
               wanted = [what |-> "events", from |-> lo, to |-> hi, density |-> d]
    <3>1. PICK d \in [Clocks -> 0..MaxPerSecond] :
            wanted = [what |-> "events", from |-> lo, to |-> hi, density |-> d]
      BY <2>2
    <3>2. d \in [Clocks -> Nat]
      BY FetchAssumption
    <3>3. wanted.what = "events" /\ wanted.from = lo /\ wanted.to = hi /\ wanted.density = d
      BY <3>1
    <3> QED BY <3>2, <3>3 DEF FetchTyped
  <2>3. CASE \E n \in 0..MaxItems, m \in RowLimits :
               wanted = [what |-> "trends", from |-> lo, to |-> hi, items |-> n, maxRows |-> m]
    <3>1. PICK n \in 0..MaxItems, m \in RowLimits :
            wanted = [what |-> "trends", from |-> lo, to |-> hi, items |-> n, maxRows |-> m]
      BY <2>3
    <3>2. n \in Nat /\ m \in Nat /\ m >= MinItems
      BY FetchAssumption
    <3>3. wanted.what = "trends" /\ wanted.from = lo /\ wanted.to = hi /\ wanted.items = n /\ wanted.maxRows = m
      BY <3>1
    <3> QED BY <3>2, <3>3 DEF FetchTyped
  <2> QED BY <2>1, <2>2, <2>3
<1> QED BY <1>1, <1>2 DEF FetchInv

\* A question that stays has the answers it had.
LEMMA SameEvents ==
  ASSUME wanted' = wanted
  PROVE  \A answer : EveryEvent(answer)' <=> EveryEvent(answer)
BY DEF EveryEvent, EventsOf

LEMMA SameAnswers ==
  ASSUME wanted' = wanted, NEW answer, gotten'[1] = answer, EveryEvent(answer)
  PROVE  EveryEvent(gotten[1])'
<1>1. EveryEvent(answer)'
  BY SameEvents
<1> QED BY <1>1 DEF EveryEvent

LEMMA FetchStep == FetchInv /\ [FetchNext]_fetchVars => FetchInv'
<1> SUFFICES ASSUME FetchInv, [FetchNext]_fetchVars PROVE FetchInv'
  OBVIOUS
<1>1. CASE ReadHistory
  <2>1. EveryEvent(Sliced(wanted.from, wanted.to))
    BY <1>1, SlicedIsRight DEF FetchInv, FetchTyped, ReadHistory
  <2>2. wanted' = wanted /\ gotten'[1] = Sliced(wanted.from, wanted.to) /\ wanted.what = "events"
    BY <1>1 DEF ReadHistory
  <2>3. EveryEvent(gotten[1])'
    <3>1. PICK answer : answer = Sliced(wanted.from, wanted.to)
      OBVIOUS
    <3>2. EveryEvent(answer) /\ gotten'[1] = answer
      BY <2>1, <2>2, <3>1
    <3> QED BY <2>2, <3>2, SameAnswers
  <2>4. ReadOnce'
    BY <2>2, <2>3 DEF ReadOnce
  <2> QED BY <2>2, <2>4 DEF FetchInv, FetchTyped
<1>2. CASE ReadTrends
  <2>1. EveryRow(TrendSlices(wanted.items, wanted.from, wanted.to, wanted.maxRows))
    BY <1>2, EveryRowRead DEF FetchInv, FetchTyped, ReadTrends
  <2>2. /\ wanted' = wanted /\ wanted.what = "trends"
        /\ gotten'[1] = TrendSlices(wanted.items, wanted.from, wanted.to, wanted.maxRows)
    BY <1>2 DEF ReadTrends
  <2> QED BY <2>1, <2>2 DEF FetchInv, FetchTyped, ReadOnce, EveryRow
<1>3. CASE UNCHANGED fetchVars
  <2>1. wanted' = wanted /\ gotten' = gotten
    BY <1>3 DEF fetchVars
  <2>2. ReadOnce'
    <3>1. EveryEvent(gotten[1]) => EveryEvent(gotten[1])'
      <4>1. PICK answer : answer = gotten[1]
        OBVIOUS
      <4> QED BY <2>1, <4>1, SameAnswers
    <3>2. EveryRow(gotten[1]) => EveryRow(gotten[1])'
      BY <2>1 DEF EveryRow
    <3> QED BY <2>1, <3>1, <3>2 DEF FetchInv, ReadOnce
  <2> QED BY <2>1, <2>2 DEF FetchInv, FetchTyped
<1> QED BY <1>1, <1>2, <1>3 DEF FetchNext

\* Nothing of a history that is read in requests that fit is lost, cut off or
\* read twice, however it is cut (events.ts, fetchEventsSliced and trendSlices).
THEOREM EveryReadOnce == FetchSpec => []ReadOnce
<1>1. FetchInv => ReadOnce
  BY DEF FetchInv
<1> QED BY FetchInitial, FetchStep, <1>1, PTL DEF FetchSpec
=============================================================================
