--------------------------- MODULE Services_proofs ----------------------------
(***************************************************************************)
(* What the BFF's services keep, for any number of calls, questions,       *)
(* callers and hosts: the limits of the assistant (AiLimits), its snapshot *)
(* (Snapshot), the readiness check (Readiness) and the tree made of the    *)
(* estate (ServiceTree).  Each is on its own here; only the module is      *)
(* shared.                                                                 *)
(***************************************************************************)
EXTENDS AiLimits, Snapshot, Readiness, ServiceTree, SequenceLemmas, TLAPS

-----------------------------------------------------------------------------
(***************************************************************************)
(* The limit a minute.  For any callers and limits, twice PerMinute calls  *)
(* of one caller take at least a minute, unless as many others as the      *)
(* table holds called.  The argument: a call within a minute is counted in *)
(* the window of its caller, or in the one before that ended; a window     *)
(* that is open is dropped only when more are open than the table holds,   *)
(* and each of those is of a call since a minute before.                   *)
(***************************************************************************)

WindowRecords == [key : Caller, count : Nat, resetAt : Nat]
TakeRecords == [key : Caller, at : Nat]

MinuteTypeOK ==
  /\ aiNow \in Nat
  /\ windows \in Seq(WindowRecords)
  /\ takes \in Seq(TakeRecords)
  /\ \A i \in 1..Len(takes) : takes[i].at <= aiNow

OneWindowEach == \A m, n \in 1..Len(windows) : windows[m].key = windows[n].key => m = n

\* A window is of a call that was let through, and is never over its limit.
IsOfACall(w) ==
  /\ w.count \in 1..PerMinute
  /\ \E m \in 1..Len(takes) : takes[m].key = w.key /\ takes[m].at + WindowMs = w.resetAt

\* The calls of a caller from one on, and the others since a minute before it.
SinceCall(i) == {n \in i..Len(takes) : takes[n].key = takes[i].key}
NearCall(i) ==
  {takes[n].key : n \in {m \in 1..Len(takes) : takes[m].at > takes[i].at - WindowMs}} \ {takes[i].key}

\* The calls from the i-th on are counted in one window, or in two.
Counts(w, i) ==
  LET c == Cardinality(SinceCall(i)) IN
  c < w.count \/ (w.resetAt >= takes[i].at + WindowMs /\ c < PerMinute + w.count)

Counted(i) ==
  \/ Open(takes[i].key) = {} /\ Cardinality(SinceCall(i)) < PerMinute
  \/ \E n \in Open(takes[i].key) : Counts(windows[n], i)

MinuteInv ==
  /\ MinuteTypeOK /\ OneWindowEach
  /\ \A n \in 1..Len(windows) : IsOfACall(windows[n])
  /\ \A i \in 1..Len(takes) :
       Cardinality(NearCall(i)) < WindowKeys /\ aiNow < takes[i].at + WindowMs => Counted(i)

\* Pruning keeps the newest, and all that are open when they are few enough.
LEMMA PrunedWindows ==
  ASSUME NEW put \in Seq(WindowRecords), Len(put) >= 1, aiNow \in Nat,
         \A m, n \in 1..Len(put) : put[m].key = put[n].key => m = n,
         put[Len(put)].resetAt > aiNow
  PROVE  /\ Prune(put) \in Seq(WindowRecords)
         /\ \A m, n \in 1..Len(Prune(put)) : Prune(put)[m].key = Prune(put)[n].key => m = n
         /\ \A n \in 1..Len(Prune(put)) : \E m \in 1..Len(put) : Prune(put)[n] = put[m]
         /\ \E n \in 1..Len(Prune(put)) : Prune(put)[n] = put[Len(put)]
         /\ \A F :
              /\ IsFiniteSet(F) /\ Cardinality(F) <= WindowKeys
              /\ \A m \in 1..Len(put) : put[m].resetAt > aiNow => put[m].key \in F
              => \A m \in 1..Len(put) : put[m].resetAt > aiNow =>
                   \E n \in 1..Len(Prune(put)) : Prune(put)[n] = put[m]
<1> DEFINE places == {i \in 1..Len(put) : put[i].resetAt > aiNow}
           t == KeptEntries(put, places)
           L == Len(t)
           p == Prune(put)
<1>1. Len(put) \in Nat /\ places \in SUBSET (1..Len(put)) /\ Len(put) \in places
  OBVIOUS
<1>2. p = IF L > WindowKeys THEN SubSeq(t, L - WindowKeys + 1, L) ELSE t
  BY DEF Prune
<1>3. \A m \in 1..Len(put) : put[m].resetAt > aiNow <=> m \in places
  OBVIOUS
<1> HIDE DEF places, t, p
<1>4. PICK at \in [1..Cardinality(places) -> places] :
        /\ IsFiniteSet(places) /\ Cardinality(places) \in Nat
        /\ t \in Seq(WindowRecords) /\ Len(t) = Cardinality(places)
        /\ \A n \in 1..Len(t) : t[n] = put[at[n]]
        /\ \A m, n \in 1..Len(t) : m < n => at[m] < at[n]
        /\ \A i \in places : \E n \in 1..Len(t) : at[n] = i
  <2>1. t \in Seq(WindowRecords) /\ \E at : TakenFrom(put, places, t, at)
    BY <1>1, KeptProperties DEF t
  <2> QED BY <2>1 DEF TakenFrom
<1>5. L \in Nat /\ \A n \in 1..L : at[n] \in places /\ at[n] \in 1..Len(put) /\ at[n] \in Nat
  <2>1. L = Cardinality(places) /\ L \in Nat
    BY <1>4
  <2> HIDE DEF L
  <2>2. \A n \in 1..L : at[n] \in places
    BY <1>4, <2>1
  <2>3. \A i \in places : i \in 1..Len(put) /\ i \in Nat
    BY <1>1
  <2> QED BY <2>1, <2>2, <2>3
<1> HIDE DEF L
<1>6. ASSUME NEW m \in 1..L, NEW n \in 1..L, t[m].key = t[n].key PROVE m = n
  <2>1. t[m] = put[at[m]] /\ t[n] = put[at[n]] /\ at[m] \in 1..Len(put) /\ at[n] \in 1..Len(put)
    BY <1>4, <1>5 DEF L
  <2>2. at[m] = at[n]
    BY <1>6, <2>1
  <2> QED BY <1>4, <1>5, <2>2 DEF L
<1>7. \E n \in 1..L : n = L /\ t[n] = put[Len(put)]
  <2>1. PICK n \in 1..L : at[n] = Len(put)
    BY <1>1, <1>4 DEF L
  <2>2. L \in 1..L
    BY <1>5
  <2>3. ~(n < L)
    BY <1>1, <1>4, <1>5, <2>1, <2>2 DEF L
  <2>4. n = L
    BY <1>5, <2>3
  <2> QED BY <1>4, <2>1, <2>2, <2>4 DEF L
<1>8. \A m \in 1..Len(put) : put[m].resetAt > aiNow => \E n \in 1..L : t[n] = put[m]
  <2> SUFFICES ASSUME NEW m \in places PROVE \E n \in 1..L : t[n] = put[m]
    BY <1>3
  <2>1. PICK n \in 1..L : at[n] = m
    BY <1>4 DEF L
  <2> QED BY <1>4, <2>1 DEF L
<1>9. ASSUME NEW F, IsFiniteSet(F), Cardinality(F) <= WindowKeys,
             \A m \in 1..Len(put) : put[m].resetAt > aiNow => put[m].key \in F
      PROVE  ~(L > WindowKeys)
  <2> DEFINE f == [n \in 1..L |-> t[n].key]
  <2>1. \A n \in 1..L : t[n].key \in F
    BY <1>3, <1>4, <1>5, <1>9 DEF L
  <2>2. f \in Injection(1..L, F)
    BY <1>6, <2>1 DEF Injection, IsInjective
  <2> HIDE DEF f
  <2>3. Cardinality(1..L) <= Cardinality(F)
    BY <1>9, <2>2, FS_Injection
  <2>4. Cardinality(1..L) = L /\ Cardinality(F) \in Nat
    BY <1>5, <1>9, FS_Interval, FS_CardinalityType
  <2> QED BY <1>5, <1>9, <2>3, <2>4, AiAssumption
<1>10. CASE ~(L > WindowKeys)
  <2>1. p = t
    BY <1>2, <1>10
  <2>2. \A n \in 1..L : \E m \in 1..Len(put) : t[n] = put[m]
    BY <1>4, <1>5 DEF L
  <2> QED BY <1>4, <1>6, <1>7, <1>8, <2>1, <2>2 DEF L, p
<1>11. CASE L > WindowKeys
  <2> DEFINE skip == L - WindowKeys
  <2>1. skip \in Nat /\ skip >= 1 /\ skip + 1 <= L /\ L - skip >= 1 /\ L - skip \in Nat
    BY <1>5, <1>11, AiAssumption
  <2>2. p = SubSeq(t, skip + 1, L)
    BY <1>2, <1>11
  <2> HIDE DEF skip
  <2>3. /\ p \in Seq(WindowRecords) /\ Len(p) = L - skip
        /\ \A n \in 1..L - skip : p[n] = t[skip + n]
    <3>1. t \in Seq(WindowRecords) /\ L = Len(t)
      BY <1>4 DEF L
    <3>2. \A j \in skip + 1..L : t[j] \in WindowRecords
      BY <2>1, <3>1
    <3> QED BY <1>5, <2>1, <2>2, <3>1, <3>2
  <2>4. \A n \in 1..L - skip : skip + n \in 1..L
    BY <1>5, <2>1
  <2>5. ASSUME NEW m \in 1..Len(p), NEW n \in 1..Len(p), p[m].key = p[n].key PROVE m = n
    <3>1. skip + m = skip + n
      BY <1>6, <2>3, <2>4, <2>5
    <3> QED BY <2>1, <2>3, <3>1
  <2>6. \A n \in 1..Len(p) : \E m \in 1..Len(put) : p[n] = put[m]
    BY <1>4, <1>5, <2>3, <2>4 DEF L
  <2>7. p[L - skip] = put[Len(put)] /\ L - skip \in 1..Len(p)
    <3>1. skip + (L - skip) = L /\ L - skip \in 1..L - skip
      BY <1>5, <2>1
    <3> QED BY <1>7, <2>3, <3>1
  <2>8. ~\E F : /\ IsFiniteSet(F) /\ Cardinality(F) <= WindowKeys
                /\ \A m \in 1..Len(put) : put[m].resetAt > aiNow => put[m].key \in F
    BY <1>9, <1>11
  <2> QED BY <2>3, <2>5, <2>6, <2>7, <2>8 DEF p
<1> QED BY <1>10, <1>11

\* A window that begins: what is in the Map then, if no more than fit are open
\* every one of these.
WindowBegins(key, w) ==
  /\ windows' \in Seq(WindowRecords)
  /\ \A m, n \in 1..Len(windows') : windows'[m].key = windows'[n].key => m = n
  /\ \A n \in 1..Len(windows') :
       windows'[n] = w \/ \E m \in 1..Len(windows) : windows'[n] = windows[m] /\ windows[m].key # key
  /\ \E n \in 1..Len(windows') : windows'[n] = w
  /\ \A F :
       /\ IsFiniteSet(F) /\ Cardinality(F) <= WindowKeys /\ key \in F
       /\ \A m \in 1..Len(windows) : windows[m].resetAt > aiNow => windows[m].key \in F
       => \A m \in 1..Len(windows) :
            windows[m].key # key /\ windows[m].resetAt > aiNow =>
              \E n \in 1..Len(windows') : windows'[n] = windows[m]

LEMMA NewWindow ==
  ASSUME MinuteInv, NEW key \in Caller, Open(key) = {}, Take(key),
         NEW w, w = [key |-> key, count |-> 1, resetAt |-> aiNow + WindowMs]
  PROVE  WindowBegins(key, w)
<1> DEFINE places == {i \in 1..Len(windows) : windows[i].key # key}
           o == OtherWindows(key)
           put == Append(o, w)
           L == Len(o)
<1>1. windows \in Seq(WindowRecords) /\ Len(windows) \in Nat /\ aiNow \in Nat
  BY DEF MinuteInv, MinuteTypeOK
<1>2. w \in WindowRecords /\ w.key = key /\ w.resetAt = aiNow + WindowMs /\ w.resetAt > aiNow
  BY <1>1, AiAssumption DEF WindowRecords
<1>3. places \in SUBSET (1..Len(windows)) /\ o = KeptEntries(windows, places)
  BY DEF OtherWindows
<1>4. \A m \in 1..Len(windows) : windows[m].key # key <=> m \in places
  OBVIOUS
<1>5. windows' = IF Len(put) > WindowKeys THEN Prune(put) ELSE put
  BY DEF Take
<1> HIDE DEF places, o
<1>6. PICK at \in [1..Cardinality(places) -> places] :
        /\ IsFiniteSet(places) /\ Cardinality(places) \in Nat
        /\ o \in Seq(WindowRecords) /\ Len(o) = Cardinality(places)
        /\ \A n \in 1..Len(o) : o[n] = windows[at[n]]
        /\ \A m, n \in 1..Len(o) : m < n => at[m] < at[n]
        /\ \A i \in places : \E n \in 1..Len(o) : at[n] = i
  <2>1. o \in Seq(WindowRecords) /\ \E at : TakenFrom(windows, places, o, at)
    BY <1>1, <1>3, KeptProperties
  <2> QED BY <2>1 DEF TakenFrom
<1>7. L \in Nat /\ \A n \in 1..L : at[n] \in places /\ at[n] \in 1..Len(windows) /\ at[n] \in Nat
  <2>1. L = Cardinality(places) /\ L \in Nat
    BY <1>6
  <2> HIDE DEF L
  <2>2. \A n \in 1..L : at[n] \in places
    BY <1>6, <2>1
  <2>3. \A i \in places : i \in 1..Len(windows) /\ i \in Nat
    BY <1>1, <1>3
  <2> QED BY <2>1, <2>2, <2>3
<1> HIDE DEF L
<1>8. /\ put \in Seq(WindowRecords) /\ Len(put) = L + 1 /\ put[L + 1] = w
      /\ \A n \in 1..L : put[n] = windows[at[n]]
  <2>1. o \in Seq(WindowRecords) /\ Len(o) = L
    BY <1>6 DEF L
  <2>2. \A n \in 1..L : put[n] = o[n]
    BY <1>2, <1>7, <2>1
  <2> QED BY <1>2, <1>6, <2>1, <2>2 DEF L
<1> HIDE DEF put
<1>9. \A n \in 1..L : put[n].key # key
  BY <1>4, <1>7, <1>8
<1>10. ASSUME NEW m \in 1..L + 1, NEW n \in 1..L + 1, put[m].key = put[n].key PROVE m = n
  <2>1. CASE m \in 1..L /\ n \in 1..L
    <3>1. at[m] = at[n]
      <4>1. windows[at[m]].key = windows[at[n]].key
        BY <1>8, <1>10, <2>1
      <4>2. at[m] \in 1..Len(windows) /\ at[n] \in 1..Len(windows)
        BY <1>7, <2>1
      <4> QED BY <4>1, <4>2 DEF MinuteInv, OneWindowEach
    <3>2. ~(m < n) /\ ~(n < m)
      <4>1. at[m] \in Nat /\ (m < n => at[m] < at[n])
        BY <1>6, <1>7, <2>1 DEF L
      <4>2. n < m => at[n] < at[m]
        BY <1>6, <2>1 DEF L
      <4> QED BY <3>1, <4>1, <4>2
    <3> QED BY <1>7, <3>2
  <2>2. CASE m = L + 1 \/ n = L + 1
    BY <1>2, <1>7, <1>8, <1>9, <1>10, <2>2
  <2> QED BY <1>7, <2>1, <2>2
<1>11. \A n \in 1..L + 1 :
         put[n] = w \/ \E m \in 1..Len(windows) : put[n] = windows[m] /\ windows[m].key # key
  <2> SUFFICES ASSUME NEW n \in 1..L + 1
               PROVE  put[n] = w \/ \E m \in 1..Len(windows) : put[n] = windows[m] /\ windows[m].key # key
    OBVIOUS
  <2>1. CASE n = L + 1
    BY <1>8, <2>1
  <2>2. CASE n # L + 1
    <3>1. n \in 1..L
      BY <1>7, <2>2
    <3> QED BY <1>7, <1>8, <1>9, <3>1
  <2> QED BY <2>1, <2>2
<1>12. \A m \in 1..Len(windows) : windows[m].key # key => \E n \in 1..L + 1 : put[n] = windows[m]
  <2> SUFFICES ASSUME NEW m \in places PROVE \E n \in 1..L + 1 : put[n] = windows[m]
    BY <1>4
  <2>1. PICK n \in 1..L : at[n] = m
    BY <1>6 DEF L
  <2> QED BY <1>7, <1>8, <2>1
<1>13. CASE ~(Len(put) > WindowKeys)
  <2>1. windows' = put
    BY <1>5, <1>13
  <2>2. L + 1 \in 1..L + 1
    BY <1>7
  <2>3. /\ put \in Seq(WindowRecords) /\ \E n \in 1..Len(put) : put[n] = w
        /\ \A m, n \in 1..Len(put) : put[m].key = put[n].key => m = n
        /\ \A n \in 1..Len(put) :
             put[n] = w \/ \E m \in 1..Len(windows) : put[n] = windows[m] /\ windows[m].key # key
    BY <1>8, <1>10, <1>11, <2>2
  <2>4. \A m \in 1..Len(windows) : windows[m].key # key => \E n \in 1..Len(put) : put[n] = windows[m]
    BY <1>8, <1>12
  <2> QED BY <2>1, <2>3, <2>4 DEF WindowBegins
<1>14. CASE Len(put) > WindowKeys
  <2>1. windows' = Prune(put)
    BY <1>5, <1>14
  <2> DEFINE p == Prune(put)
  <2>2. Len(put) >= 1 /\ put[Len(put)] = w /\ put[Len(put)].resetAt > aiNow
    BY <1>2, <1>7, <1>8
  <2>3. \A m, n \in 1..Len(put) : put[m].key = put[n].key => m = n
    BY <1>8, <1>10
  <2>4. /\ p \in Seq(WindowRecords)
        /\ \A m, n \in 1..Len(p) : p[m].key = p[n].key => m = n
        /\ \A n \in 1..Len(p) : \E m \in 1..Len(put) : p[n] = put[m]
        /\ \E n \in 1..Len(p) : p[n] = put[Len(put)]
        /\ \A F :
             /\ IsFiniteSet(F) /\ Cardinality(F) <= WindowKeys
             /\ \A m \in 1..Len(put) : put[m].resetAt > aiNow => put[m].key \in F
             => \A m \in 1..Len(put) : put[m].resetAt > aiNow => \E n \in 1..Len(p) : p[n] = put[m]
    BY <1>1, <1>8, <2>2, <2>3, PrunedWindows, Zenon
  <2> HIDE DEF p
  <2>5. \A n \in 1..Len(p) :
          p[n] = w \/ \E m \in 1..Len(windows) : p[n] = windows[m] /\ windows[m].key # key
    <3> SUFFICES ASSUME NEW n \in 1..Len(p)
                 PROVE  p[n] = w \/ \E m \in 1..Len(windows) : p[n] = windows[m] /\ windows[m].key # key
      OBVIOUS
    <3>1. PICK q \in 1..Len(put) : p[n] = put[q]
      BY <2>4
    <3> QED BY <1>8, <1>11, <3>1
  <2>6. ASSUME NEW F, IsFiniteSet(F), Cardinality(F) <= WindowKeys, key \in F,
               \A m \in 1..Len(windows) : windows[m].resetAt > aiNow => windows[m].key \in F,
               NEW m \in 1..Len(windows), windows[m].key # key, windows[m].resetAt > aiNow
        PROVE  \E n \in 1..Len(p) : p[n] = windows[m]
    <3>1. \A n \in 1..Len(put) : put[n].resetAt > aiNow => put[n].key \in F
      BY <1>2, <1>8, <1>11, <2>6
    <3>2. PICK q \in 1..Len(put) : put[q] = windows[m]
      BY <1>8, <1>12, <2>6
    <3>3. \E n \in 1..Len(p) : p[n] = put[q]
      BY <2>4, <2>6, <3>1, <3>2
    <3> QED BY <3>2, <3>3
  <2>7. windows' = p
    BY <2>1 DEF p
  <2> QED BY <2>2, <2>4, <2>5, <2>6, <2>7 DEF WindowBegins
<1> QED BY <1>13, <1>14

\* What a call that is let through adds to what is said of the earlier ones.
LEMMA TakeAdds ==
  ASSUME MinuteInv, NEW key \in Caller, aiNow' = aiNow,
         takes' = Append(takes, [key |-> key, at |-> aiNow])
  PROVE  /\ Len(takes) \in Nat /\ aiNow \in Nat
         /\ takes' \in Seq(TakeRecords) /\ Len(takes') = Len(takes) + 1
         /\ takes'[Len(takes) + 1].key = key /\ takes'[Len(takes) + 1].at = aiNow
         /\ \A i \in 1..Len(takes) : takes'[i] = takes[i]
         /\ \A i \in 1..Len(takes') : takes'[i].at \in Nat /\ takes'[i].at <= aiNow
         /\ \A i : i = Len(takes) + 1 => SinceCall(i)' = {i}
         /\ \A i \in 1..Len(takes) :
              /\ IsFiniteSet(SinceCall(i)) /\ Cardinality(SinceCall(i)) \in Nat
              /\ Cardinality(SinceCall(i)') =
                   IF takes[i].key = key THEN Cardinality(SinceCall(i)) + 1 ELSE Cardinality(SinceCall(i))
              /\ NearCall(i) \subseteq NearCall(i)'
         /\ \A i \in 1..Len(takes') : IsFiniteSet(NearCall(i)')
<1> DEFINE L == Len(takes)
           r == [key |-> key, at |-> aiNow]
<1>1. takes \in Seq(TakeRecords) /\ L \in Nat /\ aiNow \in Nat
  BY DEF MinuteInv, MinuteTypeOK
<1>2. r \in TakeRecords /\ r.key = key /\ r.at = aiNow
  BY <1>1 DEF TakeRecords
<1>3. /\ takes' \in Seq(TakeRecords) /\ Len(takes') = L + 1 /\ takes'[L + 1] = r
      /\ \A i \in 1..L : takes'[i] = takes[i]
  BY <1>1, <1>2
<1> HIDE DEF L, r
<1>4. ASSUME NEW i \in 1..L + 1 PROVE takes'[i].at \in Nat /\ takes'[i].at <= aiNow
  <2>1. takes'[i] \in TakeRecords
    BY <1>3
  <2>2. takes'[i].at \in Nat
    BY <2>1 DEF TakeRecords
  <2>3. CASE i = L + 1
    BY <1>1, <1>2, <1>3, <2>3
  <2>4. CASE i \in 1..L
    BY <1>3, <2>2, <2>4 DEF MinuteInv, MinuteTypeOK, L
  <2>5. i = L + 1 \/ i \in 1..L
    BY <1>1
  <2> QED BY <2>2, <2>3, <2>4, <2>5
<1>5. ASSUME NEW i, i = L + 1 PROVE SinceCall(i)' = {i}
  <2>1. i..L + 1 = {i} /\ i \in i..L + 1
    BY <1>1, <1>5
  <2> QED BY <1>3, <1>5, <2>1 DEF SinceCall
<1>6. ASSUME NEW i \in 1..L
      PROVE  /\ IsFiniteSet(SinceCall(i)) /\ Cardinality(SinceCall(i)) \in Nat
             /\ Cardinality(SinceCall(i)') =
                  IF takes[i].key = key THEN Cardinality(SinceCall(i)) + 1 ELSE Cardinality(SinceCall(i))
             /\ NearCall(i) \subseteq NearCall(i)'
  <2>1. i..L + 1 = (i..L) \cup {L + 1} /\ i..L \subseteq 1..L /\ L + 1 \notin i..L /\ i \in Int
    BY <1>1
  <2>2. SinceCall(i)' = {n \in i..L + 1 : takes'[n].key = takes[i].key}
    BY <1>3 DEF SinceCall
  <2>3. SinceCall(i) = {n \in i..L : takes[n].key = takes[i].key}
    BY DEF SinceCall, L
  <2>4. SinceCall(i)' = IF takes[i].key = key THEN SinceCall(i) \cup {L + 1} ELSE SinceCall(i)
    BY <1>2, <1>3, <2>1, <2>2, <2>3
  <2>5. L + 1 \notin SinceCall(i) /\ SinceCall(i) \subseteq i..L
    BY <2>1, <2>3
  <2>6. IsFiniteSet(i..L)
    BY <1>1, <2>1, FS_Interval
  <2>7. IsFiniteSet(SinceCall(i)) /\ Cardinality(SinceCall(i)) \in Nat
    BY <2>5, <2>6, FS_Subset, FS_CardinalityType
  <2>8. Cardinality(SinceCall(i) \cup {L + 1}) = Cardinality(SinceCall(i)) + 1
    BY <2>5, <2>7, FS_AddElement
  <2>9. NearCall(i) \subseteq NearCall(i)'
    <3> SUFFICES ASSUME NEW m \in 1..L, takes[m].at > takes[i].at - WindowMs, takes[m].key # takes[i].key
                 PROVE  takes[m].key \in NearCall(i)'
      BY DEF NearCall, L
    <3>1. m \in 1..L + 1 /\ takes'[m] = takes[m] /\ takes'[i] = takes[i]
      BY <1>1, <1>3
    <3> QED BY <1>3, <3>1 DEF NearCall
  <2> QED BY <2>4, <2>7, <2>8, <2>9
<1>7. ASSUME NEW i \in 1..L + 1 PROVE IsFiniteSet(NearCall(i)')
  <2> DEFINE M == {m \in 1..L + 1 : takes'[m].at > takes'[i].at - WindowMs}
  <2>1. IsFiniteSet(M)
    <3>1. IsFiniteSet(1..L + 1)
      BY <1>1, FS_Interval
    <3> QED BY <3>1, FS_Subset
  <2>2. NearCall(i)' = {takes'[n].key : n \in M} \ {takes'[i].key}
    BY <1>3 DEF NearCall
  <2> HIDE DEF M
  <2>3. PICK g : g = takes'
    OBVIOUS
  <2>4. IsFiniteSet({g[n].key : n \in M})
    BY <2>1, ImageIsFinite
  <2>5. NearCall(i)' \subseteq {g[n].key : n \in M}
    BY <2>2, <2>3
  <2> QED BY <2>4, <2>5, FS_Subset
<1> QED BY <1>1, <1>2, <1>3, <1>4, <1>5, <1>6, <1>7 DEF L, r

\* The calls that are near the i-th, and its caller, fit in the table.
LEMMA NearFits ==
  ASSUME NEW N, IsFiniteSet(N), Cardinality(N) < WindowKeys, NEW key
  PROVE  IsFiniteSet(N \cup {key}) /\ Cardinality(N \cup {key}) <= WindowKeys
<1>1. IsFiniteSet(N \cup {key})
  BY FS_AddElement
<1>2. Cardinality(N \cup {key}) <= Cardinality(N) + 1 /\ Cardinality(N) \in Nat
  <2>1. Cardinality(N) \in Nat
    BY FS_CardinalityType
  <2>2. CASE key \in N
    <3>1. N \cup {key} = N
      BY <2>2
    <3>2. Cardinality(N \cup {key}) = Cardinality(N)
      BY <3>1, Zenon
    <3> QED BY <2>1, <3>2
  <2>3. CASE key \notin N
    BY <2>1, <2>3, FS_AddElement
  <2> QED BY <2>2, <2>3
<1>3. Cardinality(N \cup {key}) \in Nat
  BY <1>1, FS_CardinalityType
<1> QED BY <1>1, <1>2, <1>3, AiAssumption

\* A call that begins a window.
LEMMA FirstIsCounted ==
  ASSUME MinuteInv, NEW key \in Caller, Open(key) = {}, Take(key), aiNow' = aiNow
  PROVE  MinuteInv'
<1> DEFINE L == Len(takes)
<1>0. PICK w : w = [key |-> key, count |-> 1, resetAt |-> aiNow + WindowMs]
  OBVIOUS
<1>1. w.key = key /\ w.count = 1 /\ w.resetAt = aiNow + WindowMs
  BY <1>0
<1>2. takes' = Append(takes, [key |-> key, at |-> aiNow])
  BY DEF Take
<1>3. /\ L \in Nat /\ aiNow \in Nat
      /\ takes' \in Seq(TakeRecords) /\ Len(takes') = L + 1
      /\ takes'[L + 1].key = key /\ takes'[L + 1].at = aiNow
      /\ \A i \in 1..L : takes'[i] = takes[i]
      /\ \A i \in 1..L + 1 : takes'[i].at \in Nat /\ takes'[i].at <= aiNow
      /\ \A i : i = L + 1 => SinceCall(i)' = {i}
      /\ \A i \in 1..L :
           /\ IsFiniteSet(SinceCall(i)) /\ Cardinality(SinceCall(i)) \in Nat
           /\ Cardinality(SinceCall(i)') =
                IF takes[i].key = key THEN Cardinality(SinceCall(i)) + 1 ELSE Cardinality(SinceCall(i))
           /\ NearCall(i) \subseteq NearCall(i)'
      /\ \A i \in 1..L + 1 : IsFiniteSet(NearCall(i)')
  BY <1>2, TakeAdds
<1>4. /\ windows' \in Seq(WindowRecords)
      /\ \A m, n \in 1..Len(windows') : windows'[m].key = windows'[n].key => m = n
      /\ \A n \in 1..Len(windows') :
           windows'[n] = w \/ \E m \in 1..Len(windows) : windows'[n] = windows[m] /\ windows[m].key # key
      /\ \E n \in 1..Len(windows') : windows'[n] = w
  <2>1. WindowBegins(key, w)
    BY <1>0, NewWindow
  <2> QED BY <2>1 DEF WindowBegins
<1>5. ASSUME NEW F, IsFiniteSet(F), Cardinality(F) <= WindowKeys, key \in F,
             \A m \in 1..Len(windows) : windows[m].resetAt > aiNow => windows[m].key \in F,
             NEW m \in 1..Len(windows), windows[m].key # key, windows[m].resetAt > aiNow
      PROVE  \E n \in 1..Len(windows') : windows'[n] = windows[m]
  <2>1. WindowBegins(key, w)
    BY <1>0, NewWindow
  <2> QED BY <1>5, <2>1 DEF WindowBegins
<1> HIDE DEF L
<1>6. MinuteTypeOK' /\ OneWindowEach'
  BY <1>3, <1>4 DEF MinuteTypeOK, OneWindowEach
<1>7. ASSUME NEW n \in 1..Len(windows') PROVE IsOfACall(windows[n])'
  <2>1. CASE windows'[n] = w
    <3>1. L + 1 \in 1..Len(takes') /\ 1 \in 1..PerMinute
      BY <1>3, AiAssumption
    <3> QED BY <1>1, <1>3, <2>1, <3>1 DEF IsOfACall
  <2>2. ASSUME NEW m \in 1..Len(windows), windows'[n] = windows[m] PROVE IsOfACall(windows[n])'
    <3>1. IsOfACall(windows[m])
      BY DEF MinuteInv
    <3>2. PICK q \in 1..L : takes[q].key = windows[m].key /\ takes[q].at + WindowMs = windows[m].resetAt
      BY <3>1 DEF IsOfACall, L
    <3>3. q \in 1..Len(takes') /\ takes'[q] = takes[q]
      BY <1>3
    <3> QED BY <2>2, <3>1, <3>2, <3>3 DEF IsOfACall
  <2> QED BY <1>4, <2>1, <2>2
\* An open window is of a caller near any call of the last minute.
<1>8. ASSUME NEW i \in 1..L + 1, NEW m \in 1..Len(windows), windows[m].resetAt > aiNow
      PROVE  windows[m].key \in NearCall(i)' \cup {takes'[i].key}
  <2>1. PICK q \in 1..L : takes[q].key = windows[m].key /\ takes[q].at + WindowMs = windows[m].resetAt
    BY DEF MinuteInv, IsOfACall, L
  <2>2. q \in 1..L + 1 /\ takes'[q] = takes[q]
    BY <1>3
  <2>3. takes'[q].at > takes'[i].at - WindowMs
    <3>1. takes'[q].at \in Nat /\ takes'[i].at \in Nat /\ takes'[i].at <= aiNow
      BY <1>3, <2>2
    <3>2. takes'[q].at + WindowMs > aiNow
      BY <1>8, <2>1, <2>2
    <3> QED BY <1>3, <3>1, <3>2, AiAssumption
  <2> QED BY <1>3, <2>1, <2>2, <2>3 DEF NearCall
<1>9. ASSUME NEW i \in 1..L + 1 PROVE key \in NearCall(i)' \cup {takes'[i].key}
  <2>1. L + 1 \in 1..L + 1
    BY <1>3
  <2>2. takes'[L + 1].at > takes'[i].at - WindowMs
    BY <1>3, AiAssumption
  <2> QED BY <1>3, <2>1, <2>2 DEF NearCall
<1>10. ASSUME NEW i \in 1..L + 1, Cardinality(NearCall(i)') < WindowKeys, takes'[i].key = key,
              i # L + 1 => aiNow < takes[i].at + WindowMs /\ Counted(i)
       PROVE  Counted(i)'
  <2>1. PICK n \in 1..Len(windows') : windows'[n] = w
    BY <1>4
  <2>2. n \in Open(takes[i].key)'
    BY <1>1, <1>3, <1>10, <2>1, AiAssumption DEF Open
  <2>3. Cardinality(SinceCall(i)') <= PerMinute /\ Cardinality(SinceCall(i)') \in Nat
    <3>1. CASE i = L + 1
      <4>1. SinceCall(i)' = {i} /\ Cardinality({i}) = 1
        BY <1>3, <3>1, FS_Singleton
      <4> QED BY <4>1, AiAssumption
    <3>2. CASE i # L + 1
      <4>1. i \in 1..L
        BY <1>3, <3>2
      <4>2. takes[i].key = key
        BY <1>3, <1>10, <4>1
      <4>3. Cardinality(SinceCall(i)) < PerMinute
        BY <1>10, <3>2, <4>2 DEF Counted
      <4> QED BY <1>3, <4>1, <4>2, <4>3, AiAssumption
    <3> QED BY <3>1, <3>2
  <2>4. w.resetAt >= takes'[i].at + WindowMs /\ Cardinality(SinceCall(i)') < PerMinute + w.count
    BY <1>1, <1>3, <2>3, AiAssumption
  <2>5. Counts(windows[n], i)'
    BY <2>1, <2>4 DEF Counts
  <2> QED BY <2>2, <2>5 DEF Counted
<1>11. ASSUME NEW i \in 1..L, Cardinality(NearCall(i)') < WindowKeys, takes[i].key # key, Counted(i)
       PROVE  Counted(i)'
  <2>1. takes'[i] = takes[i] /\ Cardinality(SinceCall(i)') = Cardinality(SinceCall(i)) /\ i \in 1..L + 1
    BY <1>3, <1>11
  <2>2. CASE Open(takes[i].key) = {} /\ Cardinality(SinceCall(i)) < PerMinute
    <3>1. Open(takes[i].key)' = {}
      <4> SUFFICES ASSUME NEW n \in 1..Len(windows'), windows'[n].key = takes[i].key,
                          windows'[n].resetAt > aiNow
                   PROVE  FALSE
        BY <2>1 DEF Open
      <4>1. PICK m \in 1..Len(windows) : windows'[n] = windows[m]
        BY <1>1, <1>4, <1>11
      <4> QED BY <2>2, <4>1 DEF Open
    <3> QED BY <2>1, <2>2, <3>1 DEF Counted
  <2>3. ASSUME NEW m \in Open(takes[i].key), Counts(windows[m], i) PROVE Counted(i)'
    <3> DEFINE F == NearCall(i)' \cup {takes'[i].key}
    <3>1. m \in 1..Len(windows) /\ windows[m].resetAt > aiNow /\ windows[m].key = takes[i].key
      BY DEF Open
    <3>2. IsFiniteSet(F) /\ Cardinality(F) <= WindowKeys
      BY <1>3, <1>11, <2>1, NearFits
    <3>3. key \in F /\ \A n \in 1..Len(windows) : windows[n].resetAt > aiNow => windows[n].key \in F
      BY <1>8, <1>9, <2>1
    <3> HIDE DEF F
    <3>4. PICK n \in 1..Len(windows') : windows'[n] = windows[m]
      BY <1>5, <1>11, <3>1, <3>2, <3>3
    <3>5. n \in Open(takes[i].key)'
      BY <2>1, <3>1, <3>4 DEF Open
    <3>6. Counts(windows[n], i)'
      BY <2>1, <2>3, <3>4 DEF Counts
    <3> QED BY <3>5, <3>6 DEF Counted
  <2> QED BY <1>11, <2>2, <2>3 DEF Counted
<1>12. ASSUME NEW i \in 1..L + 1, Cardinality(NearCall(i)') < WindowKeys, aiNow < takes'[i].at + WindowMs
       PROVE  Counted(i)'
  <2>1. CASE i = L + 1
    BY <1>3, <1>10, <1>12, <2>1
  <2>2. CASE i # L + 1
    <3>1. i \in 1..L
      BY <1>3, <2>2
    <3>2. takes'[i] = takes[i] /\ NearCall(i) \subseteq NearCall(i)' /\ IsFiniteSet(NearCall(i)')
      BY <1>3, <3>1
    <3>3. Cardinality(NearCall(i)) < WindowKeys
      <4>1. IsFiniteSet(NearCall(i)) /\ Cardinality(NearCall(i)) <= Cardinality(NearCall(i)')
        BY <3>2, FS_Subset
      <4>2. Cardinality(NearCall(i)) \in Nat /\ Cardinality(NearCall(i)') \in Nat
        BY <3>2, <4>1, FS_CardinalityType
      <4> QED BY <1>12, <4>1, <4>2, AiAssumption
    <3>4. Counted(i)
      BY <1>12, <3>1, <3>2, <3>3 DEF MinuteInv, L
    <3> QED BY <1>10, <1>11, <1>12, <3>1, <3>2, <3>4
  <2> QED BY <2>1, <2>2
<1> QED BY <1>3, <1>6, <1>7, <1>12 DEF MinuteInv

\* A call in the window that is open.
LEMMA NextIsCounted ==
  ASSUME MinuteInv, NEW key \in Caller, NEW o \in Open(key), aiNow' = aiNow,
         takes' = Append(takes, [key |-> key, at |-> aiNow]),
         windows[o].count < PerMinute, windows' = [windows EXCEPT ![o].count = @ + 1]
  PROVE  MinuteInv'
<1> DEFINE L == Len(takes)
<1>1. /\ L \in Nat /\ aiNow \in Nat
      /\ takes' \in Seq(TakeRecords) /\ Len(takes') = L + 1
      /\ takes'[L + 1].key = key /\ takes'[L + 1].at = aiNow
      /\ \A i \in 1..L : takes'[i] = takes[i]
      /\ \A i \in 1..L + 1 : takes'[i].at \in Nat /\ takes'[i].at <= aiNow
      /\ \A i : i = L + 1 => SinceCall(i)' = {i}
      /\ \A i \in 1..L :
           /\ IsFiniteSet(SinceCall(i)) /\ Cardinality(SinceCall(i)) \in Nat
           /\ Cardinality(SinceCall(i)') =
                IF takes[i].key = key THEN Cardinality(SinceCall(i)) + 1 ELSE Cardinality(SinceCall(i))
           /\ NearCall(i) \subseteq NearCall(i)'
      /\ \A i \in 1..L + 1 : IsFiniteSet(NearCall(i)')
  BY TakeAdds
<1> HIDE DEF L
<1>2. /\ windows \in Seq(WindowRecords) /\ o \in 1..Len(windows) /\ windows[o].key = key
      /\ windows[o].resetAt > aiNow
  BY DEF MinuteInv, MinuteTypeOK, Open
<1>3. \A n \in 1..Len(windows) : windows[n] \in WindowRecords /\ windows[n].count \in 1..PerMinute
  BY <1>2 DEF MinuteInv, IsOfACall
<1>4. PICK w \in WindowRecords :
        w.key = key /\ w.count = windows[o].count + 1 /\ w.resetAt = windows[o].resetAt /\ windows'[o] = w
  <2>1. windows'[o] = [windows[o] EXCEPT !.count = windows[o].count + 1]
    BY <1>2
  <2>2. windows[o] \in WindowRecords /\ windows[o].count \in Nat
    BY <1>2, <1>3 DEF WindowRecords
  <2> DEFINE w == [windows[o] EXCEPT !.count = windows[o].count + 1]
  <2>3. w \in WindowRecords /\ w.key = windows[o].key /\ w.count = windows[o].count + 1
        /\ w.resetAt = windows[o].resetAt
    BY <2>2 DEF WindowRecords
  <2> QED BY <1>2, <2>1, <2>3
<1>5. /\ windows' \in Seq(WindowRecords) /\ Len(windows') = Len(windows)
      /\ \A n \in 1..Len(windows) : n # o => windows'[n] = windows[n]
  <2>1. Len(windows) \in Nat /\ windows \in [1..Len(windows) -> WindowRecords]
    BY <1>2
  <2>2. \A n \in 1..Len(windows) : n # o => windows'[n] = windows[n]
    BY <1>2
  <2>3. windows' \in [1..Len(windows) -> WindowRecords]
    <3>1. \A n \in 1..Len(windows) : windows'[n] \in WindowRecords
      BY <1>3, <1>4, <2>2
    <3>2. windows' = [n \in 1..Len(windows) |-> windows'[n]]
      BY <2>1
    <3> QED BY <3>1, <3>2, Zenon
  <2> QED BY <2>1, <2>2, <2>3, IsASeq, LenProperties
<1>6. \A n \in 1..Len(windows) : windows'[n].key = windows[n].key /\ windows'[n].resetAt = windows[n].resetAt
  BY <1>2, <1>4, <1>5
<1>7. MinuteTypeOK' /\ OneWindowEach'
  <2>1. OneWindowEach'
    BY <1>5, <1>6 DEF MinuteInv, OneWindowEach
  <2> QED BY <1>1, <1>5, <2>1 DEF MinuteTypeOK
<1>8. ASSUME NEW n \in 1..Len(windows') PROVE IsOfACall(windows[n])'
  <2>1. n \in 1..Len(windows) /\ IsOfACall(windows[n])
    BY <1>5 DEF MinuteInv
  <2>2. PICK q \in 1..L : takes[q].key = windows[n].key /\ takes[q].at + WindowMs = windows[n].resetAt
    BY <2>1 DEF IsOfACall, L
  <2>3. q \in 1..Len(takes') /\ takes'[q] = takes[q]
    BY <1>1
  <2>4. windows'[n].count \in 1..PerMinute
    BY <1>3, <1>4, <1>5, <2>1, AiAssumption
  <2> QED BY <1>6, <2>1, <2>2, <2>3, <2>4 DEF IsOfACall
<1>9. Open(key) = {o}
  BY <1>2 DEF Open, MinuteInv, OneWindowEach
<1>10. ASSUME NEW i \in 1..L + 1, Cardinality(NearCall(i)') < WindowKeys, aiNow < takes'[i].at + WindowMs
       PROVE  Counted(i)'
  <2>1. CASE i = L + 1
    <3>1. SinceCall(i)' = {i} /\ Cardinality({i}) = 1 /\ takes'[i].key = key
      BY <1>1, <2>1, FS_Singleton
    <3>2. o \in Open(takes[i].key)'
      BY <1>2, <1>5, <1>6, <3>1 DEF Open
    <3>3. windows'[o].count >= 2
      BY <1>2, <1>3, <1>4
    <3>4. Cardinality(SinceCall(i)') < windows'[o].count
      BY <1>2, <1>3, <1>4, <3>1, <3>3
    <3>5. Counts(windows[o], i)'
      BY <3>4 DEF Counts
    <3> QED BY <3>2, <3>5 DEF Counted
  <2>2. CASE i # L + 1
    <3>1. i \in 1..L
      BY <1>1, <2>2
    <3>2. takes'[i] = takes[i] /\ NearCall(i) \subseteq NearCall(i)' /\ IsFiniteSet(NearCall(i)')
      BY <1>1, <3>1
    <3>3. Cardinality(NearCall(i)) < WindowKeys
      <4>1. IsFiniteSet(NearCall(i)) /\ Cardinality(NearCall(i)) <= Cardinality(NearCall(i)')
        BY <3>2, FS_Subset
      <4>2. Cardinality(NearCall(i)) \in Nat /\ Cardinality(NearCall(i)') \in Nat
        BY <3>2, <4>1, FS_CardinalityType
      <4> QED BY <1>10, <4>1, <4>2, AiAssumption
    <3>4. Counted(i)
      BY <1>10, <3>1, <3>2, <3>3 DEF MinuteInv, L
    <3>5. CASE takes[i].key = key
      <4> DEFINE c == Cardinality(SinceCall(i))
      <4>1. c \in Nat /\ Cardinality(SinceCall(i)') = c + 1
        BY <1>1, <3>1, <3>5
      <4>2. Counts(windows[o], i)
        BY <1>9, <3>4, <3>5 DEF Counted
      <4>3. PICK m \in Nat : m = windows[o].count /\ windows'[o].count = m + 1
        BY <1>2, <1>3, <1>4, AiAssumption
      <4>4. c < m \/ (windows[o].resetAt >= takes[i].at + WindowMs /\ c < PerMinute + m)
        BY <4>2, <4>3 DEF Counts
      <4> HIDE DEF c
      <4>5. c + 1 < m + 1 \/ (windows[o].resetAt >= takes[i].at + WindowMs /\ c + 1 < PerMinute + (m + 1))
        BY <4>1, <4>4, AiAssumption
      <4>6. windows'[o].resetAt = windows[o].resetAt /\ takes'[i].at = takes[i].at
        BY <1>4, <3>2
      <4>7. Counts(windows[o], i)'
        BY <4>1, <4>3, <4>5, <4>6 DEF Counts
      <4>8. o \in Open(takes[i].key)'
        BY <1>2, <1>5, <1>6, <3>2, <3>5, <1>1 DEF Open
      <4> QED BY <4>7, <4>8 DEF Counted
    <3>6. CASE takes[i].key # key
      <4>1. Cardinality(SinceCall(i)') = Cardinality(SinceCall(i))
        BY <1>1, <3>1, <3>6
      <4>2. CASE Open(takes[i].key) = {} /\ Cardinality(SinceCall(i)) < PerMinute
        <5>1. Open(takes[i].key)' = {}
          <6> SUFFICES ASSUME NEW n \in 1..Len(windows'), windows'[n].key = takes[i].key,
                              windows'[n].resetAt > aiNow
                       PROVE  FALSE
            BY <3>2 DEF Open
          <6>1. n \in 1..Len(windows) /\ windows[n].key = takes[i].key /\ windows[n].resetAt > aiNow
            BY <1>5, <1>6
          <6> QED BY <4>2, <6>1 DEF Open
        <5> QED BY <4>1, <4>2, <5>1 DEF Counted
      <4>3. ASSUME NEW n \in Open(takes[i].key), Counts(windows[n], i) PROVE Counted(i)'
        <5>1. n \in 1..Len(windows) /\ n # o
          BY <1>2, <3>6 DEF Open
        <5>2. windows'[n] = windows[n]
          BY <1>5, <5>1
        <5>3. n \in Open(takes[i].key)'
          BY <1>5, <3>2, <5>1, <5>2 DEF Open
        <5>4. Counts(windows[n], i)'
          BY <3>2, <4>1, <4>3, <5>2 DEF Counts
        <5> QED BY <5>3, <5>4 DEF Counted
      <4> QED BY <3>4, <4>2, <4>3 DEF Counted
    <3> QED BY <3>5, <3>6
  <2> QED BY <2>1, <2>2
<1> QED BY <1>1, <1>7, <1>8, <1>10 DEF MinuteInv

LEMMA SinceCallIsFinite ==
  ASSUME takes \in Seq(TakeRecords), NEW i \in 1..Len(takes)
  PROVE  IsFiniteSet(SinceCall(i)) /\ Cardinality(SinceCall(i)) \in Nat
<1>1. Len(takes) \in Nat /\ i \in Int
  OBVIOUS
<1>2. IsFiniteSet(i..Len(takes)) /\ SinceCall(i) \subseteq i..Len(takes)
  BY <1>1, FS_Interval DEF SinceCall
<1>3. IsFiniteSet(SinceCall(i))
  BY <1>2, FS_Subset
<1> QED BY <1>3, FS_CardinalityType

LEMMA TickIsCounted == ASSUME MinuteInv, AiTick PROVE MinuteInv'
<1>1. /\ aiNow \in Nat /\ aiNow' = aiNow + 1 /\ windows' = windows /\ takes' = takes
      /\ windows \in Seq(WindowRecords) /\ takes \in Seq(TakeRecords)
  BY DEF AiTick, limitVars, MinuteInv, MinuteTypeOK
<1>2. \A i \in 1..Len(takes) : takes[i].at \in Nat /\ takes[i].at <= aiNow
  <2>1. \A i \in 1..Len(takes) : takes[i] \in TakeRecords
    BY <1>1
  <2> QED BY <2>1 DEF TakeRecords, MinuteInv, MinuteTypeOK
<1>3. MinuteTypeOK'
  <2>1. \A i \in 1..Len(takes) : takes[i].at <= aiNow + 1
    BY <1>1, <1>2
  <2> QED BY <1>1, <2>1 DEF MinuteTypeOK
<1>4. OneWindowEach' /\ \A n \in 1..Len(windows') : IsOfACall(windows[n])'
  BY <1>1 DEF MinuteInv, OneWindowEach, IsOfACall
<1>5. \A n \in 1..Len(windows) : windows[n].resetAt \in Nat /\ windows[n].count \in 1..PerMinute
  <2>1. \A n \in 1..Len(windows) : windows[n] \in WindowRecords
    BY <1>1
  <2> QED BY <2>1 DEF WindowRecords, MinuteInv, IsOfACall
<1>6. ASSUME NEW i \in 1..Len(takes), Cardinality(NearCall(i)) < WindowKeys,
             aiNow + 1 < takes[i].at + WindowMs
      PROVE  Counted(i)'
  <2> DEFINE c == Cardinality(SinceCall(i))
             who == takes[i].key
  <2>1. Cardinality(SinceCall(i))' = c /\ takes'[i] = takes[i]
    BY <1>1 DEF SinceCall
  <2>2. Counted(i)
    BY <1>1, <1>2, <1>6, AiAssumption DEF MinuteInv
  <2>3. \A n \in Open(who)' : n \in Open(who)
    <3> SUFFICES ASSUME NEW n \in 1..Len(windows), windows[n].key = who, windows[n].resetAt > aiNow + 1
                 PROVE  windows[n].resetAt > aiNow
      BY <1>1 DEF Open
    <3> QED BY <1>1, <1>5
  <2>4. CASE Open(who) = {} /\ c < PerMinute
    <3>1. Open(who)' = {}
      BY <2>3, <2>4
    <3> QED BY <2>1, <2>4, <3>1 DEF Counted
  <2>5. ASSUME NEW n \in Open(who), Counts(windows[n], i) PROVE Counted(i)'
    <3>1. n \in 1..Len(windows) /\ windows[n].key = who
      BY DEF Open
    <3>2. CASE n \in Open(who)'
      <4>1. Counts(windows[n], i)'
        BY <1>1, <2>1, <2>5 DEF Counts
      <4> QED BY <3>2, <4>1 DEF Counted
    <3>3. CASE n \notin Open(who)'
      <4>1. ~(windows[n].resetAt > aiNow + 1)
        BY <1>1, <3>1, <3>3 DEF Open
      <4>2. c < windows[n].count \/ windows[n].resetAt >= takes[i].at + WindowMs
        BY <2>5 DEF Counts
      <4>3. ~(windows[n].resetAt >= takes[i].at + WindowMs)
        <5>1. windows[n].resetAt \in Nat
          BY <1>5, <3>1
        <5>2. takes[i].at \in Nat
          BY <1>2, <1>6
        <5>3. aiNow \in Nat
          BY <1>1
        <5>4. WindowMs \in Nat
          BY AiAssumption
        <5>5. aiNow + 1 < takes[i].at + WindowMs
          BY <1>6
        <5> QED BY <4>1, <5>1, <5>2, <5>3, <5>4, <5>5
      <4>4. c \in Nat
        BY <1>1, SinceCallIsFinite
      <4> HIDE DEF c
      <4>5. c < PerMinute
        BY <1>5, <3>1, <4>2, <4>3, <4>4, AiAssumption
      <4>6. Open(who) = {n}
        BY <3>1 DEF Open, MinuteInv, OneWindowEach
      <4>7. Open(who)' = {}
        BY <2>3, <3>3, <4>6
      <4> QED BY <2>1, <4>5, <4>7 DEF Counted, c
    <3> QED BY <3>2, <3>3
  <2> QED BY <2>2, <2>4, <2>5 DEF Counted
<1>7. ASSUME NEW i \in 1..Len(takes'), Cardinality(NearCall(i))' < WindowKeys, aiNow' < takes'[i].at + WindowMs
      PROVE  Counted(i)'
  <2>1. NearCall(i)' = NearCall(i)
    BY <1>1 DEF NearCall
  <2> QED BY <1>1, <1>6, <1>7, <2>1
<1> QED BY <1>3, <1>4, <1>7 DEF MinuteInv

\* At a call: twice as many as the limit take a minute.
LastTaken ==
  \A i \in 1..Len(takes) :
    Cardinality(NearCall(i)) < WindowKeys /\ Cardinality(SinceCall(i)) >= 2 * PerMinute
    => aiNow - takes[i].at >= WindowMs

LEMMA LastIsFar == MinuteInv => LastTaken
<1> SUFFICES ASSUME MinuteInv, NEW i \in 1..Len(takes), Cardinality(NearCall(i)) < WindowKeys,
                    Cardinality(SinceCall(i)) >= 2 * PerMinute, ~(aiNow - takes[i].at >= WindowMs)
             PROVE  FALSE
  BY DEF LastTaken
<1> DEFINE c == Cardinality(SinceCall(i))
<1>1. takes \in Seq(TakeRecords) /\ windows \in Seq(WindowRecords) /\ aiNow \in Nat
  BY DEF MinuteInv, MinuteTypeOK
<1>2. takes[i].at \in Nat
  <2>1. takes[i] \in TakeRecords
    BY <1>1
  <2> QED BY <2>1 DEF TakeRecords
<1>3. c \in Nat
  BY <1>1, SinceCallIsFinite
<1> HIDE DEF c
<1>4. Counted(i)
  BY <1>1, <1>2, AiAssumption DEF MinuteInv
<1>5. ~(c < PerMinute) /\ c >= 2 * PerMinute
  BY <1>3, AiAssumption DEF c
<1>6. PICK n \in Open(takes[i].key) : Counts(windows[n], i)
  BY <1>4, <1>5 DEF Counted, c
<1>7. windows[n].count \in 1..PerMinute
  BY DEF Open, MinuteInv, IsOfACall
<1>8. c < windows[n].count \/ c < PerMinute + windows[n].count
  BY <1>6 DEF Counts, c
<1> QED BY <1>3, <1>5, <1>7, <1>8, AiAssumption

LEMMA CallIsFar ==
  ASSUME MinuteInv, LastTaken', MinuteHolds, NEW key \in Caller, aiNow' = aiNow,
         takes' = Append(takes, [key |-> key, at |-> aiNow])
  PROVE  MinuteHolds'
<1> DEFINE L == Len(takes)
<1>1. /\ L \in Nat /\ aiNow \in Nat /\ Len(takes') = L + 1
      /\ takes'[L + 1].key = key /\ takes'[L + 1].at = aiNow
      /\ \A i \in 1..L : takes'[i] = takes[i]
  BY TakeAdds
<1> HIDE DEF L
<1> DEFINE mine(i, j) == {n \in i..j : takes'[n].key = takes'[i].key}
           near(i, j) == {m \in 1..j : takes'[m].at > takes'[i].at - WindowMs}
           others(i, j) == {takes'[n].key : n \in near(i, j)} \ {takes'[i].key}
<1> SUFFICES ASSUME NEW i \in 1..L + 1, NEW j \in 1..L + 1, i < j,
                    Cardinality(mine(i, j)) >= 2 * PerMinute, Cardinality(others(i, j)) < WindowKeys
             PROVE  takes'[Max(mine(i, j))].at - takes'[i].at >= WindowMs
  BY <1>1 DEF MinuteHolds
<1>2. i \in 1..L /\ takes'[i] = takes[i]
  BY <1>1
<1>3. ASSUME NEW q \in 1..L, i < q, Cardinality(mine(i, q)) >= 2 * PerMinute,
             Cardinality(others(i, q)) < WindowKeys
      PROVE  takes'[Max(mine(i, q))].at - takes'[i].at >= WindowMs
  <2>1. i..q \subseteq 1..L /\ 1..q \subseteq 1..L
    BY <1>1, <1>2
  <2>2. mine(i, q) = {n \in i..q : takes[n].key = takes[i].key}
    BY <1>1, <1>2, <2>1
  <2>3. near(i, q) = {m \in 1..q : takes[m].at > takes[i].at - WindowMs}
    BY <1>1, <1>2, <2>1
  <2>4. others(i, q) = {takes[n].key : n \in {m \in 1..q : takes[m].at > takes[i].at - WindowMs}} \ {takes[i].key}
    BY <1>1, <1>2, <2>1, <2>3
  <2>5. takes[Max(mine(i, q))].at - takes[i].at >= WindowMs
    BY <1>2, <1>3, <2>2, <2>4 DEF MinuteHolds, L
  <2>6. Max(mine(i, q)) \in mine(i, q)
    <3>1. i \in mine(i, q) /\ mine(i, q) \subseteq i..q /\ i \in Int /\ q \in Int
      BY <1>1, <1>2, <1>3
    <3> HIDE DEF mine
    <3>2. mine(i, q) \in SUBSET Nat /\ IsFiniteSet(mine(i, q))
      <4>1. IsFiniteSet(i..q)
        BY <3>1, FS_Interval
      <4>2. i..q \subseteq Nat
        BY <1>1, <1>2
      <4>3. IsFiniteSet(mine(i, q))
        BY <3>1, <4>1, FS_Subset
      <4> QED BY <3>1, <4>2, <4>3
    <3>3. \E x \in mine(i, q) : \A y \in mine(i, q) : x >= y
      BY <3>1, <3>2, HasALargest
    <3> QED BY <3>3 DEF Max
  <2>7. takes'[Max(mine(i, q))] = takes[Max(mine(i, q))]
    BY <1>1, <2>1, <2>6
  <2> HIDE DEF mine
  <2> QED BY <1>2, <2>5, <2>7
<1>4. CASE j \in 1..L
  BY <1>3, <1>4
<1>5. CASE j = L + 1 /\ takes'[i].key = key
  <2>1. mine(i, j) = SinceCall(i)'
    BY <1>1, <1>5 DEF SinceCall
  <2>2. others(i, j) = NearCall(i)'
    BY <1>1, <1>5 DEF NearCall
  <2>3. aiNow - takes'[i].at >= WindowMs
    BY <1>1, <1>2, <2>1, <2>2 DEF LastTaken
  <2>4. Max(mine(i, j)) = L + 1
    <3>1. L + 1 \in mine(i, j) /\ \A y \in mine(i, j) : y \in Int /\ y <= L + 1
      BY <1>1, <1>2, <1>5
    <3>2. \A x \in mine(i, j) : x >= L + 1 => x = L + 1
      BY <1>1, <3>1
    <3> HIDE DEF mine
    <3> QED BY <1>1, <3>1, <3>2 DEF Max
  <2> HIDE DEF mine
  <2> QED BY <1>1, <2>3, <2>4
<1>6. CASE j = L + 1 /\ takes'[i].key # key
  <2>1. mine(i, j) = mine(i, L)
    <3>1. i..L + 1 = (i..L) \cup {L + 1}
      BY <1>1, <1>2
    <3> QED BY <1>1, <1>6, <3>1
  <2>2. Cardinality(others(i, L)) < WindowKeys
    <3>1. others(i, L) \subseteq others(i, j)
      BY <1>1, <1>6
    <3>2. IsFiniteSet(others(i, j))
      <4>1. IsFiniteSet(near(i, j))
        <5>1. IsFiniteSet(1..L + 1)
          BY <1>1, FS_Interval
        <5> QED BY <1>6, <5>1, FS_Subset
      <4> HIDE DEF near
      <4>2. PICK g : g = takes'
        OBVIOUS
      <4>3. IsFiniteSet({g[n].key : n \in near(i, j)})
        BY <4>1, ImageIsFinite
      <4>4. others(i, j) \subseteq {g[n].key : n \in near(i, j)}
        BY <4>2
      <4> QED BY <4>3, <4>4, FS_Subset
    <3> HIDE DEF others
    <3>3. /\ IsFiniteSet(others(i, L)) /\ Cardinality(others(i, L)) <= Cardinality(others(i, j))
          /\ Cardinality(others(i, j)) \in Nat /\ Cardinality(others(i, L)) \in Nat
      BY <3>1, <3>2, FS_Subset, FS_CardinalityType
    <3> QED BY <3>3, AiAssumption
  <2>3. i < L
    <3> SUFFICES ASSUME ~(i < L) PROVE FALSE
      OBVIOUS
    <3>1. mine(i, L) \subseteq {i} /\ IsFiniteSet({i}) /\ Cardinality({i}) = 1
      <4>1. i..L \subseteq {i}
        BY <1>1, <1>2
      <4> QED BY <4>1, FS_Singleton
    <3> HIDE DEF mine
    <3>2. Cardinality(mine(i, L)) <= 1 /\ Cardinality(mine(i, L)) \in Nat
      BY <3>1, FS_Subset, FS_CardinalityType
    <3> QED BY <2>1, <3>2, AiAssumption
  <2> HIDE DEF mine, others
  <2>4. L \in 1..L /\ Cardinality(mine(i, L)) >= 2 * PerMinute
    <3>1. L \in 1..L
      BY <1>1, <1>2
    <3>2. Cardinality(mine(i, L)) = Cardinality(mine(i, j))
      BY <2>1
    <3> QED BY <3>1, <3>2
  <2> QED BY <1>3, <2>1, <2>2, <2>3, <2>4
<1>7. j \in 1..L \/ j = L + 1
  BY <1>1
<1> HIDE DEF mine, others
<1> QED BY <1>4, <1>5, <1>6, <1>7, Zenon

\* MinuteHolds, of any takes.
HoldsFor(t) ==
  \A i, j \in 1..Len(t) :
    LET who == t[i].key
        mine == {n \in i..j : t[n].key = who}
        others == {t[n].key : n \in {m \in 1..j : t[m].at > t[i].at - WindowMs}} \ {who}
    IN  i < j /\ Cardinality(mine) >= 2 * PerMinute /\ Cardinality(others) < WindowKeys
          => t[Max(mine)].at - t[i].at >= WindowMs

LEMMA MinuteHoldsOfTakes == ASSUME MinuteHolds, takes' = takes PROVE MinuteHolds'
<1>1. HoldsFor(takes)
  BY DEF MinuteHolds, HoldsFor
<1>2. HoldsFor(takes')
  BY <1>1
<1> QED BY <1>2 DEF MinuteHolds, HoldsFor

LEMMA MinuteIsInductive ==
  /\ AiInit => MinuteInv /\ MinuteHolds
  /\ MinuteInv /\ MinuteHolds /\ [AiNext]_aiVars => MinuteInv' /\ MinuteHolds'
<1>1. ASSUME AiInit PROVE MinuteInv /\ MinuteHolds
  <2>1. <<>> \in Seq(WindowRecords) /\ <<>> \in Seq(TakeRecords) /\ 0 \in Nat
    OBVIOUS
  <2>2. Len(windows) = 0 /\ Len(takes) = 0 /\ 1..0 = {}
    BY <1>1 DEF AiInit
  <2>3. MinuteTypeOK
    BY <1>1, <2>1, <2>2 DEF AiInit, MinuteTypeOK
  <2> QED BY <2>2, <2>3 DEF MinuteInv, OneWindowEach, MinuteHolds
<1>2. ASSUME MinuteInv, MinuteHolds, [AiNext]_aiVars PROVE MinuteInv' /\ MinuteHolds'
  <2>1. ASSUME NEW c \in Call, NEW who \in Caller, Ask(c, who) PROVE MinuteInv' /\ MinuteHolds'
    <3>1. Take(who) /\ aiNow' = aiNow
      BY <2>1 DEF Ask
    <3>2. takes' = Append(takes, [key |-> who, at |-> aiNow])
      BY <3>1 DEF Take
    <3>3. MinuteInv'
      <4>1. CASE Open(who) = {}
        BY <1>2, <3>1, <4>1, FirstIsCounted
      <4>2. CASE Open(who) # {}
        <5>1. PICK o \in Open(who) :
                windows[o].count < PerMinute /\ windows' = [windows EXCEPT ![o].count = @ + 1]
          BY <3>1, <4>2 DEF Take
        <5> QED BY <1>2, <3>1, <3>2, <5>1, NextIsCounted
      <4> QED BY <4>1, <4>2
    <3>4. LastTaken'
      BY <3>3, LastIsFar, PTL
    <3> QED BY <1>2, <3>1, <3>2, <3>3, <3>4, CallIsFar
  <2>2. CASE AiTick
    <3>1. MinuteInv'
      BY <1>2, <2>2, TickIsCounted
    <3>2. takes' = takes
      BY <2>2 DEF AiTick, limitVars
    <3> QED BY <1>2, <3>1, <3>2, MinuteHoldsOfTakes
  <2>3. CASE UNCHANGED <<aiNow, windows, takes>>
    <3>1. aiNow' = aiNow /\ windows' = windows /\ takes' = takes
      BY <2>3
    <3>2. MinuteTypeOK' /\ OneWindowEach' /\ \A n \in 1..Len(windows') : IsOfACall(windows[n])'
      BY <1>2, <3>1 DEF MinuteInv, MinuteTypeOK, OneWindowEach, IsOfACall
    <3>3. \A i : NearCall(i)' = NearCall(i)
      BY <3>1 DEF NearCall
    <3>4. \A i : Counted(i)' = Counted(i)
      BY <3>1 DEF Counted, Counts, SinceCall, Open
    <3>5. MinuteHolds'
      BY <1>2, <3>1, MinuteHoldsOfTakes
    <3> QED BY <1>2, <3>1, <3>2, <3>3, <3>4, <3>5 DEF MinuteInv
  <2>4. ASSUME NEW c \in Call, Enter(c) \/ Begin(c) \/ Finish(c) \/ Abandon(c)
        PROVE  UNCHANGED <<aiNow, windows, takes>>
    BY <2>4 DEF Enter, Begin, Finish, Abandon, limitVars
  <2>5. CASE UNCHANGED aiVars
    BY <2>3, <2>5 DEF aiVars, limitVars
  <2> QED BY <1>2, <2>1, <2>2, <2>3, <2>4, <2>5 DEF AiNext
<1> QED BY <1>1, <1>2

\* MinuteHolds, for every number of callers, calls and windows (limits.ts, take).
THEOREM MinuteLimitHolds == AiSpec => []MinuteHolds
BY MinuteIsInductive, PTL DEF AiSpec

-----------------------------------------------------------------------------
(***************************************************************************)
(* The snapshot.  For any number of questions and of changes, no question  *)
(* is answered from a snapshot older than what it saw.  The argument: the  *)
(* caches only grow, so what a build reads after its question began it is  *)
(* no older than what that question read before; and a question asks for a *)
(* build of its own at most once, and then waits for that one alone.       *)
(***************************************************************************)

Texts == [problems : Nat, hosts : Nat, old : BOOLEAN, complete : BOOLEAN]
Builds == [runs : BOOLEAN, problems : Nat, hosts : Nat, old : BOOLEAN, cancelled : BOOLEAN]
Stages == {"idle", "reading", "waiting", "given", "again", "answered"}
Questions == [at : Stages, problems : Nat, hosts : Nat, built : BOOLEAN,
              on : Question \cup {NoBuilder}, given : Texts]

SnapshotTypeOK ==
  /\ view \in [problems : Nat, hosts : Nat]
  /\ kept \in Texts
  /\ builder \in Question \cup {NoBuilder}
  /\ build \in [Question -> Builds]
  /\ ask \in [Question -> Questions]

\* What a build has read so far is no older than what its question read.
ReadSince(b, q) ==
  /\ b.problems = Unread \/ b.problems >= q.problems
  /\ b.hosts = Unread \/ b.hosts >= q.hosts

\* A question, given the build it began.
QuestionOK(q, b, c) ==
  /\ q.problems <= view.problems /\ q.hosts <= view.hosts
  /\ q.at = "reading" => ~q.built
  /\ q.at = "again" => q.built
  /\ q.built /\ q.at \in {"waiting", "again"} => q.on = c /\ ReadSince(b, q)
  /\ q.built /\ q.at = "given" => q.given.problems >= q.problems /\ q.given.hosts >= q.hosts
  /\ q.at = "answered" /\ (q.given.complete \/ q.built) =>
       /\ q.given.problems >= q.problems
       /\ q.given.hosts >= q.hosts \/ ~q.given.old

SnapshotInv ==
  /\ SnapshotTypeOK
  /\ \A c \in Question : QuestionOK(ask[c], build[c], c)

LEMMA SnapshotInitial == SnapshotInit => SnapshotInv
<1> SUFFICES ASSUME SnapshotInit PROVE SnapshotInv
  OBVIOUS
<1>1. NoSnapshot \in Texts /\ NoBuild \in Builds
  BY DEF NoSnapshot, Texts, NoBuild, NewBuild, Builds, Unread
<1>2. Unasked \in Questions
  BY <1>1 DEF Unasked, Questions, Stages, NoBuilder, Unread
<1>3. SnapshotTypeOK
  BY <1>1, <1>2 DEF SnapshotInit, SnapshotTypeOK
<1>4. ASSUME NEW c \in Question PROVE QuestionOK(ask[c], build[c], c)
  BY DEF SnapshotInit, QuestionOK, Unasked, Unread
<1> QED BY <1>3, <1>4 DEF SnapshotInv

\* A change of the builds or of the estate that no question sees.
LEMMA BuildsMove ==
  ASSUME SnapshotInv, SnapshotTypeOK', UNCHANGED ask,
         view'.problems >= view.problems, view'.hosts >= view.hosts,
         \A c \in Question : ReadSince(build[c], ask[c]) => ReadSince(build'[c], ask[c])
  PROVE  SnapshotInv'
<1> SUFFICES ASSUME NEW c \in Question PROVE QuestionOK(ask[c], build[c], c)'
  BY DEF SnapshotInv
<1>1. ask[c].problems \in Nat /\ ask[c].hosts \in Nat /\ view.problems \in Nat /\ view.hosts \in Nat
      /\ view'.problems \in Nat /\ view'.hosts \in Nat
  BY DEF SnapshotInv, SnapshotTypeOK, Questions
<1>2. QuestionOK(ask[c], build[c], c)
  BY DEF SnapshotInv
<1>3. ask[c].problems <= view'.problems /\ ask[c].hosts <= view'.hosts
  BY <1>1, <1>2 DEF QuestionOK
<1> QED BY <1>2, <1>3 DEF QuestionOK

\* One question moves, and with it perhaps its own build.
LEMMA QuestionMoves ==
  ASSUME SnapshotInv, SnapshotTypeOK', UNCHANGED view, NEW c \in Question,
         \A d \in Question \ {c} : ask'[d] = ask[d] /\ ReadSince(build'[d], ask[d]) = ReadSince(build[d], ask[d]),
         QuestionOK(ask[c], build[c], c)'
  PROVE  SnapshotInv'
<1> SUFFICES ASSUME NEW d \in Question, d # c PROVE QuestionOK(ask[d], build[d], d)'
  BY DEF SnapshotInv
<1> QED BY DEF SnapshotInv, QuestionOK

LEMMA GatherKeeps == ASSUME SnapshotInv, NEW c \in Question, Gather(c) PROVE SnapshotInv'
<1>1. SnapshotTypeOK'
  BY DEF Gather, SnapshotInv, SnapshotTypeOK, Builds
<1>2. ASSUME NEW d \in Question, ReadSince(build[d], ask[d]) PROVE ReadSince(build'[d], ask[d])
  BY <1>2 DEF Gather, ReadSince, SnapshotInv, SnapshotTypeOK, QuestionOK, Builds, Questions
<1> QED
  BY <1>1, <1>2, BuildsMove DEF Gather, SnapshotInv, SnapshotTypeOK

LEMMA WrittenBackKeeps == ASSUME SnapshotInv, WrittenBack PROVE SnapshotInv'
<1>1. SnapshotTypeOK'
  BY DEF WrittenBack, Cancelled, NoSnapshot, Texts, NoBuilder, Unread, SnapshotInv, SnapshotTypeOK, Builds
<1>2. ASSUME NEW d \in Question, ReadSince(build[d], ask[d]) PROVE ReadSince(build'[d], ask[d])
  BY <1>2 DEF WrittenBack, Cancelled, ReadSince, SnapshotInv, SnapshotTypeOK, Builds
<1> QED
  BY <1>1, <1>2, BuildsMove DEF WrittenBack, SnapshotInv, SnapshotTypeOK

LEMMA ChangedKeeps == ASSUME SnapshotInv, Changed PROVE SnapshotInv'
<1>1. SnapshotTypeOK' /\ view'.problems >= view.problems /\ view'.hosts >= view.hosts
  BY DEF Changed, SnapshotInv, SnapshotTypeOK
<1> QED BY <1>1, BuildsMove DEF Changed

LEMMA ForgottenKeeps == ASSUME SnapshotInv, Forgotten PROVE SnapshotInv'
<1>1. SnapshotTypeOK'
  BY DEF Forgotten, NoSnapshot, Texts, Unread, SnapshotInv, SnapshotTypeOK
<1> QED BY <1>1, BuildsMove DEF Forgotten, SnapshotInv, SnapshotTypeOK

LEMMA MinutePassesKeeps == ASSUME SnapshotInv, MinutePasses PROVE SnapshotInv'
<1>1. SnapshotTypeOK'
  <2>1. kept' \in Texts
    BY DEF MinutePasses, Older, Texts, SnapshotInv, SnapshotTypeOK
  <2>2. build' \in [Question -> Builds]
    BY DEF MinutePasses, Older, Builds, SnapshotInv, SnapshotTypeOK
  <2>3. ASSUME NEW x \in Texts PROVE Older(x) \in Texts
    BY DEF Older, Texts
  <2>4. ask' \in [Question -> Questions]
    BY <2>3 DEF MinutePasses, Questions, SnapshotInv, SnapshotTypeOK
  <2> QED BY <2>1, <2>2, <2>4 DEF MinutePasses, SnapshotInv, SnapshotTypeOK
<1> SUFFICES ASSUME NEW c \in Question PROVE QuestionOK(ask[c], build[c], c)'
  BY <1>1 DEF SnapshotInv
<1>2. QuestionOK(ask[c], build[c], c) /\ ask[c] \in Questions /\ build[c] \in Builds
  BY DEF SnapshotInv, SnapshotTypeOK
<1>3. build'[c].problems = build[c].problems /\ build'[c].hosts = build[c].hosts
  BY <1>2 DEF MinutePasses, Older, Builds
<1>4. CASE ask[c].at = "given"
  <2>1. ask'[c] = [ask[c] EXCEPT !.given = Older(ask[c].given)]
    BY <1>4 DEF MinutePasses
  <2>2. /\ ask'[c].at = "given" /\ ask'[c].problems = ask[c].problems /\ ask'[c].hosts = ask[c].hosts
        /\ ask'[c].built = ask[c].built
        /\ ask'[c].given.problems = ask[c].given.problems /\ ask'[c].given.hosts = ask[c].given.hosts
    BY <1>2, <1>4, <2>1 DEF Questions, Texts, Older
  <2> QED BY <1>2, <1>4, <2>2 DEF QuestionOK, MinutePasses
<1>5. CASE ask[c].at # "given"
  <2>1. ask'[c] = ask[c]
    BY <1>5 DEF MinutePasses
  <2> QED BY <1>2, <1>3, <2>1 DEF QuestionOK, ReadSince, MinutePasses
<1> QED BY <1>4, <1>5

LEMMA AskWhatKeeps == ASSUME SnapshotInv, NEW c \in Question, AskWhat(c) PROVE SnapshotInv'
<1>1. ask'[c] = [Unasked EXCEPT !.at = "reading"] /\ \A d \in Question \ {c} : ask'[d] = ask[d]
  BY DEF AskWhat, SnapshotInv, SnapshotTypeOK
<1>2. SnapshotTypeOK'
  BY DEF AskWhat, Unasked, NoSnapshot, NoBuilder, Unread, Texts, Stages, Questions, SnapshotInv, SnapshotTypeOK
<1>3. QuestionOK(ask[c], build[c], c)'
  BY <1>1 DEF AskWhat, Unasked, Unread, QuestionOK, SnapshotInv, SnapshotTypeOK
<1> QED BY <1>1, <1>2, <1>3, QuestionMoves DEF AskWhat

LEMMA ComposeKeeps == ASSUME SnapshotInv, NEW c \in Question, Compose(c) PROVE SnapshotInv'
<1>1. SnapshotTypeOK'
  <2>1. Unasked \in Questions
    BY DEF Unasked, NoSnapshot, NoBuilder, Unread, Texts, Stages, Questions
  <2> QED BY <2>1 DEF Compose, Questions, SnapshotInv, SnapshotTypeOK
<1>2. \A d \in Question \ {c} : ask'[d] = ask[d]
  BY DEF Compose, SnapshotInv, SnapshotTypeOK
<1>3. QuestionOK(ask[c], build[c], c) /\ ask[c] \in Questions /\ ask[c].at = "reading"
  BY DEF Compose, SnapshotInv, SnapshotTypeOK
<1>4. QuestionOK(ask[c], build[c], c)'
  <2>1. ask[c].problems \in Nat /\ ask[c].hosts \in Nat /\ view' = view
        /\ view.problems \in Nat /\ view.hosts \in Nat /\ ask \in [Question -> Questions]
    BY <1>3 DEF Compose, Questions, SnapshotInv, SnapshotTypeOK
  <2>2. CASE ask' = [ask EXCEPT ![c].problems = view.problems]
    BY <1>3, <2>1, <2>2 DEF QuestionOK, Questions
  <2>3. CASE ask' = [ask EXCEPT ![c].hosts = view.hosts]
    BY <1>3, <2>1, <2>3 DEF QuestionOK, Questions
  <2>4. CASE ask' = [ask EXCEPT ![c] = Unasked]
    BY <1>3, <2>1, <2>4 DEF QuestionOK, Unasked, Unread
  <2> QED BY <2>2, <2>3, <2>4 DEF Compose
<1> QED BY <1>1, <1>2, <1>4, QuestionMoves DEF Compose

LEMMA LookUpKeeps == ASSUME SnapshotInv, NEW c \in Question, LookUp(c) PROVE SnapshotInv'
<1>1. QuestionOK(ask[c], build[c], c) /\ ask[c] \in Questions /\ ~ask[c].built
  BY DEF LookUp, SnapshotInv, SnapshotTypeOK, QuestionOK
<1>2. CASE kept # NoSnapshot
  <2>1. ask' = [ask EXCEPT ![c].at = "given", ![c].given = kept] /\ UNCHANGED <<builder, build>>
    BY <1>2 DEF LookUp
  <2>2. SnapshotTypeOK' /\ \A d \in Question \ {c} : ask'[d] = ask[d]
    BY <2>1 DEF LookUp, SnapshotInv, SnapshotTypeOK, Questions, Stages
  <2>3. QuestionOK(ask[c], build[c], c)'
    BY <1>1, <2>1 DEF LookUp, QuestionOK, Questions, SnapshotInv, SnapshotTypeOK
  <2> QED BY <2>1, <2>2, <2>3, QuestionMoves DEF LookUp
<1>3. CASE kept = NoSnapshot /\ builder # NoBuilder
  <2>1. ask' = [ask EXCEPT ![c].at = "waiting", ![c].on = builder] /\ UNCHANGED <<builder, build>>
    BY <1>3 DEF LookUp
  <2>2. SnapshotTypeOK' /\ \A d \in Question \ {c} : ask'[d] = ask[d]
    BY <2>1 DEF LookUp, SnapshotInv, SnapshotTypeOK, Questions, Stages
  <2>3. QuestionOK(ask[c], build[c], c)'
    BY <1>1, <2>1 DEF LookUp, QuestionOK, Questions, SnapshotInv, SnapshotTypeOK
  <2> QED BY <2>1, <2>2, <2>3, QuestionMoves DEF LookUp
<1>4. CASE kept = NoSnapshot /\ builder = NoBuilder
  <2>1. /\ ask' = [ask EXCEPT ![c].at = "waiting", ![c].on = c, ![c].built = TRUE]
        /\ builder' = c /\ build' = [build EXCEPT ![c] = NewBuild]
    BY <1>4 DEF LookUp
  <2>2. /\ SnapshotTypeOK'
        /\ \A d \in Question \ {c} : ask'[d] = ask[d] /\ build'[d] = build[d]
    BY <2>1 DEF LookUp, SnapshotInv, SnapshotTypeOK, Questions, Stages, Builds, NewBuild, Unread
  <2>3. QuestionOK(ask[c], build[c], c)'
    BY <1>1, <2>1 DEF LookUp, QuestionOK, ReadSince, NewBuild, Unread, Questions, SnapshotInv, SnapshotTypeOK
  <2> QED BY <2>1, <2>2, <2>3, QuestionMoves DEF LookUp
<1> QED BY <1>2, <1>3, <1>4

LEMMA CompareKeeps == ASSUME SnapshotInv, NEW c \in Question, Compare(c) PROVE SnapshotInv'
<1>1. QuestionOK(ask[c], build[c], c) /\ ask[c] \in Questions /\ ask[c].at = "given"
  BY DEF Compare, SnapshotInv, SnapshotTypeOK, QuestionOK
<1>2. CASE ask[c].built \/ ~Outdated(ask[c])
  <2>1. ask' = [ask EXCEPT ![c].at = "answered"] /\ UNCHANGED <<builder, build>>
    BY <1>2 DEF Compare
  <2>2. SnapshotTypeOK' /\ \A d \in Question \ {c} : ask'[d] = ask[d]
    BY <1>2, <2>1 DEF Compare, SnapshotInv, SnapshotTypeOK, Questions, Stages
  <2>3. QuestionOK(ask[c], build[c], c)'
    BY <1>1, <1>2, <2>1 DEF Compare, Outdated, QuestionOK, Questions, Texts, SnapshotInv, SnapshotTypeOK
  <2> QED BY <2>1, <2>2, <2>3, QuestionMoves DEF Compare
<1>3. CASE ~(ask[c].built \/ ~Outdated(ask[c]))
  <2>1. /\ ask' = [ask EXCEPT ![c].at = "again", ![c].on = c, ![c].built = TRUE]
        /\ builder' = c /\ kept' = NoSnapshot
        /\ build' = [d \in Question |->
                       IF d = c THEN NewBuild ELSE IF d = builder THEN Cancelled(d) ELSE build[d]]
    BY <1>3 DEF Compare
  <2>2. SnapshotTypeOK'
    <3>1. NewBuild \in Builds /\ NoSnapshot \in Texts
      BY DEF NewBuild, Builds, NoSnapshot, Texts, Unread
    <3>2. \A d \in Question : build[d] \in Builds /\ Cancelled(d) \in Builds
      BY DEF Cancelled, SnapshotInv, SnapshotTypeOK, Builds
    <3>3. build' \in [Question -> Builds] /\ kept' \in Texts
      BY <2>1, <3>1, <3>2
    <3>4. [ask[c] EXCEPT !.at = "again", !.on = c, !.built = TRUE] \in Questions
      BY <1>1 DEF Questions, Stages
    <3>5. ask' \in [Question -> Questions] /\ builder' \in Question \cup {NoBuilder}
      BY <2>1, <3>4 DEF SnapshotInv, SnapshotTypeOK
    <3> QED BY <3>3, <3>5 DEF Compare, SnapshotInv, SnapshotTypeOK
  <2>3. ASSUME NEW d \in Question, d # c
        PROVE  ask'[d] = ask[d] /\ ReadSince(build'[d], ask[d]) = ReadSince(build[d], ask[d])
    BY <2>1, <2>3 DEF Cancelled, ReadSince, Builds, SnapshotInv, SnapshotTypeOK
  <2>4. QuestionOK(ask[c], build[c], c)'
    BY <1>1, <2>1 DEF Compare, QuestionOK, ReadSince, NewBuild, Unread, Questions, SnapshotInv, SnapshotTypeOK
  <2> QED BY <2>2, <2>3, <2>4, QuestionMoves DEF Compare
<1> QED BY <1>2, <1>3

LEMMA BuiltKeeps == ASSUME SnapshotInv, NEW c \in Question, Built(c) PROVE SnapshotInv'
<1>0. PICK complete \in BOOLEAN :
      LET snapshot == [problems |-> build[c].problems, hosts |-> build[c].hosts,
                       old |-> build[c].old, complete |-> complete] IN
      /\ kept' = IF complete /\ ~build[c].cancelled THEN snapshot ELSE kept
      /\ ask' = [d \in Question |->
                   IF d \notin WaitOn(c) THEN ask[d]
                   ELSE [ask[d] EXCEPT !.given = snapshot, !.on = NoBuilder,
                           !.at = IF complete /\ @ = "waiting" THEN "given" ELSE "answered"]]
  BY DEF Built
<1> DEFINE snapshot == [problems |-> build[c].problems, hosts |-> build[c].hosts,
                        old |-> build[c].old, complete |-> complete]
<1>1. snapshot \in Texts
  BY DEF SnapshotInv, SnapshotTypeOK, Builds, Texts
<1>2. /\ build' \in [Question -> Builds] /\ builder' \in Question \cup {NoBuilder}
      /\ build'[c] = NoBuild /\ \A d \in Question \ {c} : build'[d] = build[d]
  BY DEF Built, Settled, NoBuild, NewBuild, Unread, Builds, SnapshotInv, SnapshotTypeOK
<1>3. kept' \in Texts
  BY <1>0, <1>1 DEF SnapshotInv, SnapshotTypeOK
<1>4. ASSUME NEW d \in Question PROVE ask'[d] \in Questions /\ QuestionOK(ask[d], build[d], d)'
  <2>1. ask[d] \in Questions /\ QuestionOK(ask[d], build[d], d) /\ view' = view
    BY DEF SnapshotInv, SnapshotTypeOK, Built
  <2>2. CASE d \notin WaitOn(c)
    <3>1. ask'[d] = ask[d]
      BY <1>0, <2>2
    <3>2. ReadSince(build[d], ask[d]) => ReadSince(build'[d], ask[d])
      BY <1>2 DEF ReadSince, NoBuild, NewBuild
    <3>3. ask[d].built /\ ask[d].at \in {"waiting", "again"} => ReadSince(build'[d], ask[d])
      BY <2>1, <3>2 DEF QuestionOK
    <3>4. QuestionOK(ask[d], build[d], d)'
      BY <2>1, <3>1, <3>3 DEF QuestionOK
    <3> QED BY <2>1, <3>1, <3>4
  <2>3. CASE d \in WaitOn(c)
    <3>1. ask[d].at \in {"waiting", "again"} /\ ask[d].on = c
      BY <2>3 DEF WaitOn
    <3>2. /\ ask'[d].problems = ask[d].problems /\ ask'[d].hosts = ask[d].hosts
          /\ ask'[d].built = ask[d].built /\ ask'[d].given = snapshot
          /\ ask'[d].at = IF complete /\ ask[d].at = "waiting" THEN "given" ELSE "answered"
          /\ ask'[d] \in Questions
      BY <1>0, <1>1, <2>1, <2>3 DEF Questions, Stages
    <3>3. ask[d].built => snapshot.problems >= ask[d].problems /\ snapshot.hosts >= ask[d].hosts
      <4> SUFFICES ASSUME ask[d].built PROVE snapshot.problems >= ask[d].problems /\ snapshot.hosts >= ask[d].hosts
        OBVIOUS
      <4>1. d = c /\ ReadSince(build[d], ask[d])
        BY <2>1, <3>1 DEF QuestionOK
      <4>2. build[c].problems # Unread /\ build[c].hosts # Unread
        BY DEF Built
      <4> QED BY <4>1, <4>2 DEF ReadSince
    <3>4. ask'[d].at = "given" \/ (ask'[d].at = "answered" /\ (snapshot.complete => ask[d].built))
      BY <2>1, <3>1, <3>2 DEF QuestionOK
    <3> HIDE DEF snapshot
    <3>5. CASE ask'[d].at = "given"
      BY <2>1, <3>2, <3>3, <3>5 DEF QuestionOK
    <3>6. CASE ask'[d].at = "answered" /\ (snapshot.complete => ask[d].built)
      BY <2>1, <3>2, <3>3, <3>6 DEF QuestionOK
    <3> QED BY <3>2, <3>4, <3>5, <3>6
  <2> QED BY <2>2, <2>3
<1>5. ask' \in [Question -> Questions]
  BY <1>0, <1>4
<1> QED BY <1>2, <1>3, <1>4, <1>5 DEF Built, SnapshotInv, SnapshotTypeOK

LEMMA NotBuiltKeeps == ASSUME SnapshotInv, NEW c \in Question, NotBuilt(c) PROVE SnapshotInv'
<1>1. /\ build' \in [Question -> Builds] /\ builder' \in Question \cup {NoBuilder}
      /\ build'[c] = NoBuild /\ \A d \in Question \ {c} : build'[d] = build[d]
  BY DEF NotBuilt, Settled, NoBuild, NewBuild, Unread, Builds, SnapshotInv, SnapshotTypeOK
<1>2. ASSUME NEW d \in Question PROVE ask'[d] \in Questions /\ QuestionOK(ask[d], build[d], d)'
  <2>1. ask[d] \in Questions /\ QuestionOK(ask[d], build[d], d) /\ view' = view
    BY DEF SnapshotInv, SnapshotTypeOK, NotBuilt
  <2>2. ReadSince(build[d], ask[d]) => ReadSince(build'[d], ask[d])
    BY <1>1 DEF ReadSince, NoBuild, NewBuild
  <2>3. CASE ask'[d] = ask[d]
    BY <2>1, <2>2, <2>3 DEF QuestionOK
  <2>4. CASE ask'[d] = Unasked
    BY <2>1, <2>4 DEF QuestionOK, Unasked, Questions, Stages, Texts, NoSnapshot, NoBuilder, Unread,
                      SnapshotInv, SnapshotTypeOK
  <2> QED BY <2>3, <2>4 DEF NotBuilt
<1>3. ask' \in [Question -> Questions]
  BY <1>2 DEF NotBuilt
<1> QED BY <1>1, <1>2, <1>3 DEF NotBuilt, SnapshotInv, SnapshotTypeOK

LEMMA SnapshotStep == SnapshotInv /\ [SnapshotNext]_snapshotVars => SnapshotInv'
<1>1. ASSUME SnapshotInv, UNCHANGED snapshotVars PROVE SnapshotInv'
  BY <1>1 DEF snapshotVars, SnapshotInv, SnapshotTypeOK, QuestionOK
<1> QED
  BY <1>1, ChangedKeeps, MinutePassesKeeps, ForgottenKeeps, WrittenBackKeeps, AskWhatKeeps, ComposeKeeps,
     LookUpKeeps, CompareKeeps, GatherKeeps, BuiltKeeps, NotBuiltKeeps DEF SnapshotNext

\* "Not stale where it matters" (assistantSnapshot.ts:443-445), for any number of
\* overlapping questions and any number of changes of the estate.
THEOREM AnswersAreCurrent == SnapshotSpec => []SnapshotCurrent
<1>1. SnapshotInv => SnapshotCurrent
  BY DEF SnapshotInv, QuestionOK, SnapshotCurrent
<1> QED BY <1>1, SnapshotInitial, SnapshotStep, PTL DEF SnapshotSpec

-----------------------------------------------------------------------------
(***************************************************************************)
(* Readiness.  One call at most is at Zabbix, whatever the timers and the  *)
(* pollers do.  The argument: while the check waits for it, the call there *)
(* is the check's own and as old as the check; one that was given up is    *)
(* ReadyTimeout older than the answer that was kept of it; and the next    *)
(* check begins ReadyTtl after that answer, when a call so old has ended.  *)
(* So a call of a check that gave up is never there when one begins.       *)
(***************************************************************************)

ReadyTypeOK ==
  /\ last \in [age : 0..ReadyStale, zabbix : Verdicts \cup {"never"}]
  /\ check \in [elapsed : 0..ReadyTimeout, zabbix : Verdicts \cup {"none", "out"}, modelSaid : BOOLEAN]
  /\ atZabbix \subseteq 0..ZbxLimit
  /\ caller \in [waits : BOOLEAN, given : 0..(ReadyStale - 1)]

\* Whose call is at Zabbix.
CallIsKnown ==
  /\ check.zabbix = "none" => check = NoCheck /\ atZabbix \subseteq {ReadyTimeout + last.age}
  /\ check.zabbix = "out" => atZabbix = {check.elapsed}
  /\ check.zabbix \in {"ok", "error"} => atZabbix = {}
  /\ check.zabbix = "timeout" => check.elapsed = ReadyTimeout /\ atZabbix \subseteq {ReadyTimeout}

ReadyInv == ReadyTypeOK /\ CallIsKnown

LEMMA ReadyInitial == ReadyInit => ReadyInv
BY ReadinessAssumption
   DEF ReadyInit, ReadyInv, ReadyTypeOK, CallIsKnown, Never, NewCheck, NoCheck, Verdicts

LEMMA RefreshKeeps ==
  ASSUME ReadyInv, Refresh, last.age >= ReadyTtl, UNCHANGED last,
         caller' \in [waits : BOOLEAN, given : 0..(ReadyStale - 1)]
  PROVE  ReadyInv'
<1>1. CASE check # NoCheck
  BY <1>1 DEF Refresh, ReadyInv, ReadyTypeOK, CallIsKnown
<1>2. CASE check = NoCheck
  <2>1. check.zabbix = "none"
    BY <1>2 DEF NoCheck
  <2>2. \A a \in atZabbix : a = ReadyTimeout + last.age /\ a <= ZbxLimit
    BY <2>1 DEF ReadyInv, ReadyTypeOK, CallIsKnown
  <2>3. atZabbix = {}
    BY <2>2, ReadinessAssumption DEF ReadyInv, ReadyTypeOK
  <2>4. atZabbix' = {0} /\ check' = NewCheck
    BY <1>2, <2>3 DEF Refresh
  <2> QED
    BY <2>4, ReadinessAssumption DEF ReadyInv, ReadyTypeOK, CallIsKnown, NewCheck, NoCheck
<1> QED BY <1>1, <1>2

LEMMA ReadyTickKeeps == ASSUME ReadyInv, ReadyTick PROVE ReadyInv'
<1>1. last' \in [age : 0..ReadyStale, zabbix : Verdicts \cup {"never"}]
      /\ (last.age # ReadyStale => last'.age = last.age + 1)
      /\ (last.age = ReadyStale => last'.age = last.age)
  BY ReadinessAssumption DEF ReadyTick, ReadyInv, ReadyTypeOK
<1>2. \A b \in atZabbix' : \E a \in atZabbix : b = a + 1 /\ a \in 0..ZbxLimit /\ a < ZbxLimit
  BY DEF ReadyTick, ReadyInv, ReadyTypeOK
<1>3. atZabbix' \subseteq 0..ZbxLimit
  BY <1>2, ReadinessAssumption
<1>4. CASE check = NoCheck
  <2>1. check' = check /\ check.zabbix = "none"
    BY <1>4 DEF ReadyTick, NoCheck
  <2>2. ASSUME NEW b \in atZabbix' PROVE b = ReadyTimeout + last'.age
    <3>1. PICK a \in atZabbix : b = a + 1 /\ a < ZbxLimit
      BY <1>2
    <3>2. a = ReadyTimeout + last.age
      BY <2>1 DEF ReadyInv, CallIsKnown
    <3>3. last.age # ReadyStale
      BY <3>1, <3>2, ReadinessAssumption DEF ReadyInv, ReadyTypeOK
    <3> QED
      BY <1>1, <3>1, <3>2, <3>3, ReadinessAssumption DEF ReadyInv, ReadyTypeOK
  <2> QED
    BY <1>1, <1>3, <1>4, <2>1, <2>2 DEF ReadyTick, ReadyInv, ReadyTypeOK, CallIsKnown, NoCheck
<1>5. CASE check # NoCheck
  <2>1. check' = [check EXCEPT !.elapsed = check.elapsed + 1] /\ check.elapsed < ReadyTimeout
    BY <1>5 DEF ReadyTick
  <2>2. check'.elapsed = check.elapsed + 1 /\ check'.zabbix = check.zabbix
        /\ check' \in [elapsed : 0..ReadyTimeout, zabbix : Verdicts \cup {"none", "out"}, modelSaid : BOOLEAN]
    BY <2>1, ReadinessAssumption DEF ReadyInv, ReadyTypeOK
  <2>3. check.zabbix \notin {"none", "timeout"}
    BY <1>5, <2>1, ReadinessAssumption DEF ReadyInv, ReadyTypeOK, CallIsKnown
  <2>4. check.zabbix = "out" => atZabbix' = {check'.elapsed}
    BY <2>2 DEF ReadyTick, ReadyInv, CallIsKnown
  <2>5. check.zabbix \in {"ok", "error"} => atZabbix' = {}
    BY DEF ReadyTick, ReadyInv, CallIsKnown
  <2> QED
    BY <1>1, <1>3, <2>2, <2>3, <2>4, <2>5 DEF ReadyTick, ReadyInv, ReadyTypeOK, CallIsKnown
<1> QED BY <1>4, <1>5

LEMMA ReadyStep == ReadyInv /\ [ReadyNext]_readyVars => ReadyInv'
<1> SUFFICES ASSUME ReadyInv, [ReadyNext]_readyVars PROVE ReadyInv'
  OBVIOUS
<1>1. CASE Get
  <2>1. last.age \in 0..ReadyStale /\ ReadyTtl \in Nat /\ ReadyStale \in Nat /\ ReadyTtl < ReadyStale
    BY ReadinessAssumption DEF ReadyInv, ReadyTypeOK
  <2>2. \/ caller' = [waits |-> FALSE, given |-> last.age] /\ last.age < ReadyStale
        \/ caller' = [caller EXCEPT !.waits = TRUE]
    BY <1>1, <2>1 DEF Get
  <2>3. caller' \in [waits : BOOLEAN, given : 0..(ReadyStale - 1)]
    <3>1. CASE caller' = [caller EXCEPT !.waits = TRUE]
      BY <3>1 DEF ReadyInv, ReadyTypeOK
    <3>2. CASE caller' = [waits |-> FALSE, given |-> last.age] /\ last.age < ReadyStale
      <4>1. last.age \in 0..(ReadyStale - 1)
        BY <2>1, <3>2
      <4> QED BY <3>2, <4>1
    <3> QED BY <2>2, <3>1, <3>2
  <2>4. CASE last.age < ReadyTtl
    <3>1. UNCHANGED <<last, check, atZabbix>>
      BY <1>1, <2>4 DEF Get
    <3> QED BY <2>3, <3>1 DEF ReadyInv, ReadyTypeOK, CallIsKnown
  <2>5. CASE ~(last.age < ReadyTtl)
    <3>1. last.age >= ReadyTtl /\ Refresh /\ UNCHANGED last
      BY <1>1, <2>1, <2>5 DEF Get
    <3> QED BY <2>3, <3>1, RefreshKeeps
  <2> QED BY <2>4, <2>5
<1>2. CASE ZabbixEnds
  <2>1. PICK a \in atZabbix :
          /\ atZabbix' = atZabbix \ {a}
          /\ IF check # NoCheck /\ check.elapsed = a /\ check.zabbix = "out"
             THEN \E verdict \in {"ok", "error"} : check' = [check EXCEPT !.zabbix = verdict]
             ELSE UNCHANGED check
          /\ UNCHANGED <<last, caller>>
    BY <1>2 DEF ZabbixEnds
  <2>2. CASE check.zabbix = "out"
    <3>1. a = check.elapsed /\ atZabbix' = {} /\ check # NoCheck
      BY <2>1, <2>2 DEF ReadyInv, CallIsKnown, NoCheck
    <3>2. PICK verdict \in {"ok", "error"} : check' = [check EXCEPT !.zabbix = verdict]
      BY <2>1, <2>2, <3>1
    <3> QED
      BY <2>1, <3>1, <3>2 DEF ReadyInv, ReadyTypeOK, CallIsKnown, Verdicts
  <2>3. CASE check.zabbix # "out"
    BY <2>1, <2>3 DEF ReadyInv, ReadyTypeOK, CallIsKnown
  <2> QED BY <2>2, <2>3
<1>3. CASE GivesUp
  BY <1>3, ReadinessAssumption DEF GivesUp, ReadyInv, ReadyTypeOK, CallIsKnown, Verdicts
<1>4. CASE ModelSays
  BY <1>4 DEF ModelSays, ReadyInv, ReadyTypeOK, CallIsKnown
<1>5. CASE CheckEnds
  BY <1>5, ReadinessAssumption DEF CheckEnds, ReadyInv, ReadyTypeOK, CallIsKnown, NoCheck, Verdicts
<1>6. CASE ReadyTick
  BY <1>6, ReadyTickKeeps
<1>7. CASE UNCHANGED readyVars
  BY <1>7 DEF readyVars, ReadyInv, ReadyTypeOK, CallIsKnown
<1> QED BY <1>1, <1>2, <1>3, <1>4, <1>5, <1>6, <1>7 DEF ReadyNext

\* "Polling health cannot pile calls onto Zabbix" (createReadiness): at most one
\* call is there, those of checks that gave up counted, and nobody is given an
\* answer of READY_STALE_MS or more, for any time limits that are to each other
\* as the defaults are.
THEOREM HealthIsBounded == ReadySpec => []HealthBounded
<1>1. ReadyInv => HealthBounded
  <2> SUFFICES ASSUME ReadyInv PROVE HealthBounded
    OBVIOUS
  <2>1. \E a : atZabbix \subseteq {a}
    BY DEF ReadyInv, ReadyTypeOK, CallIsKnown, Verdicts
  <2>2. PICK a : atZabbix = {} \/ atZabbix = {a}
    BY <2>1
  <2>3. Cardinality(atZabbix) <= 1
    <3>1. CASE atZabbix = {}
      BY <3>1, FS_EmptySet
    <3>2. CASE atZabbix = {a}
      <4>1. Cardinality({a}) = 1
        BY FS_Singleton
      <4> QED BY <3>2, <4>1
    <3> QED BY <2>2, <3>1, <3>2
  <2> QED
    BY <2>3, ReadinessAssumption DEF ReadyInv, ReadyTypeOK, HealthBounded
<1> QED BY <1>1, ReadyInitial, ReadyStep, PTL DEF ReadySpec

-----------------------------------------------------------------------------
(***************************************************************************)
(* The tree made of the estate has all of it, once, whatever the names of  *)
(* its hosts say.  The argument: of lists that fall, how many are at least *)
(* so severe says all, and of such counts a node may lose only what is     *)
(* more than it shows of; the ids under the nodes of one parent are apart, *)
(* so counts add up.                                                       *)
(***************************************************************************)

(* The worst of some problems.                                             *)

Lesser(a, b) == IF a < b THEN a ELSE b

\* How many of a list are at least so severe.
AtOrAbove(s, v) == {n \in 1..Len(s) : s[n] >= v}
Num(s, v) == Cardinality(AtOrAbove(s, v))
Falling(s) == \A m, n \in 1..Len(s) : m <= n => s[m] >= s[n]

LEMMA TwoApart ==
  ASSUME NEW S, NEW T, IsFiniteSet(S), IsFiniteSet(T), S \cap T = {}
  PROVE  /\ IsFiniteSet(S \cup T) /\ Cardinality(S) \in Nat /\ Cardinality(T) \in Nat
         /\ Cardinality(S \cup T) = Cardinality(S) + Cardinality(T)
<1>1. Cardinality(S \cap T) = 0
  BY FS_EmptySet
<1>2. Cardinality(S) \in Nat /\ Cardinality(T) \in Nat
  BY FS_CardinalityType
<1>3. /\ IsFiniteSet(S \cup T)
      /\ Cardinality(S \cup T) = Cardinality(S) + Cardinality(T) - Cardinality(S \cap T)
  BY FS_Union
<1>4. Cardinality(S \cup T) = Cardinality(S) + Cardinality(T)
  BY <1>1, <1>2, <1>3
<1> QED BY <1>2, <1>3, <1>4

LEMMA NumIs ==
  ASSUME NEW s \in Seq(Nat), NEW v \in Nat
  PROVE  /\ IsFiniteSet(AtOrAbove(s, v)) /\ Num(s, v) \in 0..Len(s) /\ Num(s, v) \in Nat /\ Len(s) \in Nat
         /\ v = 0 => Num(s, v) = Len(s)
         /\ Num(s, v) # 0 <=> \E n \in 1..Len(s) : s[n] >= v
<1>1. Len(s) \in Nat /\ AtOrAbove(s, v) \subseteq 1..Len(s) /\ \A n \in 1..Len(s) : s[n] \in Nat
  <2>1. AtOrAbove(s, v) \subseteq 1..Len(s)
    BY DEF AtOrAbove
  <2> QED BY <2>1
<1>2. IsFiniteSet(1..Len(s)) /\ Cardinality(1..Len(s)) = Len(s)
  <2>1. \A k \in Nat : IsFiniteSet(1..k) /\ Cardinality(1..k) = k
    BY FS_Interval
  <2> QED BY <1>1, <2>1
<1>3. IsFiniteSet(AtOrAbove(s, v)) /\ Cardinality(AtOrAbove(s, v)) <= Len(s)
  BY <1>1, <1>2, FS_Subset
<1>4. Num(s, v) \in Nat
  BY <1>3, FS_CardinalityType DEF Num
<1>5. v = 0 => AtOrAbove(s, v) = 1..Len(s)
  BY <1>1 DEF AtOrAbove
<1>6. Num(s, v) # 0 <=> AtOrAbove(s, v) # {}
  BY <1>3, FS_EmptySet DEF Num
<1>7. AtOrAbove(s, v) # {} <=> \E n \in 1..Len(s) : s[n] >= v
  BY DEF AtOrAbove
<1> QED BY <1>1, <1>2, <1>3, <1>4, <1>5, <1>6, <1>7 DEF Num

\* How many a beginning holds.
LEMMA NumOfOneMore ==
  ASSUME NEW s \in Seq(Nat), NEW n \in 1..Len(s), NEW v \in Nat
  PROVE  LET upTo(k) == {i \in 1..k : s[i] >= v} IN
         /\ Cardinality(upTo(n - 1)) \in Nat
         /\ Cardinality(upTo(n)) = Cardinality(upTo(n - 1)) + (IF s[n] >= v THEN 1 ELSE 0)
<1> DEFINE upTo(k) == {i \in 1..k : s[i] >= v}
<1>1. n \in Nat /\ n - 1 \in Nat /\ n \notin upTo(n - 1)
  OBVIOUS
<1>2. IsFiniteSet(upTo(n - 1)) /\ Cardinality(upTo(n - 1)) \in Nat
  <2>1. IsFiniteSet(1..(n - 1)) /\ upTo(n - 1) \subseteq 1..(n - 1)
    BY <1>1, FS_Interval
  <2> QED BY <2>1, FS_Subset, FS_CardinalityType
<1>3. upTo(n) = IF s[n] >= v THEN upTo(n - 1) \cup {n} ELSE upTo(n - 1)
  <2>1. \A i \in 1..n : i \in 1..(n - 1) \/ i = n
    BY <1>1
  <2>2. \A i \in 1..(n - 1) : i \in 1..n
    BY <1>1
  <2> QED BY <1>1, <2>1, <2>2
<1> HIDE DEF upTo
<1>4. Cardinality(upTo(n)) = Cardinality(upTo(n - 1)) + (IF s[n] >= v THEN 1 ELSE 0)
  <2>1. Cardinality(upTo(n - 1) \cup {n}) = Cardinality(upTo(n - 1)) + 1
    BY <1>1, <1>2, FS_AddElement
  <2> QED BY <1>2, <1>3, <2>1
<1> QED BY <1>2, <1>4 DEF upTo

\* Two lists, one after the other.
LEMMA NumOfBoth ==
  ASSUME NEW a \in Seq(Nat), NEW b \in Seq(Nat), NEW v \in Nat
  PROVE  a \o b \in Seq(Nat) /\ Num(a \o b, v) = Num(a, v) + Num(b, v)
<1> DEFINE c == a \o b
           M == Len(a)
           T == {n \in M + 1..M + Len(b) : b[n - M] >= v}
           f == [n \in AtOrAbove(b, v) |-> M + n]
<1>1. /\ M \in Nat /\ Len(b) \in Nat /\ c \in Seq(Nat) /\ Len(c) = M + Len(b)
      /\ \A n \in 1..M : c[n] = a[n]
      /\ \A n \in M + 1..M + Len(b) : c[n] = b[n - M]
  OBVIOUS
<1> HIDE DEF c, M
<1>2. AtOrAbove(c, v) = AtOrAbove(a, v) \cup T /\ AtOrAbove(a, v) \cap T = {}
  <2>1. \A n \in 1..(M + Len(b)) : n \in 1..M \/ n \in M + 1..M + Len(b)
    BY <1>1
  <2>2. \A n \in 1..M : n \in 1..(M + Len(b)) /\ n \notin M + 1..M + Len(b)
    BY <1>1
  <2>3. \A n \in M + 1..M + Len(b) : n \in 1..(M + Len(b))
    BY <1>1
  <2> QED BY <1>1, <2>1, <2>2, <2>3 DEF AtOrAbove, M
<1>3. IsFiniteSet(AtOrAbove(a, v)) /\ IsFiniteSet(AtOrAbove(b, v))
  BY NumIs
<1>4. f \in Bijection(AtOrAbove(b, v), T)
  <2>1. \A n \in AtOrAbove(b, v) : n \in Nat /\ M + n \in T
    BY <1>1 DEF AtOrAbove
  <2>2. \A t \in T : t - M \in AtOrAbove(b, v) /\ t = M + (t - M)
    BY <1>1 DEF AtOrAbove
  <2>3. f \in Injection(AtOrAbove(b, v), T)
    <3>1. \A m, n \in AtOrAbove(b, v) : M + m = M + n => m = n
      BY <1>1, <2>1
    <3> HIDE DEF T
    <3> QED BY <2>1, <3>1 DEF Injection, IsInjective
  <2>4. f \in Surjection(AtOrAbove(b, v), T)
    <3> HIDE DEF T
    <3> QED BY <2>1, <2>2 DEF Surjection
  <2> QED BY <2>3, <2>4 DEF Bijection
<1> HIDE DEF f, T
<1>5. IsFiniteSet(T) /\ Cardinality(T) = Num(b, v)
  <2>1. ExistsBijection(AtOrAbove(b, v), T)
    BY <1>4 DEF ExistsBijection
  <2> QED BY <1>3, <2>1, FS_Bijection DEF Num
<1>6. Num(c, v) = Num(a, v) + Num(b, v)
  BY <1>2, <1>3, <1>5, TwoApart DEF Num
<1> QED BY <1>1, <1>6 DEF c

\* Of a list that falls, those at least so severe come first.
LEMMA FallingNum ==
  ASSUME NEW s \in Seq(Nat), Falling(s), NEW v \in Nat
  PROVE  \A n \in 1..Len(s) : s[n] >= v <=> n <= Num(s, v)
<1> DEFINE U == AtOrAbove(s, v)
<1>1. /\ Len(s) \in Nat /\ IsFiniteSet(U) /\ Num(s, v) \in Nat /\ U \subseteq 1..Len(s)
      /\ Num(s, v) = Cardinality(U)
      /\ \A n \in 1..Len(s) : s[n] \in Nat
      /\ \A n \in 1..Len(s) : n \in U <=> s[n] >= v
  <2>1. Len(s) \in Nat /\ \A n \in 1..Len(s) : s[n] \in Nat
    OBVIOUS
  <2>2. IsFiniteSet(U) /\ Num(s, v) \in Nat
    BY NumIs
  <2>3. U \subseteq 1..Len(s) /\ \A n \in 1..Len(s) : n \in U <=> s[n] >= v
    BY DEF AtOrAbove
  <2> QED BY <2>1, <2>2, <2>3 DEF Num
<1>2. \A m, n \in 1..Len(s) : n \in U /\ m <= n => m \in U
  BY <1>1 DEF Falling
<1> HIDE DEF U
<1>3. CASE U = {}
  BY <1>1, <1>3, FS_EmptySet
<1>4. CASE U # {}
  <2>1. PICK x \in U : \A y \in U : x >= y
    BY <1>1, <1>4, HasALargest
  <2>2. U = 1..x
    <3>1. x \in Nat /\ x \in 1..Len(s) /\ \A y \in U : y \in Nat /\ y \in 1..x
      BY <1>1, <2>1
    <3>2. \A y \in 1..x : y \in 1..Len(s) /\ y <= x
      BY <1>1, <3>1
    <3>3. \A y \in 1..x : y \in U
      BY <1>2, <3>1, <3>2
    <3> QED BY <3>1, <3>3
  <2>3. x \in Nat /\ Cardinality(1..x) = x
    BY <1>1, <2>1, FS_Interval
  <2> QED BY <1>1, <2>2, <2>3
<1> QED BY <1>3, <1>4

\* Two that fall and hold as many of everything are the same.
LEMMA SameNum ==
  ASSUME NEW a \in Seq(Nat), NEW b \in Seq(Nat), Falling(a), Falling(b), \A v \in Nat : Num(a, v) = Num(b, v)
  PROVE  a = b
<1>1. Len(a) = Len(b) /\ Len(a) \in Nat
  BY NumIs
<1>2. ASSUME NEW n \in 1..Len(a) PROVE a[n] = b[n]
  <2>1. a[n] \in Nat /\ b[n] \in Nat /\ n \in 1..Len(b)
    BY <1>1
  <2>2. a[n] >= b[n]
    <3>1. b[n] >= b[n] => n <= Num(b, b[n])
      BY <2>1, FallingNum
    <3>2. n <= Num(a, b[n])
      BY <2>1, <3>1
    <3> QED BY <2>1, <3>2, FallingNum
  <2>3. b[n] >= a[n]
    <3>1. a[n] >= a[n] => n <= Num(a, a[n])
      BY <2>1, FallingNum
    <3>2. n <= Num(b, a[n])
      BY <2>1, <3>1
    <3> QED BY <2>1, <3>2, FallingNum
  <2> QED BY <2>1, <2>2, <2>3
<1> QED BY <1>1, <1>2

\* Places of a list that are the first k.
LEMMA NumIsOf ==
  ASSUME NEW s \in Seq(Nat), NEW v \in Nat, NEW k \in 0..Len(s),
         \A n \in 1..Len(s) : s[n] >= v <=> n <= k
  PROVE  Num(s, v) = k
<1>1. k \in Nat /\ AtOrAbove(s, v) = 1..k
  BY DEF AtOrAbove
<1> QED BY <1>1, FS_Interval DEF Num

\* The first m of a list that falls.
LEMMA NumOfFirst ==
  ASSUME NEW s \in Seq(Nat), Falling(s), NEW m \in 0..Len(s)
  PROVE  /\ SubSeq(s, 1, m) \in Seq(Nat) /\ Falling(SubSeq(s, 1, m)) /\ Len(SubSeq(s, 1, m)) = m
         /\ \A v \in Nat : Num(SubSeq(s, 1, m), v) = Lesser(m, Num(s, v))
<1> DEFINE t == SubSeq(s, 1, m)
<1>1. t \in Seq(Nat) /\ Len(t) = m /\ \A n \in 1..m : t[n] = s[n]
  BY FirstOf
<1>2. m \in Nat /\ Len(s) \in Nat /\ \A n \in 1..m : n \in 1..Len(s)
  OBVIOUS
<1> HIDE DEF t
<1>3. Falling(t)
  BY <1>1, <1>2 DEF Falling
<1>4. ASSUME NEW v \in Nat PROVE Num(t, v) = Lesser(m, Num(s, v))
  <2>1. Num(s, v) \in Nat /\ \A n \in 1..Len(s) : s[n] >= v <=> n <= Num(s, v)
    BY NumIs, FallingNum
  <2>2. Lesser(m, Num(s, v)) \in 0..m
    BY <1>2, <2>1 DEF Lesser
  <2>3. ASSUME NEW n \in 1..Len(t) PROVE t[n] >= v <=> n <= Lesser(m, Num(s, v))
    <3>1. n \in 1..m /\ n \in 1..Len(s) /\ t[n] = s[n]
      BY <1>1, <1>2
    <3>2. t[n] >= v <=> n <= Num(s, v)
      BY <2>1, <3>1
    <3> QED BY <1>2, <2>1, <3>1, <3>2 DEF Lesser
  <2> QED BY <1>1, <2>2, <2>3, NumIsOf
<1> QED BY <1>1, <1>3, <1>4 DEF t

LEMMA BothOf ==
  ASSUME NEW a \in Seq(Nat), NEW b \in Seq(Nat)
  PROVE  /\ Len(a) \in Nat /\ Len(b) \in Nat /\ Len(a \o b) = Len(a) + Len(b)
         /\ \A n \in 1..Len(a) : (a \o b)[n] = a[n]
         /\ \A n \in 1..Len(b) : (a \o b)[Len(a) + n] = b[n]
         /\ \A n \in 1..Len(a) + Len(b) : n \in 1..Len(a) \/ (n - Len(a) \in 1..Len(b) /\ Len(a) + (n - Len(a)) = n)
         /\ \A n \in 1..Len(a) : n \in 1..Len(a) + Len(b)
         /\ \A n \in 1..Len(b) : Len(a) + n \in 1..Len(a) + Len(b)
<1>1. Len(a) \in Nat /\ Len(b) \in Nat /\ Len(a \o b) = Len(a) + Len(b)
  OBVIOUS
<1>2. \A n \in 1..Len(a) : (a \o b)[n] = a[n]
  OBVIOUS
<1>3. \A n \in 1..Len(b) : (a \o b)[Len(a) + n] = b[n]
  OBVIOUS
<1> QED BY <1>1, <1>2, <1>3

LEMMA BothFall ==
  ASSUME NEW a \in Seq(Nat), NEW b \in Seq(Nat), Falling(a), Falling(b),
         \A m \in 1..Len(a), n \in 1..Len(b) : a[m] >= b[n]
  PROVE  Falling(a \o b)
<1> DEFINE c == a \o b
           M == Len(a)
           N == Len(b)
<1>1. /\ M \in Nat /\ N \in Nat /\ Len(c) = M + N
      /\ \A n \in 1..M : c[n] = a[n]
      /\ \A n \in 1..N : c[M + n] = b[n]
      /\ \A n \in 1..M + N : n \in 1..M \/ (n - M \in 1..N /\ M + (n - M) = n)
  BY BothOf
<1>2. /\ \A m, n \in 1..M : m <= n => a[m] >= a[n]
      /\ \A m, n \in 1..N : m <= n => b[m] >= b[n]
      /\ \A m \in 1..M, n \in 1..N : a[m] >= b[n]
  BY DEF Falling
<1> HIDE DEF c, M, N
<1>3. ASSUME NEW m \in 1..M + N, NEW n \in 1..M + N, m <= n PROVE c[m] >= c[n]
  <2>1. CASE n \in 1..M
    <3>1. m \in 1..M
      BY <1>1, <1>3, <2>1
    <3> QED BY <1>1, <1>2, <1>3, <2>1, <3>1
  <2>2. CASE n - M \in 1..N /\ M + (n - M) = n
    <3>1. c[n] = b[n - M]
      BY <1>1, <2>2
    <3>2. CASE m \in 1..M
      BY <1>1, <1>2, <2>2, <3>1, <3>2
    <3>3. CASE m - M \in 1..N /\ M + (m - M) = m
      <4>1. c[m] = b[m - M] /\ m - M <= n - M
        BY <1>1, <1>3, <3>3
      <4> QED BY <1>2, <2>2, <3>1, <3>3, <4>1
    <3> QED BY <1>1, <3>2, <3>3
  <2> QED BY <1>1, <2>1, <2>2
<1> QED BY <1>1, <1>3 DEF Falling, c

LEMMA NumOfOne ==
  ASSUME NEW e \in Nat, NEW v \in Nat
  PROVE  Num(<<e>>, v) = IF e >= v THEN 1 ELSE 0
<1> DEFINE one == <<e>>
<1>1. one \in Seq(Nat) /\ Len(one) = 1 /\ one[1] = e
  OBVIOUS
<1> HIDE DEF one
<1>2. Num(one, v) = IF e >= v THEN 1 ELSE 0
  <2>1. CASE e >= v
    <3>1. 1 \in 0..Len(one) /\ \A n \in 1..Len(one) : one[n] >= v <=> n <= 1
      BY <1>1, <2>1
    <3>2. Num(one, v) = 1
      BY <1>1, <3>1, NumIsOf
    <3> QED BY <2>1, <3>2
  <2>2. CASE ~(e >= v)
    <3>1. 0 \in 0..Len(one) /\ \A n \in 1..Len(one) : one[n] >= v <=> n <= 0
      BY <1>1, <2>2
    <3>2. Num(one, v) = 0
      BY <1>1, <3>1, NumIsOf
    <3> QED BY <2>2, <3>2
  <2> QED BY <2>1, <2>2
<1> QED BY <1>2 DEF one

\* One more, between those at least so severe and the others.
AllAbove(s, e) == \A n \in 1..Len(s) : s[n] >= e
AllBelow(s, e) == \A n \in 1..Len(s) : e >= s[n]
OneMore(t, s, e) == \A v \in Nat : Num(t, v) = Num(s, v) + (IF e >= v THEN 1 ELSE 0)

LEMMA OneBetween ==
  ASSUME NEW a \in Seq(Nat), NEW b \in Seq(Nat), NEW e \in Nat, Falling(a), Falling(b),
         AllAbove(a, e), AllBelow(b, e), NEW t, t = (a \o <<e>>) \o b
  PROVE  /\ t \in Seq(Nat) /\ Falling(t)
         /\ OneMore(t, a \o b, e)
<1> DEFINE one == <<e>>
           c == a \o one
<1>0. /\ t = c \o b
      /\ \A n \in 1..Len(a) : a[n] >= e
      /\ \A n \in 1..Len(b) : e >= b[n]
  BY DEF AllAbove, AllBelow
<1>1. one \in Seq(Nat) /\ Len(one) = 1 /\ one[1] = e /\ \A v \in Nat : Num(one, v) = IF e >= v THEN 1 ELSE 0
  BY NumOfOne
<1> HIDE DEF one
<1>2. c \in Seq(Nat) /\ \A v \in Nat : Num(c, v) = Num(a, v) + Num(one, v)
  BY <1>1, NumOfBoth
<1>3. Falling(one)
  <2> SUFFICES ASSUME NEW m \in 1..Len(one), NEW n \in 1..Len(one) PROVE one[m] >= one[n]
    BY DEF Falling
  <2>1. m = 1 /\ n = 1
    BY <1>1
  <2> QED BY <1>1, <2>1
<1>4. Falling(c)
  <2>1. \A m \in 1..Len(a), n \in 1..Len(one) : n = 1 /\ a[m] >= one[n]
    BY <1>0, <1>1
  <2> QED BY <1>1, <1>3, <2>1, BothFall
<1> HIDE DEF c
<1>5. \A m \in 1..Len(c), n \in 1..Len(b) : c[m] >= b[n]
  <2> SUFFICES ASSUME NEW m \in 1..Len(c), NEW n \in 1..Len(b) PROVE c[m] >= b[n]
    OBVIOUS
  <2>1. /\ Len(c) = Len(a) + Len(one) /\ Len(a) \in Nat
        /\ \A i \in 1..Len(a) : c[i] = a[i]
        /\ \A i \in 1..Len(one) : c[Len(a) + i] = one[i]
    <3>1. one \in Seq(Nat)
      BY <1>1
    <3>2. /\ Len(a \o one) = Len(a) + Len(one) /\ Len(a) \in Nat
          /\ \A i \in 1..Len(a) : (a \o one)[i] = a[i]
          /\ \A i \in 1..Len(one) : (a \o one)[Len(a) + i] = one[i]
      BY <3>1, BothOf
    <3> QED BY <3>2, Zenon DEF c
  <2>2. b[n] \in Nat /\ e >= b[n]
    BY <1>0
  <2>3. c[m] >= e /\ c[m] \in Nat
    <3>0. Len(c) = Len(a) + 1 /\ Len(a) \in Nat
      BY <1>1, <2>1
    <3>1. CASE m \in 1..Len(a)
      <4>1. a[m] \in Nat /\ a[m] >= e
        BY <1>0, <3>1
      <4> QED BY <2>1, <3>1, <4>1
    <3>2. CASE m \notin 1..Len(a)
      <4>1. m = Len(a) + 1
        BY <3>0, <3>2
      <4>2. 1 \in 1..Len(one)
        BY <1>1
      <4>3. c[m] = e
        BY <1>1, <2>1, <4>1, <4>2
      <4> QED BY <4>3
    <3> QED BY <3>1, <3>2
  <2> QED BY <2>2, <2>3
<1>6. t \in Seq(Nat) /\ Falling(t) /\ \A v \in Nat : Num(t, v) = Num(c, v) + Num(b, v)
  <2>1. c \o b \in Seq(Nat)
    BY <1>2
  <2>2. Falling(c \o b)
    BY <1>2, <1>4, <1>5, BothFall, Zenon
  <2>3. \A v \in Nat : Num(c \o b, v) = Num(c, v) + Num(b, v)
    BY <1>2, NumOfBoth, Zenon
  <2> QED BY <1>0, <2>1, <2>2, <2>3, Zenon
<1>7. ASSUME NEW v \in Nat PROVE Num(t, v) = Num(a \o b, v) + (IF e >= v THEN 1 ELSE 0)
  <2>1. Num(a, v) \in Nat /\ Num(b, v) \in Nat /\ Num(one, v) = IF e >= v THEN 1 ELSE 0
    BY <1>1, NumIs
  <2>2. Num(a \o b, v) = Num(a, v) + Num(b, v)
    BY NumOfBoth
  <2>3. Num(t, v) = (Num(a, v) + Num(one, v)) + Num(b, v)
    BY <1>2, <1>6
  <2> QED BY <2>1, <2>2, <2>3
<1> QED BY <1>6, <1>7 DEF OneMore

LEMMA SameLists ==
  ASSUME NEW a \in Seq(Nat), NEW b \in Seq(Nat), Len(a) = Len(b), \A n \in 1..Len(b) : a[n] = b[n]
  PROVE  a = b
  OBVIOUS

\* A list is its first k and the others.
LEMMA FirstAndOthers ==
  ASSUME NEW s \in Seq(Nat), NEW k \in Nat, NEW a \in Seq(Nat), NEW b \in Seq(Nat),
         Len(a) = k, Len(b) = Len(s) - k, \A n \in 1..k : a[n] = s[n],
         \A n \in 1..(Len(s) - k) : b[n] = s[k + n]
  PROVE  a \o b = s
<1> DEFINE N == Len(s)
<1>1. PICK c : c = a \o b
  OBVIOUS
<1>2. c \in Seq(Nat)
  BY <1>1
<1>3. /\ Len(c) = Len(a) + Len(b)
      /\ \A n \in 1..Len(a) : c[n] = a[n]
      /\ \A n \in 1..Len(b) : c[Len(a) + n] = b[n]
  BY <1>1, BothOf
<1>4. N \in Nat /\ k + (N - k) = N
  OBVIOUS
<1>5. /\ Len(c) = N
      /\ \A n \in 1..k : c[n] = s[n]
      /\ \A n \in 1..(N - k) : c[k + n] = s[k + n]
  BY <1>3, <1>4
<1>6. ASSUME NEW n \in 1..N PROVE c[n] = s[n]
  <2>1. n \in 1..k \/ (n - k \in 1..(N - k) /\ k + (n - k) = n)
    BY <1>4
  <2>2. CASE n \in 1..k
    BY <1>5, <2>2
  <2>3. CASE n - k \in 1..(N - k) /\ k + (n - k) = n
    <3>1. c[k + (n - k)] = s[k + (n - k)]
      BY <1>5, <2>3
    <3> QED BY <2>3, <3>1
  <2> QED BY <2>1, <2>2, <2>3
<1>7. c = s
  <2>1. Len(c) = Len(s) /\ \A n \in 1..Len(s) : c[n] = s[n]
    BY <1>5, <1>6
  <2> QED BY <1>2, <2>1, SameLists
<1> QED BY <1>1, <1>7

\* One more, after those at least so severe.
LEMMA InsertIs ==
  ASSUME NEW s \in Seq(Nat), Falling(s), NEW e \in Nat
  PROVE  /\ Insert(s, e) \in Seq(Nat) /\ Falling(Insert(s, e))
         /\ \A v \in Nat : Num(Insert(s, e), v) = Num(s, v) + (IF e >= v THEN 1 ELSE 0)
<1> DEFINE k == Num(s, e)
           N == Len(s)
           before == SubSeq(s, 1, k)
           after == SubSeq(s, k + 1, N)
<1>1. /\ N \in Nat /\ k \in 0..N /\ k \in Nat
      /\ \A n \in 1..N : s[n] \in Nat
      /\ \A n \in 1..N : s[n] >= e <=> n <= k
  <2>1. N \in Nat /\ \A n \in 1..N : s[n] \in Nat
    OBVIOUS
  <2> QED BY <2>1, NumIs, FallingNum
<1>2. Insert(s, e) = (before \o <<e>>) \o after
  <2>1. Insert(s, e) = InsertAt(s, k + 1, e)
    BY DEF Insert, Num, AtOrAbove
  <2>2. (k + 1) - 1 = k
    BY <1>1
  <2> QED BY <2>1, <2>2 DEF InsertAt
<1>3. /\ before \in Seq(Nat) /\ Len(before) = k /\ Falling(before)
      /\ \A n \in 1..k : before[n] = s[n]
  BY <1>1, FirstOf, NumOfFirst
<1> HIDE DEF k
<1>4. after \in Seq(Nat) /\ Len(after) = N - k /\ \A n \in 1..(N - k) : after[n] = s[k + n]
  <2>1. \A n \in k + 1..N : s[n] \in Nat
    BY <1>1
  <2>2. /\ after \in Seq(Nat) /\ Len(after) = IF k + 1 <= N THEN N - (k + 1) + 1 ELSE 0
        /\ \A n \in 1..N - (k + 1) + 1 : after[n] = s[(k + 1) + n - 1]
    BY <1>1, <2>1, SubSeqProperties
  <2>3. N - (k + 1) + 1 = N - k /\ (~(k + 1 <= N) => N - k = 0)
    BY <1>1
  <2>4. \A n \in 1..(N - k) : (k + 1) + n - 1 = k + n
    BY <1>1
  <2> HIDE DEF after, N
  <2> QED BY <1>1, <2>2, <2>3, <2>4
<1> HIDE DEF N, before, after
<1>5. before \o after = s
  BY <1>1, <1>3, <1>4, FirstAndOthers DEF N
<1>6. Falling(after)
  <2> SUFFICES ASSUME NEW m \in 1..(N - k), NEW n \in 1..(N - k), m <= n PROVE after[m] >= after[n]
    BY <1>4 DEF Falling
  <2>1. k + m \in 1..N /\ k + n \in 1..N /\ k + m <= k + n
    BY <1>1
  <2>2. \A i \in 1..N, j \in 1..N : i <= j => s[i] >= s[j]
    BY DEF Falling, N
  <2> QED BY <1>4, <2>1, <2>2
<1>7. /\ \A n \in 1..Len(before) : before[n] >= e
      /\ \A n \in 1..Len(after) : e >= after[n]
  <2>1. \A n \in 1..k : n \in 1..N /\ n <= k
    BY <1>1
  <2>2. ASSUME NEW n \in 1..(N - k) PROVE e >= after[n]
    <3>1. k + n \in 1..N /\ ~(k + n <= k)
      BY <1>1
    <3>2. s[k + n] \in Nat /\ ~(s[k + n] >= e)
      BY <1>1, <3>1
    <3> QED BY <1>4, <3>2
  <2> QED BY <1>1, <1>3, <1>4, <2>1, <2>2
<1>8. PICK t : t = (before \o <<e>>) \o after
  OBVIOUS
<1>9. t \in Seq(Nat) /\ Falling(t) /\ OneMore(t, before \o after, e)
  <2>1. before \in Seq(Nat) /\ after \in Seq(Nat) /\ Falling(before) /\ Falling(after)
    BY <1>3, <1>4, <1>6
  <2>2. AllAbove(before, e) /\ AllBelow(after, e)
    BY <1>7 DEF AllAbove, AllBelow
  <2> QED BY <1>8, <2>1, <2>2, OneBetween, Zenon
<1>10. Insert(s, e) = t /\ OneMore(t, s, e)
  BY <1>2, <1>5, <1>8, <1>9, Zenon
<1> QED BY <1>9, <1>10 DEF OneMore

\* The worst first, problem by problem.
LEMMA InsertRuns ==
  ASSUME NEW s \in Seq(Nat)
  PROVE  \E run : /\ run[0] = <<>>
                  /\ \A n \in 1..Len(s) : run[n] = Insert(run[n - 1], s[n])
                  /\ FoldLeft(Insert, <<>>, s) = run[Len(s)]
<1> DEFINE N == Len(s)
           Some == {t \in Seq(Nat) : Falling(t)}
           next == [p \in (1..N) \X Some |-> Insert(p[2], s[p[1]])]
           Folds(g) == g = [S \in SUBSET (1..N) |->
                              IF S = {} THEN <<>> ELSE Insert(g[S \ {Max(S)}], s[Max(S)])]
           iter == CHOOSE g : Folds(g)
           run == [n \in 0..N |-> iter[1..n]]
<1>1. N \in Nat /\ DOMAIN s = 1..N /\ \A n \in 1..N : s[n] \in Nat
  OBVIOUS
<1>2. \A n \in 1..N, a \in Some : next[<<n, a>>] = Insert(a, s[n]) /\ next[<<n, a>>] \in Some
  <2>1. ASSUME NEW n \in 1..N, NEW a \in Some
        PROVE  next[<<n, a>>] = Insert(a, s[n]) /\ Insert(a, s[n]) \in Some
    <3>1. Insert(a, s[n]) \in Some
      BY <1>1, InsertIs
    <3> QED BY <3>1
  <2> HIDE DEF next
  <2> QED BY <2>1
<1>3. FoldLeft(Insert, <<>>, s) = iter[1..N]
  BY <1>1 DEF FoldLeft, MapThenFoldSet
<1>4. <<>> \in Some
  <2>1. <<>> \in Seq(Nat) /\ Falling(<<>>)
    BY DEF Falling
  <2> QED BY <2>1
<1> HIDE DEF N, next, Some
<1>5. PICK it : Folded(it, N, Some, <<>>, next)
  BY <1>1, <1>2, <1>4, FoldExists DEF Steps
<1>6. Folds(it)
  <2>1. ASSUME NEW S \in SUBSET (1..N), S # {} PROVE it[S] = Insert(it[S \ {Max(S)}], s[Max(S)])
    <3>1. Max(S) \in 1..N /\ it[S \ {Max(S)}] \in Some /\ it[S] = next[<<Max(S), it[S \ {Max(S)}]>>]
      BY <1>5, <2>1 DEF Folded
    <3> QED BY <1>2, <3>1
  <2>2. it = [S \in SUBSET (1..N) |-> it[S]] /\ it[{}] = <<>>
    BY <1>5 DEF Folded
  <2> QED BY <2>1, <2>2
<1>7. Folds(iter)
  <2> HIDE DEF Folds
  <2> QED BY <1>6
<1> HIDE DEF iter
<1>8. iter[1..0] = <<>>
  BY <1>7, Beginnings
<1>9. ASSUME NEW n \in 1..N PROVE iter[1..n] = Insert(iter[1..(n - 1)], s[n])
  <2>1. n \in Nat /\ n # 0 /\ 1..n \in SUBSET (1..N)
    BY <1>1
  <2>2. 1..n # {} /\ Max(1..n) = n /\ (1..n) \ {n} = 1..(n - 1)
    BY <2>1, Beginnings
  <2> QED BY <1>7, <2>1, <2>2
<1>10. run[0] = <<>> /\ run[N] = iter[1..N] /\ \A n \in 1..N : run[n] = Insert(run[n - 1], s[n])
  BY <1>1, <1>8, <1>9
<1> QED BY <1>3, <1>10 DEF N

\* The count of nodes, child by child.
LEMMA PlusRuns ==
  ASSUME NEW s \in Seq(Nat), NEW base \in Nat
  PROVE  \E run : /\ run[0] = base
                  /\ \A n \in 1..Len(s) : run[n] = Plus(run[n - 1], s[n])
                  /\ FoldLeft(Plus, base, s) = run[Len(s)]
<1> DEFINE N == Len(s)
           Some == Nat
           next == [p \in (1..N) \X Some |-> Plus(p[2], s[p[1]])]
           Folds(g) == g = [S \in SUBSET (1..N) |->
                              IF S = {} THEN base ELSE Plus(g[S \ {Max(S)}], s[Max(S)])]
           iter == CHOOSE g : Folds(g)
           run == [n \in 0..N |-> iter[1..n]]
<1>1. N \in Nat /\ DOMAIN s = 1..N /\ \A n \in 1..N : s[n] \in Nat
  OBVIOUS
<1>2. \A n \in 1..N, a \in Some : next[<<n, a>>] = Plus(a, s[n]) /\ next[<<n, a>>] \in Some
  <2>1. ASSUME NEW n \in 1..N, NEW a \in Some
        PROVE  next[<<n, a>>] = Plus(a, s[n]) /\ Plus(a, s[n]) \in Some
    <3>1. Plus(a, s[n]) \in Some
      BY <1>1 DEF Plus
    <3> QED BY <3>1
  <2> HIDE DEF next
  <2> QED BY <2>1
<1>3. FoldLeft(Plus, base, s) = iter[1..N]
  BY <1>1 DEF FoldLeft, MapThenFoldSet
<1>4. base \in Some
  OBVIOUS
<1> HIDE DEF N, next, Some
<1>5. PICK it : Folded(it, N, Some, base, next)
  BY <1>1, <1>2, <1>4, FoldExists DEF Steps
<1>6. Folds(it)
  <2>1. ASSUME NEW S \in SUBSET (1..N), S # {} PROVE it[S] = Plus(it[S \ {Max(S)}], s[Max(S)])
    <3>1. Max(S) \in 1..N /\ it[S \ {Max(S)}] \in Some /\ it[S] = next[<<Max(S), it[S \ {Max(S)}]>>]
      BY <1>5, <2>1 DEF Folded
    <3> QED BY <1>2, <3>1
  <2>2. it = [S \in SUBSET (1..N) |-> it[S]] /\ it[{}] = base
    BY <1>5 DEF Folded
  <2> QED BY <2>1, <2>2
<1>7. Folds(iter)
  <2> HIDE DEF Folds
  <2> QED BY <1>6
<1> HIDE DEF iter
<1>8. iter[1..0] = base
  BY <1>7, Beginnings
<1>9. ASSUME NEW n \in 1..N PROVE iter[1..n] = Plus(iter[1..(n - 1)], s[n])
  <2>1. n \in Nat /\ n # 0 /\ 1..n \in SUBSET (1..N)
    BY <1>1
  <2>2. 1..n # {} /\ Max(1..n) = n /\ (1..n) \ {n} = 1..(n - 1)
    BY <2>1, Beginnings
  <2> QED BY <1>7, <2>1, <2>2
<1>10. run[0] = base /\ run[N] = iter[1..N] /\ \A n \in 1..N : run[n] = Plus(run[n - 1], s[n])
  BY <1>1, <1>8, <1>9
<1> QED BY <1>3, <1>10 DEF N

\* WorstOf: the worst first, and as many of any severity as it shows at all.
LEMMA WorstOfIs ==
  ASSUME NEW list \in Seq(Nat)
  PROVE  /\ WorstOf(list) \in Seq(Nat) /\ Falling(WorstOf(list))
         /\ \A v \in Nat : Num(WorstOf(list), v) = Lesser(Shown, Num(list, v))
<1> DEFINE N == Len(list)
           begin(n, v) == {i \in 1..n : list[i] >= v}
           sorted == FoldLeft(Insert, <<>>, list)
           m == Min({Shown, Len(sorted)})
<1>1. N \in Nat /\ Shown \in Nat /\ \A n \in 1..N : list[n] \in Nat
  BY TreeAssumption
<1>2. <<>> \in Seq(Nat) /\ Falling(<<>>)
  BY DEF Falling
<1>3. PICK run : /\ run[0] = <<>> /\ \A n \in 1..N : run[n] = Insert(run[n - 1], list[n])
                 /\ sorted = run[N]
  BY InsertRuns
<1> HIDE DEF sorted
<1> DEFINE Fine == {n \in 0..N : /\ run[n] \in Seq(Nat) /\ Falling(run[n])
                                 /\ \A v \in Nat : Num(run[n], v) = Cardinality(begin(n, v))}
<1>4. 0 \in Fine
  <2>1. \A v \in Nat : begin(0, v) = {} /\ AtOrAbove(<<>>, v) = {}
    BY DEF AtOrAbove
  <2> HIDE DEF begin
  <2>2. \A v \in Nat : Num(<<>>, v) = Cardinality(begin(0, v))
    BY <2>1 DEF Num
  <2>3. run[0] \in Seq(Nat) /\ Falling(run[0]) /\ \A v \in Nat : Num(run[0], v) = Cardinality(begin(0, v))
    BY <1>2, <1>3, <2>2
  <2>4. 0 \in 0..N
    BY <1>1
  <2> QED BY <2>3, <2>4
<1>5. ASSUME NEW n \in 1..N, n - 1 \in Fine PROVE n \in Fine
  <2>1. /\ run[n - 1] \in Seq(Nat) /\ Falling(run[n - 1])
        /\ \A v \in Nat : Num(run[n - 1], v) = Cardinality(begin(n - 1, v))
    BY <1>5
  <2>2. \A v \in Nat : Cardinality(begin(n, v)) = Cardinality(begin(n - 1, v)) + (IF list[n] >= v THEN 1 ELSE 0)
    BY NumOfOneMore
  <2> HIDE DEF begin
  <2>3. /\ run[n] \in Seq(Nat) /\ Falling(run[n])
        /\ \A v \in Nat : Num(run[n], v) = Num(run[n - 1], v) + (IF list[n] >= v THEN 1 ELSE 0)
    <3>1. run[n] = Insert(run[n - 1], list[n]) /\ list[n] \in Nat
      BY <1>1, <1>3
    <3>2. PICK before \in Seq(Nat) : before = run[n - 1] /\ Falling(before)
      BY <2>1
    <3>3. PICK e \in Nat : e = list[n]
      BY <3>1
    <3>4. /\ Insert(before, e) \in Seq(Nat) /\ Falling(Insert(before, e))
          /\ \A v \in Nat : Num(Insert(before, e), v) = Num(before, v) + (IF e >= v THEN 1 ELSE 0)
      BY <3>2, InsertIs
    <3> QED BY <3>1, <3>2, <3>3, <3>4
  <2>4. \A v \in Nat : Num(run[n], v) = Cardinality(begin(n, v))
    BY <2>1, <2>2, <2>3
  <2>5. n \in 0..N
    BY <1>1
  <2> QED BY <2>3, <2>4, <2>5
<1>6. N \in Fine
  <2> HIDE DEF Fine
  <2>1. \A n \in 0..N : n \in Fine
    BY <1>1, <1>4, <1>5, Onwards
  <2>2. N \in 0..N
    BY <1>1
  <2> QED BY <2>1, <2>2
<1>7. sorted \in Seq(Nat) /\ Falling(sorted) /\ \A v \in Nat : Num(sorted, v) = Num(list, v)
  BY <1>3, <1>6 DEF Num, AtOrAbove
<1>8. m = Lesser(Shown, Len(sorted)) /\ m \in 0..Len(sorted)
  <2>1. Len(sorted) \in Nat
    BY <1>7
  <2>2. m \in {Shown, Len(sorted)} /\ \A i \in {Shown, Len(sorted)} : m <= i
    <3>1. {Shown, Len(sorted)} \in SUBSET Nat /\ {Shown, Len(sorted)} # {}
      BY <1>1, <2>1
    <3> QED BY <3>1, HasALeast
  <2> HIDE DEF m
  <2> QED BY <1>1, <2>1, <2>2 DEF Lesser
<1>9. WorstOf(list) = SubSeq(sorted, 1, m)
  BY DEF WorstOf, sorted
<1> HIDE DEF m
<1>10. /\ WorstOf(list) \in Seq(Nat) /\ Falling(WorstOf(list))
       /\ \A v \in Nat : Num(WorstOf(list), v) = Lesser(m, Num(sorted, v))
  BY <1>7, <1>8, <1>9, NumOfFirst
<1>11. ASSUME NEW v \in Nat PROVE Num(WorstOf(list), v) = Lesser(Shown, Num(list, v))
  <2>1. Num(sorted, v) \in 0..Len(sorted) /\ Len(sorted) \in Nat
    BY <1>7, NumIs
  <2> QED BY <1>1, <1>7, <1>8, <1>10, <2>1 DEF Lesser
<1> QED BY <1>10, <1>11

-----------------------------------------------------------------------------
(* What the tree is of: the hosts, and the problems open on them.          *)

Under(node) == node.below \cup {node.id}
HostsIn(I) == {h \in HostIds : <<"host", h>> \in I}
OpenOf(h, v) == {<<h, n>> : n \in AtOrAbove(estate.problems[h], v)}
OpenOn(H, v) == UNION {OpenOf(h, v) : h \in H}
Ill(H) == {h \in H : estate.problems[h] # <<>>}

EstateIs ==
  /\ estate.hosts \in [HostIds -> HostKinds]
  /\ estate.problems \in [HostIds -> Seq(Nat)]
  /\ IsFiniteSet(estate.checks)

LEMMA FiniteImage ==
  ASSUME NEW S, IsFiniteSet(S), NEW f
  PROVE  IsFiniteSet({f[x] : x \in S})
<1> DEFINE T == {f[x] : x \in S}
           g == [x \in S |-> f[x]]
<1>1. g \in Surjection(S, T)
  BY DEF Surjection
<1> HIDE DEF g, T
<1>2. IsFiniteSet(T)
  BY <1>1, FS_Surjection
<1> QED BY <1>2 DEF T

LEMMA OpenOfIs ==
  ASSUME EstateIs, NEW h \in HostIds, NEW v \in Nat
  PROVE  IsFiniteSet(OpenOf(h, v)) /\ Cardinality(OpenOf(h, v)) = Num(estate.problems[h], v)
<1>1. estate.problems[h] \in Seq(Nat)
  BY DEF EstateIs
<1> DEFINE U == AtOrAbove(estate.problems[h], v)
           T == OpenOf(h, v)
           f == [n \in U |-> <<h, n>>]
<1>2. IsFiniteSet(U) /\ Cardinality(U) = Num(estate.problems[h], v)
  BY <1>1, NumIs DEF Num
<1>3. T = {<<h, n>> : n \in U}
  BY DEF OpenOf
<1> HIDE DEF U, T
<1>4. f \in Bijection(U, T)
  <2>1. f \in [U -> T] /\ \A m, n \in U : f[m] = f[n] => m = n
    BY <1>3
  <2>2. \A t \in T : \E n \in U : f[n] = t
    BY <1>3
  <2>3. DOMAIN f = U
    OBVIOUS
  <2> HIDE DEF f
  <2> QED BY <2>1, <2>2, <2>3 DEF Bijection, Injection, Surjection, IsInjective
<1>5. ExistsBijection(U, T)
  BY <1>4 DEF ExistsBijection
<1>6. IsFiniteSet(T) /\ Cardinality(T) = Cardinality(U)
  BY <1>2, <1>5, FS_Bijection
<1> QED BY <1>2, <1>6 DEF T

LEMMA OpenOnIs ==
  ASSUME EstateIs, NEW H \in SUBSET HostIds, NEW v \in Nat
  PROVE  /\ IsFiniteSet(OpenOn(H, v)) /\ Cardinality(OpenOn(H, v)) \in Nat
         /\ Cardinality(OpenOn(H, v)) = 0 <=> OpenOn(H, v) = {}
         /\ IsFiniteSet(H) /\ IsFiniteSet(Ill(H)) /\ Cardinality(Ill(H)) \in Nat
         /\ OpenOn(H, v) # {} <=> \E h \in H : Num(estate.problems[h], v) # 0
<1>1. IsFiniteSet(H) /\ IsFiniteSet(Ill(H))
  <2>1. IsFiniteSet(H)
    BY TreeAssumption, FS_Subset
  <2>2. Ill(H) \subseteq H
    BY DEF Ill
  <2> QED BY <2>1, <2>2, FS_Subset
<1> DEFINE f == [h \in H |-> OpenOf(h, v)]
           all == {f[h] : h \in H}
<1>2. all = {OpenOf(h, v) : h \in H} /\ IsFiniteSet(all)
  BY <1>1, FiniteImage
<1> HIDE DEF f, all
<1>3. \A T \in all : IsFiniteSet(T)
  BY <1>2, OpenOfIs
<1>4. OpenOn(H, v) = UNION all /\ IsFiniteSet(UNION all)
  BY <1>2, <1>3, FS_UNION DEF OpenOn
<1>5. OpenOn(H, v) # {} <=> \E h \in H : Num(estate.problems[h], v) # 0
  <2>1. \A h \in H : OpenOf(h, v) # {} <=> Num(estate.problems[h], v) # 0
    BY OpenOfIs, FS_EmptySet
  <2> QED BY <1>2, <1>4, <2>1
<1> QED BY <1>1, <1>4, <1>5, FS_CardinalityType, FS_EmptySet

\* Of hosts apart.
LEMMA OpenOnBoth ==
  ASSUME EstateIs, NEW H \in SUBSET HostIds, NEW G \in SUBSET HostIds, H \cap G = {}, NEW v \in Nat
  PROVE  Cardinality(OpenOn(H \cup G, v)) = Cardinality(OpenOn(H, v)) + Cardinality(OpenOn(G, v))
<1>1. OpenOn(H \cup G, v) = OpenOn(H, v) \cup OpenOn(G, v)
  BY DEF OpenOn
<1>2. OpenOn(H, v) \cap OpenOn(G, v) = {}
  <2> SUFFICES ASSUME NEW p \in OpenOn(H, v), p \in OpenOn(G, v) PROVE FALSE
    OBVIOUS
  <2>1. PICK h \in H : p \in OpenOf(h, v)
    BY DEF OpenOn
  <2>2. PICK g \in G : p \in OpenOf(g, v)
    BY DEF OpenOn
  <2>3. p[1] = h /\ p[1] = g
    BY <2>1, <2>2 DEF OpenOf
  <2> QED BY <2>3
<1> QED BY <1>1, <1>2, OpenOnIs, TwoApart

-----------------------------------------------------------------------------
(* Sets that are apart, one after another.                                 *)

UpToThe(f, n) == UNION {f[m] : m \in 1..n}

LEMMA OneSetMore ==
  ASSUME NEW N \in Nat, NEW f, \A m, n \in 1..N : m # n => f[m] \cap f[n] = {}, NEW n \in 1..N
  PROVE  /\ UpToThe(f, n) = UpToThe(f, n - 1) \cup f[n] /\ UpToThe(f, n - 1) \cap f[n] = {}
         /\ UpToThe(f, 0) = {}
<1>1. /\ \A m \in 1..n : m \in 1..(n - 1) \/ m = n
      /\ \A m \in 1..(n - 1) : m \in 1..n /\ m \in 1..N /\ m # n
      /\ n \in 1..n
  OBVIOUS
<1>2. UpToThe(f, n) = UpToThe(f, n - 1) \cup f[n]
  BY <1>1 DEF UpToThe
<1>3. UpToThe(f, n - 1) \cap f[n] = {}
  BY <1>1 DEF UpToThe
<1>4. UpToThe(f, 0) = {}
  BY DEF UpToThe
<1> QED BY <1>2, <1>3, <1>4

\* Plus, of what such sets hold.
LEMMA TheyAddUp ==
  ASSUME NEW s \in Seq(Nat), NEW base \in Nat, NEW f,
         \A m, n \in 1..Len(s) : m # n => f[m] \cap f[n] = {},
         \A n \in 1..Len(s) : IsFiniteSet(f[n]) /\ s[n] = Cardinality(f[n])
  PROVE  /\ IsFiniteSet(UpToThe(f, Len(s)))
         /\ FoldLeft(Plus, base, s) = base + Cardinality(UpToThe(f, Len(s)))
<1> DEFINE N == Len(s)
<1>1. N \in Nat
  OBVIOUS
<1>2. PICK run : /\ run[0] = base /\ \A n \in 1..N : run[n] = Plus(run[n - 1], s[n])
                 /\ FoldLeft(Plus, base, s) = run[N]
  <2>1. \E run : /\ run[0] = base
                 /\ \A n \in 1..Len(s) : run[n] = Plus(run[n - 1], s[n])
                 /\ FoldLeft(Plus, base, s) = run[Len(s)]
    BY PlusRuns, Zenon
  <2> QED BY <2>1
<1> DEFINE Fine == {n \in 0..N : IsFiniteSet(UpToThe(f, n)) /\ run[n] = base + Cardinality(UpToThe(f, n))}
<1>3. 0 \in Fine
  <2>1. UpToThe(f, 0) = {}
    BY DEF UpToThe
  <2>2. IsFiniteSet(UpToThe(f, 0)) /\ Cardinality(UpToThe(f, 0)) = 0
    BY <2>1, FS_EmptySet
  <2>3. run[0] = base + Cardinality(UpToThe(f, 0))
    BY <1>2, <2>2
  <2>4. 0 \in 0..N
    BY <1>1
  <2> QED BY <2>2, <2>3, <2>4
<1>4. ASSUME NEW n \in 1..N, n - 1 \in Fine PROVE n \in Fine
  <2>1. UpToThe(f, n) = UpToThe(f, n - 1) \cup f[n] /\ UpToThe(f, n - 1) \cap f[n] = {}
    BY <1>1, OneSetMore
  <2>2. IsFiniteSet(UpToThe(f, n - 1)) /\ run[n - 1] = base + Cardinality(UpToThe(f, n - 1))
    BY <1>4
  <2>3. IsFiniteSet(f[n]) /\ s[n] = Cardinality(f[n])
    OBVIOUS
  <2>4. /\ IsFiniteSet(UpToThe(f, n)) /\ Cardinality(UpToThe(f, n - 1)) \in Nat /\ Cardinality(f[n]) \in Nat
        /\ Cardinality(UpToThe(f, n)) = Cardinality(UpToThe(f, n - 1)) + Cardinality(f[n])
    <3>1. PICK before : before = UpToThe(f, n - 1)
      OBVIOUS
    <3>2. PICK more : more = f[n]
      OBVIOUS
    <3>3. IsFiniteSet(before) /\ IsFiniteSet(more) /\ before \cap more = {} /\ UpToThe(f, n) = before \cup more
      BY <2>1, <2>2, <2>3, <3>1, <3>2
    <3>4. /\ IsFiniteSet(before \cup more) /\ Cardinality(before) \in Nat /\ Cardinality(more) \in Nat
          /\ Cardinality(before \cup more) = Cardinality(before) + Cardinality(more)
      BY <3>3, TwoApart
    <3> QED BY <3>1, <3>2, <3>3, <3>4
  <2>5. run[n] = Plus(run[n - 1], s[n])
    BY <1>2
  <2>6. run[n] = base + Cardinality(UpToThe(f, n))
    BY <2>2, <2>3, <2>4, <2>5 DEF Plus
  <2>7. n \in 0..N
    BY <1>1
  <2> QED BY <2>4, <2>6, <2>7
<1>5. N \in Fine
  <2> HIDE DEF Fine, N
  <2>1. \A n \in 0..N : n \in Fine
    BY <1>1, <1>3, <1>4, Onwards
  <2>2. N \in 0..N
    BY <1>1
  <2> QED BY <2>1, <2>2
<1> QED BY <1>2, <1>5

\* The lists of hosts apart, each of which may be cut to as many as a node
\* shows: together they are as good, to as many, as the problems open.
AsOpen(list, H) ==
  \A v \in Nat : Lesser(Shown, Num(list, v)) = Lesser(Shown, Cardinality(OpenOn(H, v)))

LEMMA ListsAddUp ==
  ASSUME EstateIs, NEW lists \in Seq(Seq(Nat)), NEW f \in [1..Len(lists) -> SUBSET HostIds],
         \A m, n \in 1..Len(lists) : m # n => f[m] \cap f[n] = {},
         \A n \in 1..Len(lists) : AsOpen(lists[n], f[n])
  PROVE  FlattenSeq(lists) \in Seq(Nat) /\ AsOpen(FlattenSeq(lists), UpToThe(f, Len(lists)))
<1> DEFINE N == Len(lists)
<1>1. N \in Nat /\ \A n \in 1..N : lists[n] \in Seq(Nat)
  OBVIOUS
<1>2. PICK run : /\ run[0] = <<>> /\ \A n \in 0..N : run[n] \in Seq(Nat)
                 /\ \A n \in 1..N : run[n] = run[n - 1] \o lists[n]
                 /\ FlattenSeq(lists) = run[N]
  BY FlattenRuns
<1>3. \A n \in 0..N : UpToThe(f, n) \in SUBSET HostIds
  <2>1. \A n \in 0..N : \A m \in 1..n : m \in 1..N
    BY <1>1
  <2> QED BY <2>1 DEF UpToThe
<1> DEFINE Fine == {n \in 0..N : AsOpen(run[n], UpToThe(f, n))}
<1>4. 0 \in Fine
  <2>1. ASSUME NEW v \in Nat PROVE Num(<<>>, v) = Cardinality(OpenOn(UpToThe(f, 0), v))
    <3>1. AtOrAbove(<<>>, v) = {} /\ OpenOn(UpToThe(f, 0), v) = {}
      BY DEF AtOrAbove, OpenOn, UpToThe
    <3> QED BY <3>1 DEF Num
  <2>2. AsOpen(run[0], UpToThe(f, 0))
    BY <1>2, <2>1 DEF AsOpen
  <2>3. 0 \in 0..N
    BY <1>1
  <2> QED BY <2>2, <2>3
<1>5. ASSUME NEW n \in 1..N, n - 1 \in Fine PROVE n \in Fine
  <2>1. n \in 0..N /\ n - 1 \in 0..N
    BY <1>1
  <2>2. /\ UpToThe(f, n) = UpToThe(f, n - 1) \cup f[n] /\ UpToThe(f, n - 1) \cap f[n] = {}
        /\ UpToThe(f, n - 1) \in SUBSET HostIds /\ f[n] \in SUBSET HostIds
    BY <1>1, <1>3, <2>1, OneSetMore
  <2>3. AsOpen(run[n - 1], UpToThe(f, n - 1)) /\ AsOpen(lists[n], f[n])
    BY <1>5
  <2>4. run[n] = run[n - 1] \o lists[n] /\ run[n - 1] \in Seq(Nat) /\ lists[n] \in Seq(Nat)
    BY <1>1, <1>2, <2>1
  <2>5. ASSUME NEW v \in Nat
        PROVE  Lesser(Shown, Num(run[n], v)) = Lesser(Shown, Cardinality(OpenOn(UpToThe(f, n), v)))
    <3>1. Num(run[n], v) = Num(run[n - 1], v) + Num(lists[n], v)
      BY <2>4, NumOfBoth
    <3>2. Num(run[n - 1], v) \in Nat /\ Num(lists[n], v) \in Nat
      BY <2>4, NumIs
    <3>3. /\ Cardinality(OpenOn(UpToThe(f, n), v))
               = Cardinality(OpenOn(UpToThe(f, n - 1), v)) + Cardinality(OpenOn(f[n], v))
          /\ Cardinality(OpenOn(UpToThe(f, n - 1), v)) \in Nat /\ Cardinality(OpenOn(f[n], v)) \in Nat
      <4>1. PICK before \in SUBSET HostIds : before = UpToThe(f, n - 1)
        BY <2>2
      <4>2. PICK more \in SUBSET HostIds : more = f[n]
        BY <2>2
      <4>3. before \cap more = {} /\ UpToThe(f, n) = before \cup more
        BY <2>2, <4>1, <4>2
      <4>4. Cardinality(OpenOn(before \cup more, v)) = Cardinality(OpenOn(before, v)) + Cardinality(OpenOn(more, v))
        <5>1. before \cap more = {}
          BY <4>3
        <5> QED BY <5>1, OpenOnBoth, Zenon
      <4>5. Cardinality(OpenOn(before, v)) \in Nat /\ Cardinality(OpenOn(more, v)) \in Nat
        BY OpenOnIs
      <4> QED BY <4>1, <4>2, <4>3, <4>4, <4>5
    <3>4. /\ Lesser(Shown, Num(run[n - 1], v)) = Lesser(Shown, Cardinality(OpenOn(UpToThe(f, n - 1), v)))
          /\ Lesser(Shown, Num(lists[n], v)) = Lesser(Shown, Cardinality(OpenOn(f[n], v)))
      BY <2>3 DEF AsOpen
    <3>5. PICK p, q : p = Num(run[n - 1], v) /\ q = Num(lists[n], v)
      OBVIOUS
    <3>6. PICK x, y : x = Cardinality(OpenOn(UpToThe(f, n - 1), v)) /\ y = Cardinality(OpenOn(f[n], v))
      OBVIOUS
    <3>7. p \in Nat /\ q \in Nat /\ x \in Nat /\ y \in Nat /\ Shown \in Nat
      BY <3>2, <3>3, <3>5, <3>6, TreeAssumption, Zenon
    <3>8. Lesser(Shown, p) = Lesser(Shown, x) /\ Lesser(Shown, q) = Lesser(Shown, y)
      BY <3>4, <3>5, <3>6, Zenon
    <3>9. Lesser(Shown, p + q) = Lesser(Shown, x + y)
      BY <3>7, <3>8 DEF Lesser
    <3> QED BY <3>1, <3>3, <3>5, <3>6, <3>9, Zenon
  <2>6. AsOpen(run[n], UpToThe(f, n))
    BY <2>5 DEF AsOpen
  <2> QED BY <2>1, <2>6
<1>6. N \in Fine
  <2> HIDE DEF Fine, N
  <2>1. \A n \in 0..N : n \in Fine
    BY <1>1, <1>4, <1>5, Onwards
  <2>2. N \in 0..N
    BY <1>1
  <2> QED BY <2>1, <2>2
<1>7. N \in 0..N
  BY <1>1
<1> QED BY <1>2, <1>6, <1>7

-----------------------------------------------------------------------------
(* Nodes.                                                                  *)

\* A node counts all below it once, and shows of its problems what it should.
CountsAll(node) ==
  /\ node.id \notin node.below /\ IsFiniteSet(Under(node))
  /\ node.nodes = Cardinality(Under(node))
  /\ node.degraded = Cardinality(Ill(HostsIn(Under(node))))
  /\ node.worst \in Nat \cup {NoProblem}
  /\ \A v \in Nat : node.worst >= v <=> OpenOn(HostsIn(Under(node)), v) # {}
  /\ node.problems \in Seq(Nat) /\ Falling(node.problems)
  /\ \A v \in Nat : Num(node.problems, v) = Lesser(Shown, Cardinality(OpenOn(HostsIn(Under(node)), v)))

Grove(C) ==
  /\ IsFiniteSet(C)
  /\ \A c \in C : CountsAll(c)
  /\ \A c, d \in C : c # d => Under(c) \cap Under(d) = {}
AllUnder(C) == UNION {Under(c) : c \in C}

LEMMA MaxIs ==
  ASSUME NEW S \in SUBSET (Nat \cup {NoProblem}), IsFiniteSet(S), S # {}
  PROVE  Max(S) \in S /\ \A x \in S : Max(S) >= x
<1>1. NoProblem = -1
  BY DEF NoProblem
<1> DEFINE P == S \ {NoProblem}
<1>2. P \in SUBSET Nat /\ IsFiniteSet(P)
  BY FS_Subset
<1>3. \E x \in S : \A y \in S : x >= y
  <2>1. CASE P = {}
    <3>1. \A y \in S : y = NoProblem
      BY <2>1
    <3>2. NoProblem \in S
      BY <3>1
    <3>3. -1 >= -1
      OBVIOUS
    <3>4. NoProblem >= NoProblem
      BY <1>1, <3>3
    <3> QED BY <3>1, <3>2, <3>4
  <2>2. CASE P # {}
    <3>1. PICK x \in P : \A y \in P : x >= y
      BY <1>2, <2>2, HasALargest
    <3>2. x \in Nat /\ x \in S
      BY <1>2
    <3>3. ASSUME NEW y \in S PROVE x >= y
      <4>1. y \in P \/ y = NoProblem
        OBVIOUS
      <4> HIDE DEF P
      <4> QED BY <1>1, <3>1, <3>2, <4>1
    <3> QED BY <3>2, <3>3
  <2> QED BY <2>1, <2>2
<1> QED BY <1>3 DEF Max

\* groupNode
LEMMA GroupCovers ==
  ASSUME EstateIs, NEW C, Grove(C), NEW id, id \notin AllUnder(C), \A h \in HostIds : id # <<"host", h>>
  PROVE  CountsAll(Group(id, C)) /\ Under(Group(id, C)) = AllUnder(C) \cup {id}
<1> DEFINE N == Cardinality(C)
           at == SetToSeq(C)
           counts == [n \in 1..N |-> at[n].nodes]
           ills == [n \in 1..N |-> at[n].degraded]
           lists == [n \in 1..N |-> at[n].problems]
           node == Group(id, C)
           G == AllUnder(C)
           f == [n \in 1..N |-> Under(at[n])]
           g == [n \in 1..N |-> HostsIn(Under(at[n]))]
           e == [n \in 1..N |-> Ill(HostsIn(Under(at[n])))]
<1>1. /\ N \in Nat /\ \A n \in 1..N : at[n] \in C
      /\ \A m, n \in 1..N : at[m] = at[n] => m = n
      /\ \A x \in C : \E n \in 1..N : at[n] = x
  BY Listing DEF Grove
<1>2. ~(NoProblem >= 0) /\ NoProblem = -1
  BY DEF NoProblem
<1>3. /\ node.id = id /\ node.below = G
      /\ node.worst = Max({NoProblem} \cup {c.worst : c \in C})
      /\ node.nodes = FoldLeft(Plus, 1, counts)
      /\ node.degraded = FoldLeft(Plus, 0, ills)
      /\ node.problems = WorstOf(FlattenSeq(lists))
  BY <1>2 DEF Group, Finished, AllUnder, Under
<1> HIDE DEF N, at, node
<1>4. Under(node) = G \cup {id} /\ HostsIn(Under(node)) = HostsIn(G) /\ node.id \notin node.below
  BY <1>3 DEF Under, HostsIn
<1>5. \A n \in 1..N : CountsAll(at[n]) /\ HostsIn(Under(at[n])) \in SUBSET HostIds
  BY <1>1 DEF Grove, HostsIn
<1>6. \A m, n \in 1..N : m # n => Under(at[m]) \cap Under(at[n]) = {}
  BY <1>1 DEF Grove
<1>7. /\ UpToThe(f, N) = G
      /\ UpToThe(g, N) = HostsIn(G)
      /\ UpToThe(e, N) = Ill(HostsIn(G))
  <2>1. G = UNION {Under(at[n]) : n \in 1..N}
    BY <1>1 DEF AllUnder
  <2> HIDE DEF G
  <2>2. UpToThe(f, N) = G
    BY <2>1 DEF UpToThe
  <2>3. UpToThe(g, N) = HostsIn(G)
    BY <2>1 DEF UpToThe, HostsIn
  <2>4. UpToThe(e, N) = Ill(HostsIn(G))
    BY <2>1 DEF UpToThe, HostsIn, Ill
  <2> QED BY <2>2, <2>3, <2>4
<1>8. /\ \A m, n \in 1..N : m # n => f[m] \cap f[n] = {}
      /\ \A m, n \in 1..N : m # n => g[m] \cap g[n] = {}
      /\ \A m, n \in 1..N : m # n => e[m] \cap e[n] = {}
  BY <1>6 DEF HostsIn, Ill
<1>9. /\ \A n \in 1..N : IsFiniteSet(f[n]) /\ counts[n] = Cardinality(f[n]) /\ counts[n] \in Nat
      /\ \A n \in 1..N : IsFiniteSet(e[n]) /\ ills[n] = Cardinality(e[n]) /\ ills[n] \in Nat
  <2>1. ASSUME NEW n \in 1..N
        PROVE  /\ IsFiniteSet(f[n]) /\ counts[n] = Cardinality(f[n]) /\ counts[n] \in Nat
               /\ IsFiniteSet(e[n]) /\ ills[n] = Cardinality(e[n]) /\ ills[n] \in Nat
    <3>1. IsFiniteSet(f[n]) /\ counts[n] = Cardinality(f[n]) /\ ills[n] = Cardinality(e[n])
      BY <1>5 DEF CountsAll
    <3>2. PICK H \in SUBSET HostIds : H = HostsIn(Under(at[n]))
      BY <1>5
    <3>3. IsFiniteSet(Ill(H)) /\ Cardinality(Ill(H)) \in Nat
      <4>1. 0 \in Nat
        OBVIOUS
      <4> QED BY <4>1, OpenOnIs
    <3>4. e[n] = Ill(H)
      BY <3>2
    <3> HIDE DEF f, e, counts, ills
    <3> QED BY <3>1, <3>3, <3>4, FS_CardinalityType
  <2> QED BY <2>1
<1>10. counts \in Seq(Nat) /\ ills \in Seq(Nat) /\ Len(counts) = N /\ Len(ills) = N
  <2>1. \A n \in 1..N : at[n].nodes \in Nat /\ at[n].degraded \in Nat
    BY <1>9
  <2>2. counts \in Seq(Nat) /\ Len(counts) = N
    BY <1>1, <2>1
  <2>3. ills \in Seq(Nat) /\ Len(ills) = N
    BY <1>1, <2>1
  <2> QED BY <2>2, <2>3
<1>11. IsFiniteSet(Under(node)) /\ node.nodes = Cardinality(Under(node))
  <2> HIDE DEF counts, f, G
  <2>1. IsFiniteSet(UpToThe(f, N)) /\ FoldLeft(Plus, 1, counts) = 1 + Cardinality(UpToThe(f, N))
    <3>1. /\ counts \in Seq(Nat) /\ 1 \in Nat
          /\ \A m, n \in 1..Len(counts) : m # n => f[m] \cap f[n] = {}
          /\ \A n \in 1..Len(counts) : IsFiniteSet(f[n]) /\ counts[n] = Cardinality(f[n])
      BY <1>8, <1>9, <1>10
    <3>2. /\ IsFiniteSet(UpToThe(f, Len(counts)))
          /\ FoldLeft(Plus, 1, counts) = 1 + Cardinality(UpToThe(f, Len(counts)))
      BY <3>1, TheyAddUp, Zenon
    <3> QED BY <1>10, <3>2
  <2>2. /\ IsFiniteSet(G \cup {id}) /\ Cardinality(G \cup {id}) = Cardinality(G) + 1
        /\ Cardinality(G) \in Nat
    BY <1>3, <1>4, <1>7, <2>1, FS_AddElement, FS_CardinalityType
  <2> QED BY <1>3, <1>4, <1>7, <2>1, <2>2
<1>12. node.degraded = Cardinality(Ill(HostsIn(Under(node))))
  <2> HIDE DEF ills, e, G
  <2>1. IsFiniteSet(UpToThe(e, N)) /\ FoldLeft(Plus, 0, ills) = 0 + Cardinality(UpToThe(e, N))
    <3>1. /\ ills \in Seq(Nat) /\ 0 \in Nat
          /\ \A m, n \in 1..Len(ills) : m # n => e[m] \cap e[n] = {}
          /\ \A n \in 1..Len(ills) : IsFiniteSet(e[n]) /\ ills[n] = Cardinality(e[n])
      BY <1>8, <1>9, <1>10
    <3>2. /\ IsFiniteSet(UpToThe(e, Len(ills)))
          /\ FoldLeft(Plus, 0, ills) = 0 + Cardinality(UpToThe(e, Len(ills)))
      BY <3>1, TheyAddUp, Zenon
    <3> QED BY <1>10, <3>2
  <2>2. Cardinality(UpToThe(e, N)) \in Nat
    BY <2>1, FS_CardinalityType
  <2> QED BY <1>3, <1>4, <1>7, <2>1, <2>2
<1>13. HostsIn(G) \in SUBSET HostIds
  BY DEF HostsIn
<1>14. /\ node.problems \in Seq(Nat) /\ Falling(node.problems)
       /\ \A v \in Nat : Num(node.problems, v) = Lesser(Shown, Cardinality(OpenOn(HostsIn(Under(node)), v)))
  <2>1. lists \in Seq(Seq(Nat)) /\ Len(lists) = N /\ g \in [1..N -> SUBSET HostIds]
    <3>1. \A n \in 1..N : at[n].problems \in Seq(Nat)
      BY <1>5 DEF CountsAll
    <3> QED BY <1>1, <1>5, <3>1
  <2>2. ASSUME NEW n \in 1..N PROVE AsOpen(lists[n], g[n])
    <3>1. \A v \in Nat : Num(lists[n], v) = Lesser(Shown, Cardinality(OpenOn(g[n], v)))
      BY <1>5 DEF CountsAll
    <3>2. \A a : Lesser(Shown, Lesser(Shown, a)) = Lesser(Shown, a)
      BY DEF Lesser
    <3> HIDE DEF lists, g
    <3> QED BY <3>1, <3>2 DEF AsOpen
  <2> HIDE DEF lists, g, G
  <2>3. FlattenSeq(lists) \in Seq(Nat) /\ AsOpen(FlattenSeq(lists), HostsIn(G))
    BY <1>7, <1>8, <2>1, <2>2, ListsAddUp
  <2>4. PICK list \in Seq(Nat) : list = FlattenSeq(lists)
    BY <2>3
  <2>5. /\ WorstOf(list) \in Seq(Nat) /\ Falling(WorstOf(list))
        /\ \A v \in Nat : Num(WorstOf(list), v) = Lesser(Shown, Num(list, v))
    BY WorstOfIs
  <2> QED BY <1>3, <1>4, <2>3, <2>4, <2>5 DEF AsOpen
<1>15. /\ node.worst \in Nat \cup {NoProblem}
       /\ \A v \in Nat : node.worst >= v <=> OpenOn(HostsIn(Under(node)), v) # {}
  <2> DEFINE W == {NoProblem} \cup {c.worst : c \in C}
             w == [c \in C |-> c.worst]
  <2>1. \A c \in C : CountsAll(c)
    BY DEF Grove
  <2>2. W \in SUBSET (Nat \cup {NoProblem}) /\ W # {} /\ IsFiniteSet(W)
    <3>1. IsFiniteSet({w[c] : c \in C}) /\ {w[c] : c \in C} = {c.worst : c \in C}
      BY FiniteImage DEF Grove
    <3>2. IsFiniteSet({c.worst : c \in C} \cup {NoProblem})
      BY <3>1, FS_AddElement
    <3>3. W = {c.worst : c \in C} \cup {NoProblem}
      OBVIOUS
    <3>4. \A c \in C : c.worst \in Nat \cup {NoProblem}
      BY <2>1 DEF CountsAll
    <3> QED BY <3>2, <3>3, <3>4
  <2>3. node.worst \in W /\ \A x \in W : node.worst >= x
    <3>1. node.worst = Max(W)
      BY <1>3
    <3> HIDE DEF W
    <3> QED BY <2>2, <3>1, MaxIs
  <2>4. node.worst \in Nat \cup {NoProblem}
    BY <2>2, <2>3
  <2>5. ASSUME NEW v \in Nat PROVE node.worst >= v <=> OpenOn(HostsIn(Under(node)), v) # {}
    <3>1. OpenOn(HostsIn(G), v) # {} <=> \E c \in C : OpenOn(HostsIn(Under(c)), v) # {}
      <4>1. \A x : x \in HostsIn(G) <=> \E c \in C : x \in HostsIn(Under(c))
        BY DEF HostsIn, AllUnder
      <4>2. \A H : OpenOn(H, v) # {} <=> \E h \in H : OpenOf(h, v) # {}
        BY DEF OpenOn
      <4> HIDE DEF G
      <4> QED BY <4>1, <4>2
    <3>2. \A c \in C : c.worst >= v <=> OpenOn(HostsIn(Under(c)), v) # {}
      BY <2>1 DEF CountsAll
    <3>3. node.worst >= v <=> \E c \in C : c.worst >= v
      <4>1. node.worst \in Int /\ \A c \in C : c.worst \in Int /\ node.worst >= c.worst
        BY <1>2, <2>2, <2>3, <2>4
      <4>2. node.worst = NoProblem \/ \E c \in C : node.worst = c.worst
        BY <2>3
      <4>3. ~(NoProblem >= v)
        BY <1>2
      <4> QED BY <4>1, <4>2, <4>3
    <3> QED BY <1>4, <3>1, <3>2, <3>3
  <2> QED BY <2>4, <2>5
<1>16. CountsAll(node)
  BY <1>4, <1>11, <1>12, <1>14, <1>15 DEF CountsAll
<1> QED BY <1>4, <1>16 DEF node

LEMMA NoneIsWorst ==
  /\ WorstOf(<<>>) \in Seq(Nat) /\ Falling(WorstOf(<<>>))
  /\ \A v \in Nat : Num(<<>>, v) = 0 /\ Num(WorstOf(<<>>), v) = 0
<1>1. PICK none \in Seq(Nat) : none = <<>>
  <2>1. <<>> \in Seq(Nat)
    OBVIOUS
  <2> QED BY <2>1
<1>2. \A v \in Nat : Num(none, v) = 0
  <2>1. \A v \in Nat : AtOrAbove(none, v) = {}
    BY <1>1 DEF AtOrAbove
  <2> QED BY <2>1, FS_EmptySet DEF Num
<1>3. /\ WorstOf(none) \in Seq(Nat) /\ Falling(WorstOf(none))
      /\ \A v \in Nat : Num(WorstOf(none), v) = Lesser(Shown, Num(none, v))
  BY WorstOfIs
<1>4. \A v \in Nat : Num(WorstOf(none), v) = 0
  BY <1>2, <1>3, TreeAssumption DEF Lesser
<1> QED BY <1>1, <1>2, <1>3, <1>4

\* finish, of a node with nothing under it.
IsLeaf(node, id, status, own) ==
  /\ node.id = id /\ node.below = {} /\ node.nodes = 1 /\ node.worst = status
  /\ node.degraded = IF status >= 0 THEN 1 ELSE 0
  /\ node.problems = IF own # <<>> THEN own ELSE WorstOf(<<>>)

LEMMA LeafIs ==
  ASSUME NEW id, NEW status \in Nat \cup {NoProblem}, NEW own, NEW node, node = Finished(id, status, own, {})
  PROVE  IsLeaf(node, id, status, own)
<1> DEFINE kids == SetToSeq({})
           counts == [n \in 1..Cardinality({}) |-> kids[n].nodes]
           ills == [n \in 1..Cardinality({}) |-> kids[n].degraded]
           lists == [n \in 1..Cardinality({}) |-> kids[n].problems]
           ill == IF status >= 0 THEN 1 ELSE 0
<1>1. 1..Cardinality({}) = {}
  <2>1. Cardinality({}) = 0
    BY FS_EmptySet
  <2> QED BY <2>1
<1>2. counts = <<>> /\ ills = <<>> /\ lists = <<>>
  BY <1>1
<1>3. /\ node.id = id /\ node.below = UNION {} /\ node.worst = Max({status} \cup {})
      /\ node.nodes = FoldLeft(Plus, 1, counts)
      /\ node.degraded = FoldLeft(Plus, ill, ills)
      /\ node.problems = IF own # <<>> THEN own ELSE WorstOf(FlattenSeq(lists))
  BY DEF Finished
<1>4. Max({status} \cup {}) = status
  <2>1. IsFiniteSet({status}) /\ {status} # {} /\ {status} \in SUBSET (Nat \cup {NoProblem})
    BY FS_Singleton
  <2>2. Max({status}) \in {status}
    BY <2>1, MaxIs
  <2>3. {status} \cup {} = {status}
    OBVIOUS
  <2> QED BY <2>2, <2>3
<1>5. FlattenSeq(<<>>) = <<>>
  BY DEF FlattenSeq
<1>6. \A base \in Nat : FoldLeft(Plus, base, <<>>) = base
  <2> SUFFICES ASSUME NEW base \in Nat PROVE FoldLeft(Plus, base, <<>>) = base
    OBVIOUS
  <2>1. PICK s \in Seq(Nat) : s = <<>>
    <3>1. <<>> \in Seq(Nat)
      OBVIOUS
    <3> QED BY <3>1
  <2>2. \E run : /\ run[0] = base
                 /\ \A n \in 1..Len(s) : run[n] = Plus(run[n - 1], s[n])
                 /\ FoldLeft(Plus, base, s) = run[Len(s)]
    BY PlusRuns, Zenon
  <2>3. Len(s) = 0
    BY <2>1
  <2> QED BY <2>1, <2>2, <2>3
<1>7. 1 \in Nat /\ ill \in Nat
  OBVIOUS
<1> HIDE DEF counts, ills, lists, ill
<1>8. node.nodes = 1 /\ node.degraded = ill
  BY <1>2, <1>3, <1>6, <1>7
<1> QED BY <1>2, <1>3, <1>4, <1>5, <1>8 DEF ill, IsLeaf

\* hostNode
LEMMA HostCovers ==
  ASSUME EstateIs, NEW h \in HostIds
  PROVE  CountsAll(HostNode(h)) /\ Under(HostNode(h)) = {<<"host", h>>}
<1> DEFINE node == HostNode(h)
<1>1. PICK ps \in Seq(Nat) : ps = estate.problems[h]
  BY DEF EstateIs
<1>2. PICK open : open = WorstOf(ps)
  OBVIOUS
<1>3. PICK status : status = IF open = <<>> THEN NoProblem ELSE open[1]
  OBVIOUS
<1>4. /\ open \in Seq(Nat) /\ Falling(open)
      /\ \A v \in Nat : Num(open, v) = Lesser(Shown, Num(ps, v))
  BY <1>2, WorstOfIs
<1>5. /\ status \in Nat \cup {NoProblem}
      /\ \A v \in Nat : status >= v <=> Num(open, v) # 0
  <2>1. CASE open = <<>>
    <3>1. status = NoProblem /\ \A v \in Nat : Num(open, v) = 0 /\ ~(NoProblem >= v)
      BY <1>3, <2>1, NoneIsWorst DEF NoProblem
    <3> QED BY <3>1
  <2>2. CASE open # <<>>
    <3>1. Len(open) \in Nat /\ 1 \in 1..Len(open) /\ status = open[1] /\ status \in Nat
      BY <1>3, <1>4, <2>2
    <3>2. ASSUME NEW v \in Nat PROVE status >= v <=> Num(open, v) # 0
      <4>1. open[1] >= v <=> 1 <= Num(open, v)
        BY <1>4, <3>1, FallingNum
      <4>2. Num(open, v) \in Nat
        BY <1>4, NumIs
      <4> QED BY <3>1, <4>1, <4>2
    <3> QED BY <3>1, <3>2
  <2> QED BY <2>1, <2>2
<1>6. /\ node.id = <<"host", h>> /\ node.below = {} /\ node.nodes = 1 /\ node.worst = status
      /\ node.degraded = IF status >= 0 THEN 1 ELSE 0
      /\ node.problems = IF open # <<>> THEN open ELSE WorstOf(<<>>)
  <2>1. node = Finished(<<"host", h>>, status, open, {})
    BY <1>1, <1>2, <1>3 DEF HostNode
  <2>2. PICK id : id = <<"host", h>>
    OBVIOUS
  <2>3. PICK leaf : leaf = Finished(id, status, open, {})
    OBVIOUS
  <2>4. status \in Nat \cup {NoProblem}
    BY <1>5
  <2>5. /\ leaf.id = id /\ leaf.below = {} /\ leaf.nodes = 1 /\ leaf.worst = status
        /\ leaf.degraded = IF status >= 0 THEN 1 ELSE 0
        /\ leaf.problems = IF open # <<>> THEN open ELSE WorstOf(<<>>)
    <3>1. IsLeaf(leaf, id, status, open)
      BY <2>3, <2>4, LeafIs
    <3> QED BY <3>1 DEF IsLeaf
  <2> HIDE DEF node
  <2> QED BY <2>1, <2>2, <2>3, <2>5
<1> HIDE DEF node
<1>7. Under(node) = {<<"host", h>>} /\ HostsIn(Under(node)) = {h}
  <2>1. Under(node) = {<<"host", h>>}
    BY <1>6 DEF Under
  <2>2. \A g \in HostIds : <<"host", g>> = <<"host", h>> <=> g = h
    OBVIOUS
  <2> QED BY <2>1, <2>2 DEF HostsIn
<1>8. \A v \in Nat : OpenOn({h}, v) = OpenOf(h, v) /\ Cardinality(OpenOn({h}, v)) = Num(ps, v)
  BY <1>1, OpenOfIs DEF OpenOn
<1>9. \A v \in Nat : Num(ps, v) \in Nat /\ (Num(open, v) # 0 <=> Num(ps, v) # 0)
  <2> SUFFICES ASSUME NEW v \in Nat PROVE Num(ps, v) \in Nat /\ (Num(open, v) # 0 <=> Num(ps, v) # 0)
    OBVIOUS
  <2>1. Num(ps, v) \in Nat
    BY NumIs
  <2>2. Num(open, v) = Lesser(Shown, Num(ps, v))
    BY <1>4
  <2> QED BY <2>1, <2>2, TreeAssumption DEF Lesser
<1>10. \A v \in Nat : status >= v <=> OpenOn({h}, v) # {}
  <2> SUFFICES ASSUME NEW v \in Nat PROVE status >= v <=> OpenOn({h}, v) # {}
    OBVIOUS
  <2>1. IsFiniteSet(OpenOf(h, v))
    BY OpenOfIs
  <2>2. OpenOf(h, v) # {} <=> Num(ps, v) # 0
    BY <1>8, <2>1, FS_EmptySet
  <2> QED BY <1>5, <1>8, <1>9, <2>2
<1>11. node.degraded = Cardinality(Ill({h}))
  <2>1. status >= 0 <=> ps # <<>>
    <3>1. Num(ps, 0) = Len(ps)
      BY NumIs
    <3>2. Len(ps) # 0 <=> ps # <<>>
      OBVIOUS
    <3> QED BY <1>5, <1>9, <3>1, <3>2
  <2>2. Ill({h}) = IF status >= 0 THEN {h} ELSE {}
    BY <1>1, <2>1 DEF Ill
  <2>3. Cardinality({h}) = 1 /\ Cardinality({}) = 0
    BY FS_Singleton, FS_EmptySet
  <2> QED BY <1>6, <2>2, <2>3
<1>12. IsFiniteSet(Under(node)) /\ Cardinality(Under(node)) = 1
  BY <1>7, FS_Singleton
<1>13. /\ node.problems \in Seq(Nat) /\ Falling(node.problems)
       /\ \A v \in Nat : Num(node.problems, v) = Lesser(Shown, Num(ps, v))
  <2>1. CASE open # <<>>
    BY <1>4, <1>6, <2>1
  <2>2. CASE open = <<>>
    <3>1. /\ node.problems \in Seq(Nat) /\ Falling(node.problems)
          /\ \A v \in Nat : Num(node.problems, v) = 0 /\ Num(open, v) = 0
      BY <1>6, <2>2, NoneIsWorst
    <3> QED BY <1>4, <3>1
  <2> QED BY <2>1, <2>2
<1>14. CountsAll(node)
  BY <1>5, <1>6, <1>7, <1>8, <1>10, <1>11, <1>12, <1>13 DEF CountsAll
<1> QED BY <1>7, <1>14 DEF node

-----------------------------------------------------------------------------
(* Groves.                                                                 *)

HostTags(H) == {<<"host", h>> : h \in H}

LEMMA BothGroves ==
  ASSUME NEW C, NEW D, Grove(C), Grove(D), AllUnder(C) \cap AllUnder(D) = {}
  PROVE  Grove(C \cup D) /\ AllUnder(C \cup D) = AllUnder(C) \cup AllUnder(D)
<1>1. IsFiniteSet(C \cup D)
  BY FS_Union DEF Grove
<1>2. \A c \in C \cup D : CountsAll(c)
  BY DEF Grove
<1>3. /\ \A c \in C : Under(c) \subseteq AllUnder(C)
      /\ \A d \in D : Under(d) \subseteq AllUnder(D)
      /\ \A c, d \in C : c # d => Under(c) \cap Under(d) = {}
      /\ \A c, d \in D : c # d => Under(c) \cap Under(d) = {}
  BY DEF Grove, AllUnder
<1>4. ASSUME NEW c \in C \cup D, NEW d \in C \cup D, c # d PROVE Under(c) \cap Under(d) = {}
  <2>1. CASE c \in C /\ d \in C
    BY <1>3, <1>4, <2>1
  <2>2. CASE c \in D /\ d \in D
    BY <1>3, <1>4, <2>2
  <2>3. CASE c \in C /\ d \in D
    BY <1>3, <2>3
  <2>4. CASE c \in D /\ d \in C
    BY <1>3, <2>4
  <2> QED BY <2>1, <2>2, <2>3, <2>4
<1>5. AllUnder(C \cup D) = AllUnder(C) \cup AllUnder(D)
  BY DEF AllUnder
<1> QED BY <1>1, <1>2, <1>4, <1>5 DEF Grove

\* A node for each of some things, with nothing of another's under it.
GrowApart(S, f) ==
  /\ IsFiniteSet(S)
  /\ \A x \in S : CountsAll(f[x])
  /\ \A x, y \in S : x # y => Under(f[x]) \cap Under(f[y]) = {}
GroveFrom(S, f, C) == Grove(C) /\ AllUnder(C) = UNION {Under(f[x]) : x \in S}

LEMMA GroveOf ==
  ASSUME NEW S, NEW f, GrowApart(S, f)
  PROVE  GroveFrom(S, f, {f[x] : x \in S})
<1> DEFINE C == {f[x] : x \in S}
<1>0. /\ IsFiniteSet(S) /\ \A x \in S : CountsAll(f[x])
      /\ \A x, y \in S : x # y => Under(f[x]) \cap Under(f[y]) = {}
  BY DEF GrowApart
<1>1. IsFiniteSet(C)
  BY <1>0, FiniteImage
<1>2. \A c \in C : CountsAll(c)
  BY <1>0
<1>3. \A c, d \in C : c # d => Under(c) \cap Under(d) = {}
  <2> SUFFICES ASSUME NEW c \in C, NEW d \in C, c # d PROVE Under(c) \cap Under(d) = {}
    OBVIOUS
  <2>1. PICK x \in S : c = f[x]
    OBVIOUS
  <2>2. PICK y \in S : d = f[y]
    OBVIOUS
  <2> QED BY <1>0, <2>1, <2>2
<1>4. AllUnder(C) = UNION {Under(f[x]) : x \in S}
  BY DEF AllUnder
<1> QED BY <1>1, <1>2, <1>3, <1>4 DEF Grove, GroveFrom

LEMMA SmallGroves ==
  /\ Grove({}) /\ AllUnder({}) = {}
  /\ \A c : CountsAll(c) => Grove({c}) /\ AllUnder({c}) = Under(c)
<1>1. IsFiniteSet({}) /\ \A c : IsFiniteSet({c})
  BY FS_EmptySet, FS_Singleton
<1>2. Grove({}) /\ AllUnder({}) = {}
  BY <1>1 DEF Grove, AllUnder
<1>3. \A c : CountsAll(c) => Grove({c})
  BY <1>1 DEF Grove
<1>4. \A c : AllUnder({c}) = Under(c)
  BY DEF AllUnder
<1> QED BY <1>2, <1>3, <1>4

LEMMA HostGrove ==
  ASSUME EstateIs, NEW H \in SUBSET HostIds
  PROVE  Grove(HostNodes(H)) /\ AllUnder(HostNodes(H)) = HostTags(H)
<1> DEFINE f == [h \in H |-> HostNode(h)]
<1>1. IsFiniteSet(H)
  BY TreeAssumption, FS_Subset
<1>2. HostNodes(H) = {f[h] : h \in H}
  BY DEF HostNodes
<1>3. \A h \in H : CountsAll(f[h]) /\ Under(f[h]) = {<<"host", h>>}
  BY HostCovers
<1> HIDE DEF f
<1>4. \A h, g \in H : h # g => Under(f[h]) \cap Under(f[g]) = {}
  <2> SUFFICES ASSUME NEW h \in H, NEW g \in H, h # g PROVE Under(f[h]) \cap Under(f[g]) = {}
    OBVIOUS
  <2>1. <<"host", h>> # <<"host", g>>
    OBVIOUS
  <2> QED BY <1>3, <2>1
<1>5. Grove({f[h] : h \in H}) /\ AllUnder({f[h] : h \in H}) = UNION {Under(f[h]) : h \in H}
  <2>1. GrowApart(H, f)
    BY <1>1, <1>3, <1>4 DEF GrowApart
  <2>2. GroveFrom(H, f, {f[h] : h \in H})
    BY <2>1, GroveOf
  <2> QED BY <2>2 DEF GroveFrom
<1>6. UNION {Under(f[h]) : h \in H} = HostTags(H)
  BY <1>3 DEF HostTags
<1> QED BY <1>2, <1>5, <1>6

-----------------------------------------------------------------------------
(* The nodes of the estate.                                                *)

WanTags(site) == {<<"wan", path>> : path \in PathsAt(site)}

LEMMA TagsApart ==
  /\ \A H : \A t \in HostTags(H) : t[1] = "host" /\ t[2] \in H
  /\ \A site : \A t \in WanTags(site) : t[1] = "wan" /\ t[2] \in PathsAt(site)
<1>1. \A H : \A t \in HostTags(H) : t[1] = "host" /\ t[2] \in H
  BY DEF HostTags
<1>2. \A site : \A t \in WanTags(site) : t[1] = "wan" /\ t[2] \in PathsAt(site)
  BY DEF WanTags
<1> QED BY <1>1, <1>2

LEMMA PathsAre ==
  ASSUME EstateIs
  PROVE  /\ \A path : Legs(path) = {h \in HostIds : estate.hosts[h].path = path}
         /\ \A site : IsFiniteSet(PathsAt(site))
         /\ \A site : \A path \in PathsAt(site) : path # NoPath /\ estate.hosts[FirstLeg(path)].site = site
         /\ \A site : \A h \in HostIds :
              estate.hosts[h].site = site /\ site # NoSite /\ estate.hosts[h].path # NoPath =>
                (estate.hosts[h].path \in PathsAt(site) <=> h \notin Lost)
<1>1. \A h \in HostIds : estate.hosts[h] \in HostKinds
  BY DEF EstateIs
<1>2. \A path : Legs(path) = {h \in HostIds : estate.hosts[h].path = path}
  BY <1>1 DEF Legs, HostsAre
<1> DEFINE f == [h \in HostIds |-> estate.hosts[h].path]
<1>3. IsFiniteSet({f[h] : h \in HostIds}) /\ {f[h] : h \in HostIds} = {estate.hosts[h].path : h \in HostIds}
  BY TreeAssumption, FiniteImage
<1>4. \A site : PathsAt(site) \subseteq {estate.hosts[h].path : h \in HostIds}
  BY DEF PathsAt
<1>5. \A site : IsFiniteSet(PathsAt(site))
  BY <1>3, <1>4, FS_Subset
<1>6. \A site : \A path \in PathsAt(site) : path # NoPath /\ estate.hosts[FirstLeg(path)].site = site
  BY DEF PathsAt
<1>7. \A site : \A h \in HostIds :
        estate.hosts[h].site = site /\ site # NoSite /\ estate.hosts[h].path # NoPath =>
          (estate.hosts[h].path \in PathsAt(site) <=> h \notin Lost)
  BY DEF PathsAt, Lost
<1> QED BY <1>2, <1>5, <1>6, <1>7

\* buildWanPaths
LEMMA WanGrove ==
  ASSUME EstateIs, NEW site, site # NoSite,
         NEW members \in SUBSET HostIds, \A h \in members : estate.hosts[h].site = site
  PROVE  /\ Grove(WanChildren(site, members))
         /\ AllUnder(WanChildren(site, members)) = HostTags(members \ Lost) \cup WanTags(site)
<1> DEFINE paths == PathsAt(site)
           f == [path \in paths |-> Group(<<"wan", path>>, HostNodes(Legs(path) \cap members))]
           loose == {h \in members : estate.hosts[h].path = NoPath}
<1>1. /\ IsFiniteSet(paths)
      /\ \A path : Legs(path) = {h \in HostIds : estate.hosts[h].path = path}
      /\ \A path \in paths : path # NoPath
      /\ \A h \in members : estate.hosts[h].path # NoPath => (estate.hosts[h].path \in paths <=> h \notin Lost)
  BY PathsAre
<1>2. WanChildren(site, members) = {f[path] : path \in paths} \cup HostNodes(loose)
  BY DEF WanChildren
<1> HIDE DEF paths
<1>3. ASSUME NEW path \in paths
      PROVE  CountsAll(f[path]) /\ Under(f[path]) = HostTags(Legs(path) \cap members) \cup {<<"wan", path>>}
  <2>1. PICK H \in SUBSET HostIds : H = Legs(path) \cap members
    OBVIOUS
  <2>2. Grove(HostNodes(H)) /\ AllUnder(HostNodes(H)) = HostTags(H)
    BY HostGrove
  <2>3. PICK id : id = <<"wan", path>>
    OBVIOUS
  <2>4. id \notin HostTags(H) /\ \A h \in HostIds : id # <<"host", h>>
    BY <2>3 DEF HostTags
  <2>5. PICK C : C = HostNodes(H)
    OBVIOUS
  <2>6. CountsAll(Group(id, C)) /\ Under(Group(id, C)) = AllUnder(C) \cup {id}
    BY <2>2, <2>4, <2>5, GroupCovers
  <2>7. f[path] = Group(id, C)
    BY <2>1, <2>3, <2>5
  <2> QED BY <2>1, <2>2, <2>3, <2>5, <2>6, <2>7
<1> HIDE DEF f
<1>4. \A p, q \in paths : p # q => Under(f[p]) \cap Under(f[q]) = {}
  <2> SUFFICES ASSUME NEW p \in paths, NEW q \in paths, p # q, NEW t \in Under(f[p]), t \in Under(f[q])
               PROVE  FALSE
    OBVIOUS
  <2>1. /\ t \in HostTags(Legs(p) \cap members) \/ t = <<"wan", p>>
        /\ t \in HostTags(Legs(q) \cap members) \/ t = <<"wan", q>>
    BY <1>3
  <2>2. \A r : t \in HostTags(Legs(r) \cap members) => t[1] = "host" /\ t[2] \in HostIds /\ estate.hosts[t[2]].path = r
    BY <1>1, TagsApart
  <2>3. \A r : t = <<"wan", r>> => t[1] = "wan" /\ t[2] = r
    OBVIOUS
  <2> QED BY <2>1, <2>2, <2>3
<1>5. /\ Grove({f[path] : path \in paths})
      /\ AllUnder({f[path] : path \in paths}) = UNION {Under(f[path]) : path \in paths}
  <2>1. \A path \in paths : CountsAll(f[path])
    BY <1>3
  <2>2. IsFiniteSet(paths)
    BY <1>1
  <2>3. GrowApart(paths, f)
    BY <1>4, <2>1, <2>2 DEF GrowApart
  <2>4. GroveFrom(paths, f, {f[path] : path \in paths})
    BY <2>3, GroveOf
  <2> QED BY <2>4 DEF GroveFrom
<1>6. Grove(HostNodes(loose)) /\ AllUnder(HostNodes(loose)) = HostTags(loose)
  BY HostGrove
<1>7. AllUnder({f[path] : path \in paths}) \cap AllUnder(HostNodes(loose)) = {}
  <2> SUFFICES ASSUME NEW path \in paths, NEW t \in Under(f[path]), t \in HostTags(loose) PROVE FALSE
    BY <1>5, <1>6
  <2>1. t[1] = "host" /\ t[2] \in members /\ estate.hosts[t[2]].path = NoPath
    BY TagsApart
  <2>2. t \in HostTags(Legs(path) \cap members) \/ t = <<"wan", path>>
    BY <1>3
  <2>3. t \in HostTags(Legs(path) \cap members) => estate.hosts[t[2]].path = path
    BY <1>1, TagsApart
  <2>4. t = <<"wan", path>> => t[1] = "wan"
    OBVIOUS
  <2> QED BY <1>1, <2>1, <2>2, <2>3, <2>4
<1> DEFINE pathed == UNION {Under(f[path]) : path \in paths}
<1>8. pathed \cup HostTags(loose) = HostTags(members \ Lost) \cup WanTags(site)
  <2>1. WanTags(site) = {<<"wan", path>> : path \in paths}
    BY DEF WanTags, paths
  <2>2. ASSUME NEW h \in members \ Lost PROVE <<"host", h>> \in pathed \cup HostTags(loose)
    <3>1. CASE estate.hosts[h].path = NoPath
      <4>1. h \in loose
        BY <3>1
      <4>2. <<"host", h>> \in HostTags(loose)
        BY <4>1 DEF HostTags
      <4> QED BY <4>2
    <3>2. CASE estate.hosts[h].path # NoPath
      <4>1. PICK path \in paths : path = estate.hosts[h].path
        BY <1>1, <3>2
      <4>2. h \in Legs(path) \cap members
        BY <1>1, <4>1
      <4>3. <<"host", h>> \in HostTags(Legs(path) \cap members)
        BY <4>2 DEF HostTags
      <4> QED BY <1>3, <4>3
    <3> QED BY <3>1, <3>2
  <2>3. HostTags(members \ Lost) \subseteq pathed \cup HostTags(loose)
    BY <2>2 DEF HostTags
  <2>4. WanTags(site) \subseteq pathed
    BY <1>3, <2>1
  <2>5. /\ HostTags(loose) \subseteq HostTags(members \ Lost)
        /\ \A path \in paths : HostTags(Legs(path) \cap members) \subseteq HostTags(members \ Lost)
    <3>1. loose \subseteq members \ Lost
      BY DEF Lost
    <3>2. \A path \in paths : Legs(path) \cap members \subseteq members \ Lost
      BY <1>1
    <3> QED BY <3>1, <3>2 DEF HostTags
  <2>6. pathed \subseteq HostTags(members \ Lost) \cup WanTags(site)
    <3> SUFFICES ASSUME NEW path \in paths, NEW t \in Under(f[path])
                 PROVE  t \in HostTags(members \ Lost) \cup WanTags(site)
      OBVIOUS
    <3>1. t \in HostTags(Legs(path) \cap members) \/ t = <<"wan", path>>
      BY <1>3
    <3>2. <<"wan", path>> \in WanTags(site)
      BY <2>1
    <3> QED BY <2>5, <3>1, <3>2
  <2> HIDE DEF pathed, loose
  <2> QED BY <2>3, <2>4, <2>5, <2>6
<1>9. PICK C : C = {f[path] : path \in paths}
  OBVIOUS
<1>10. PICK D : D = HostNodes(loose)
  OBVIOUS
<1>11. Grove(C \cup D) /\ AllUnder(C \cup D) = AllUnder(C) \cup AllUnder(D)
  BY <1>5, <1>6, <1>7, <1>9, <1>10, BothGroves
<1>12. AllUnder(C) = pathed /\ AllUnder(D) = HostTags(loose) /\ WanChildren(site, members) = C \cup D
  BY <1>2, <1>5, <1>6, <1>9, <1>10
<1> HIDE DEF pathed, loose
<1> QED BY <1>8, <1>11, <1>12

LEMMA NewId ==
  ASSUME EstateIs, NEW C, Grove(C), NEW id, id[1] # "host", id \notin AllUnder(C), NEW node, node = Group(id, C)
  PROVE  CountsAll(node) /\ Under(node) = AllUnder(C) \cup {id}
<1>1. \A h \in HostIds : id # <<"host", h>>
  <2> SUFFICES ASSUME NEW h \in HostIds, id = <<"host", h>> PROVE FALSE
    OBVIOUS
  <2>1. id[1] = "host"
    OBVIOUS
  <2> QED BY <2>1
<1>2. CountsAll(Group(id, C)) /\ Under(Group(id, C)) = AllUnder(C) \cup {id}
  BY <1>1, GroupCovers
<1> QED BY <1>2

\* A site's devices, those of a class, and what is under their nodes.
SiteMembers(site) == HostsAre({k \in HostKinds \ Business : k.site = site})
ClassMembers(site, class) == HostsAre({k \in HostKinds \ Business : k.site = site /\ k.class = class})
SiteClasses(site) == {estate.hosts[h].class : h \in SiteMembers(site)}
ClassTags(site, class) ==
  (HostTags(ClassMembers(site, class) \ Lost) \cup (IF class = "wan-link" THEN WanTags(site) ELSE {}))
    \cup {<<"class", site, class>>}
SiteTags(site) == {<<"site", site>>} \cup UNION {ClassTags(site, class) : class \in SiteClasses(site)}

LEMMA MembersAre ==
  ASSUME EstateIs
  PROVE  /\ \A site, class : /\ ClassMembers(site, class) \in SUBSET HostIds
                             /\ \A h \in ClassMembers(site, class) :
                                  /\ estate.hosts[h].site = site /\ estate.hosts[h].class = class
                                  /\ estate.hosts[h] \notin Business
         /\ \A site : /\ SiteMembers(site) \in SUBSET HostIds
                      /\ \A h \in SiteMembers(site) :
                           /\ estate.hosts[h].site = site /\ estate.hosts[h] \notin Business
                           /\ estate.hosts[h].class \in SiteClasses(site)
                           /\ h \in ClassMembers(site, estate.hosts[h].class)
         /\ \A h \in HostIds : estate.hosts[h] \notin Business => h \in SiteMembers(estate.hosts[h].site)
         /\ \A site : IsFiniteSet(SiteClasses(site))
<1>1. \A h \in HostIds : estate.hosts[h] \in HostKinds
  BY DEF EstateIs
<1>2. \A site, class : ClassMembers(site, class) = {h \in HostIds : /\ estate.hosts[h] \notin Business
                                                                    /\ estate.hosts[h].site = site
                                                                    /\ estate.hosts[h].class = class}
  BY <1>1 DEF ClassMembers, HostsAre
<1>3. \A site : SiteMembers(site) = {h \in HostIds : estate.hosts[h] \notin Business /\ estate.hosts[h].site = site}
  BY <1>1 DEF SiteMembers, HostsAre
<1>4. ASSUME NEW site PROVE IsFiniteSet(SiteClasses(site))
  <2> DEFINE f == [h \in SiteMembers(site) |-> estate.hosts[h].class]
  <2>1. SiteMembers(site) \subseteq HostIds
    BY <1>3
  <2>2. IsFiniteSet(SiteMembers(site))
    BY <2>1, TreeAssumption, FS_Subset
  <2>3. IsFiniteSet({f[h] : h \in SiteMembers(site)})
    BY <2>2, FiniteImage
  <2>4. {f[h] : h \in SiteMembers(site)} = SiteClasses(site)
    BY DEF SiteClasses
  <2> HIDE DEF f
  <2> QED BY <2>3, <2>4
<1>5. \A site : \A h \in SiteMembers(site) : estate.hosts[h].class \in SiteClasses(site)
  BY DEF SiteClasses
<1> QED BY <1>2, <1>3, <1>4, <1>5

\* A leg is a WAN link of a site.
LEMMA LostAre ==
  ASSUME EstateIs, NEW h \in Lost
  PROVE  /\ h \in HostIds /\ estate.hosts[h].site # NoSite
         /\ estate.hosts[h].class = "wan-link" /\ estate.hosts[h] \notin Business
<1>1. h \in HostIds /\ estate.hosts[h].site # NoSite /\ estate.hosts[h].path # NoPath
  BY DEF Lost
<1>2. estate.hosts[h] \in HostKinds
  BY <1>1 DEF EstateIs
<1>3. estate.hosts[h].class = "wan-link"
  BY <1>1, <1>2, TreeAssumption DEF NoPath
<1> QED BY <1>1, <1>3 DEF Business

LEMMA ClassCovers ==
  ASSUME EstateIs, NEW site, site # NoSite, NEW class
  PROVE  CountsAll(ClassNode(site, class)) /\ Under(ClassNode(site, class)) = ClassTags(site, class)
<1> DEFINE members == ClassMembers(site, class)
           wans == IF class = "wan-link" THEN WanTags(site) ELSE {}
<1>1. PICK C : C = IF class = "wan-link" THEN WanChildren(site, members) ELSE HostNodes(members)
  OBVIOUS
<1>2. PICK id : id = <<"class", site, class>>
  OBVIOUS
<1>3. PICK node : node = ClassNode(site, class)
  OBVIOUS
<1>4. node = Group(id, C)
  BY <1>1, <1>2, <1>3 DEF ClassNode, ClassMembers
<1>5. members \in SUBSET HostIds /\ \A h \in members : estate.hosts[h].site = site
  BY MembersAre
<1>6. Grove(C) /\ AllUnder(C) = HostTags(members \ Lost) \cup wans
  <2>0. class # "wan-link" => members \ Lost = members
    BY MembersAre, LostAre
  <2> HIDE DEF members
  <2>1. CASE class = "wan-link"
    BY <1>1, <1>5, <2>1, WanGrove
  <2>2. CASE class # "wan-link"
    <3>1. Grove(HostNodes(members)) /\ AllUnder(HostNodes(members)) = HostTags(members)
      BY <1>5, HostGrove
    <3> QED BY <1>1, <2>0, <2>2, <3>1
  <2> QED BY <2>1, <2>2
<1>7. id[1] = "class"
  BY <1>2
<1>8. id \notin AllUnder(C)
  <2>1. id \notin HostTags(members \ Lost)
    BY <1>7, TagsApart
  <2>2. id \notin WanTags(site)
    BY <1>7, TagsApart
  <2> QED BY <1>6, <2>1, <2>2
<1>9. id[1] # "host"
  BY <1>7
<1> HIDE DEF members, wans
<1>10. CountsAll(node) /\ Under(node) = AllUnder(C) \cup {id}
  BY <1>4, <1>6, <1>8, <1>9, NewId
<1> QED BY <1>2, <1>3, <1>6, <1>10 DEF ClassTags, members, wans

\* What tells the tags of a class and of a site.
TagsClass(t, site, class) ==
  \/ t[1] = "host" /\ t[2] \in ClassMembers(site, class) \ Lost /\ t = <<"host", t[2]>>
  \/ t[1] = "wan" /\ t[2] \in PathsAt(site) /\ class = "wan-link"
  \/ t[1] = "class" /\ t[2] = site /\ t[3] = class

LEMMA ClassTagsAre ==
  ASSUME EstateIs, NEW site, NEW class, NEW t \in ClassTags(site, class)
  PROVE  TagsClass(t, site, class)
<1>1. CASE t \in HostTags(ClassMembers(site, class) \ Lost)
  <2>1. PICK h \in ClassMembers(site, class) \ Lost : t = <<"host", h>>
    BY <1>1 DEF HostTags
  <2> QED BY <2>1 DEF TagsClass
<1>2. CASE class = "wan-link" /\ t \in WanTags(site)
  <2>1. t[1] = "wan" /\ t[2] \in PathsAt(site)
    BY <1>2, TagsApart
  <2> QED BY <1>2, <2>1 DEF TagsClass
<1>3. CASE t = <<"class", site, class>>
  BY <1>3 DEF TagsClass
<1> QED BY <1>1, <1>2, <1>3 DEF ClassTags

LEMMA SiteTagsAre ==
  ASSUME EstateIs, NEW site, NEW t \in SiteTags(site)
  PROVE  \/ t[1] = "host" /\ t[2] \in SiteMembers(site) \ Lost /\ t = <<"host", t[2]>>
         \/ t[1] = "wan" /\ t[2] \in PathsAt(site)
         \/ t[1] \in {"class", "site"} /\ t[2] = site
<1>1. CASE t = <<"site", site>>
  BY <1>1
<1>2. CASE \E class \in SiteClasses(site) : t \in ClassTags(site, class)
  <2>1. PICK class \in SiteClasses(site) : t \in ClassTags(site, class)
    BY <1>2
  <2>2. ClassMembers(site, class) \subseteq SiteMembers(site)
    BY DEF ClassMembers, SiteMembers, HostsAre
  <2>3. TagsClass(t, site, class)
    BY <2>1, ClassTagsAre
  <2> QED BY <2>2, <2>3 DEF TagsClass
<1>3. t = <<"site", site>> \/ \E class \in SiteClasses(site) : t \in ClassTags(site, class)
  BY DEF SiteTags
<1> QED BY <1>1, <1>2, <1>3

LEMMA SiteCovers ==
  ASSUME EstateIs, NEW site, site # NoSite
  PROVE  /\ CountsAll(SiteNode(site)) /\ Under(SiteNode(site)) = SiteTags(site)
         /\ HostTags(SiteMembers(site) \ Lost) \subseteq SiteTags(site)
<1> DEFINE classes == SiteClasses(site)
           f == [class \in classes |-> ClassNode(site, class)]
<1>1. IsFiniteSet(classes)
  BY MembersAre
<1>2. \A class \in classes : CountsAll(f[class]) /\ Under(f[class]) = ClassTags(site, class)
  BY ClassCovers
<1>3. PICK node : node = SiteNode(site)
  OBVIOUS
<1>4. PICK id : id = <<"site", site>>
  OBVIOUS
<1>5. PICK C : C = {f[class] : class \in classes}
  OBVIOUS
<1>6. node = Group(id, C)
  BY <1>3, <1>4, <1>5 DEF SiteNode, SiteClasses, SiteMembers
<1> HIDE DEF f, classes
<1>7. ASSUME NEW a \in classes, NEW b \in classes, a # b PROVE Under(f[a]) \cap Under(f[b]) = {}
  <2> SUFFICES ASSUME NEW t \in ClassTags(site, a), t \in ClassTags(site, b) PROVE FALSE
    BY <1>2
  <2>1. /\ \A h \in ClassMembers(site, a) : estate.hosts[h].class = a
        /\ \A h \in ClassMembers(site, b) : estate.hosts[h].class = b
    BY MembersAre
  <2>2. TagsClass(t, site, a) /\ TagsClass(t, site, b)
    BY ClassTagsAre
  <2>3. CASE t[1] = "host"
    BY <1>7, <2>1, <2>2, <2>3 DEF TagsClass
  <2>4. CASE t[1] = "wan"
    BY <1>7, <2>2, <2>4 DEF TagsClass
  <2>5. CASE t[1] = "class"
    BY <1>7, <2>2, <2>5 DEF TagsClass
  <2> QED BY <2>2, <2>3, <2>4, <2>5 DEF TagsClass
<1>8. Grove(C) /\ AllUnder(C) = UNION {ClassTags(site, class) : class \in classes}
  <2>1. \A class \in classes : CountsAll(f[class])
    BY <1>2
  <2>2. Grove({f[x] : x \in classes}) /\ AllUnder({f[x] : x \in classes}) = UNION {Under(f[x]) : x \in classes}
    <3>1. GrowApart(classes, f)
      BY <1>1, <1>7, <2>1 DEF GrowApart
    <3>2. GroveFrom(classes, f, {f[x] : x \in classes})
      BY <3>1, GroveOf
    <3> QED BY <3>2 DEF GroveFrom
  <2>3. UNION {Under(f[x]) : x \in classes} = UNION {ClassTags(site, class) : class \in classes}
    BY <1>2
  <2> QED BY <1>5, <2>2, <2>3
<1>9. id[1] = "site"
  BY <1>4
<1>10. id \notin AllUnder(C)
  <2> SUFFICES ASSUME NEW class \in classes, id \in ClassTags(site, class) PROVE FALSE
    BY <1>8
  <2>1. TagsClass(id, site, class)
    BY ClassTagsAre
  <2> QED BY <1>9, <2>1 DEF TagsClass
<1>11. id[1] # "host"
  BY <1>9
<1>12. CountsAll(node) /\ Under(node) = AllUnder(C) \cup {id}
  BY <1>6, <1>8, <1>10, <1>11, NewId
<1>13. HostTags(SiteMembers(site) \ Lost) \subseteq SiteTags(site)
  <2> SUFFICES ASSUME NEW h \in SiteMembers(site) \ Lost PROVE <<"host", h>> \in SiteTags(site)
    BY DEF HostTags
  <2>1. PICK class \in SiteClasses(site) : class = estate.hosts[h].class /\ h \in ClassMembers(site, class)
    BY MembersAre
  <2>2. <<"host", h>> \in HostTags(ClassMembers(site, class) \ Lost)
    BY <2>1 DEF HostTags
  <2>3. <<"host", h>> \in ClassTags(site, class)
    BY <2>2 DEF ClassTags
  <2> QED BY <2>3 DEF SiteTags
<1>14. SiteTags(site) = AllUnder(C) \cup {id}
  BY <1>4, <1>8 DEF SiteTags, classes
<1> QED BY <1>3, <1>12, <1>13, <1>14

\* The top of the tree: the business services, the sites, the devices of none.
WebTags == {<<"web", w>> : w \in estate.checks}

LEMMA BusinessIs ==
  ASSUME EstateIs
  PROVE  /\ CountsAll(BusinessNode)
         /\ Under(BusinessNode) = (WebTags \cup HostTags(HostsAre(Business))) \cup {<<"business">>}
<1> DEFINE f == [w \in estate.checks |-> Finished(<<"web", w>>, NoProblem, <<>>, {})]
           hosts == HostsAre(Business)
<1>1. PICK node : node = BusinessNode
  OBVIOUS
<1>2. PICK C : C = {f[w] : w \in estate.checks}
  OBVIOUS
<1>3. PICK D : D = HostNodes(hosts)
  OBVIOUS
<1>4. PICK id : id = <<"business">>
  OBVIOUS
<1>5. node = Group(id, C \cup D)
  BY <1>1, <1>2, <1>3, <1>4 DEF BusinessNode
<1>6. IsFiniteSet(estate.checks)
  BY DEF EstateIs
<1>7. ASSUME NEW w \in estate.checks PROVE CountsAll(f[w]) /\ Under(f[w]) = {<<"web", w>>}
  <2>1. PICK web : web = <<"web", w>>
    OBVIOUS
  <2>2. web[1] = "web"
    BY <2>1
  <2>3. f[w] = Group(web, {})
    BY <2>1 DEF Group
  <2>4. web \notin AllUnder({}) /\ web[1] # "host"
    BY <2>2, SmallGroves
  <2> HIDE DEF f
  <2>5. CountsAll(f[w]) /\ Under(f[w]) = AllUnder({}) \cup {web}
    BY <2>3, <2>4, SmallGroves, NewId
  <2> QED BY <2>1, <2>5, SmallGroves
<1> HIDE DEF f
<1>8. ASSUME NEW w \in estate.checks, NEW u \in estate.checks, w # u PROVE Under(f[w]) \cap Under(f[u]) = {}
  <2>1. <<"web", w>> # <<"web", u>>
    BY <1>8
  <2> QED BY <1>7, <2>1
<1>9. Grove(C) /\ AllUnder(C) = WebTags
  <2>1. \A w \in estate.checks : CountsAll(f[w])
    BY <1>7
  <2>2. Grove({f[x] : x \in estate.checks}) /\ AllUnder({f[x] : x \in estate.checks}) = UNION {Under(f[x]) : x \in estate.checks}
    <3>1. GrowApart(estate.checks, f)
      BY <1>6, <1>8, <2>1 DEF GrowApart
    <3>2. GroveFrom(estate.checks, f, {f[x] : x \in estate.checks})
      BY <3>1, GroveOf
    <3> QED BY <3>2 DEF GroveFrom
  <2>3. UNION {Under(f[x]) : x \in estate.checks} = WebTags
    BY <1>7 DEF WebTags
  <2> QED BY <1>2, <2>2, <2>3
<1>10. hosts \in SUBSET HostIds
  BY DEF HostsAre
<1>11. Grove(D) /\ AllUnder(D) = HostTags(hosts)
  BY <1>3, <1>10, HostGrove
<1> HIDE DEF hosts
<1>12. \A t \in WebTags : t[1] = "web"
  BY DEF WebTags
<1>13. \A t \in HostTags(hosts) : t[1] = "host"
  BY TagsApart
<1>14. AllUnder(C) \cap AllUnder(D) = {}
  BY <1>9, <1>11, <1>12, <1>13
<1>15. Grove(C \cup D) /\ AllUnder(C \cup D) = WebTags \cup HostTags(hosts)
  BY <1>9, <1>11, <1>14, BothGroves
<1>16. id[1] = "business"
  BY <1>4
<1>17. id \notin AllUnder(C \cup D) /\ id[1] # "host"
  BY <1>12, <1>13, <1>15, <1>16
<1>18. CountsAll(node) /\ Under(node) = AllUnder(C \cup D) \cup {id}
  BY <1>5, <1>15, <1>17, NewId
<1> QED BY <1>1, <1>4, <1>15, <1>18 DEF hosts

LEMMA UnassignedIs ==
  ASSUME EstateIs, NEW node, node = Group(<<"unassigned">>, HostNodes(Unassigned))
  PROVE  CountsAll(node) /\ Under(node) = HostTags(Unassigned) \cup {<<"unassigned">>}
<1>1. PICK D : D = HostNodes(Unassigned)
  OBVIOUS
<1>2. PICK id : id = <<"unassigned">>
  OBVIOUS
<1>3. Unassigned \in SUBSET HostIds
  BY DEF Unassigned, HostsAre
<1>4. Grove(D) /\ AllUnder(D) = HostTags(Unassigned)
  BY <1>1, <1>3, HostGrove
<1>5. id[1] = "unassigned"
  BY <1>2
<1>6. id \notin AllUnder(D) /\ id[1] # "host"
  BY <1>4, <1>5, TagsApart
<1>7. node = Group(id, D)
  BY <1>1, <1>2
<1>8. CountsAll(node) /\ Under(node) = AllUnder(D) \cup {id}
  BY <1>4, <1>6, <1>7, NewId
<1> QED BY <1>2, <1>4, <1>8

\* buildDerivedTree
LEMMA EstateCovers ==
  ASSUME EstateIs
  PROVE  /\ CountsAll(EstateTree)
         /\ HostTags(HostIds \ Lost) \cup WebTags \subseteq EstateTree.below
         /\ HostsIn(Under(EstateTree)) = HostIds \ Lost
<1> DEFINE sites == {estate.hosts[h].site : h \in HostIds \ HostsAre(Business)} \ {NoSite}
           f == [site \in sites |-> SiteNode(site)]
           others == IF Unassigned # {} THEN {Group(<<"unassigned">>, HostNodes(Unassigned))} ELSE {}
           business == IF estate.checks # {} \/ HostsAre(Business) # {} THEN {BusinessNode} ELSE {}
<1>1. PICK node : node = EstateTree
  OBVIOUS
<1>2. PICK C : C = {f[site] : site \in sites}
  OBVIOUS
<1>3. PICK D : D = others
  OBVIOUS
<1>4. PICK E : E = business
  OBVIOUS
<1>5. PICK id : id = <<"estate">>
  OBVIOUS
<1>6. node = Group(id, (C \cup D) \cup E)
  BY <1>1, <1>2, <1>3, <1>4, <1>5 DEF EstateTree
<1>7. /\ \A h \in HostIds : estate.hosts[h] \in HostKinds
      /\ HostsAre(Business) = {h \in HostIds : estate.hosts[h] \in Business}
      /\ Unassigned = {h \in HostIds : estate.hosts[h] \notin Business /\ estate.hosts[h].site = NoSite}
  <2>1. \A h \in HostIds : estate.hosts[h] \in HostKinds
    BY DEF EstateIs
  <2>2. HostsAre(Business) = {h \in HostIds : estate.hosts[h] \in Business}
    BY DEF HostsAre
  <2>3. Unassigned = {h \in HostIds : estate.hosts[h] \notin Business /\ estate.hosts[h].site = NoSite}
    BY <2>1 DEF Unassigned, HostsAre
  <2> QED BY <2>1, <2>2, <2>3
<1>8. IsFiniteSet(sites)
  <2> DEFINE g == [h \in HostIds |-> estate.hosts[h].site]
  <2>1. IsFiniteSet({g[h] : h \in HostIds})
    BY TreeAssumption, FiniteImage
  <2>2. sites \subseteq {g[h] : h \in HostIds}
    OBVIOUS
  <2> HIDE DEF sites, g
  <2> QED BY <2>1, <2>2, FS_Subset
<1>9. \A h \in HostIds : \/ h \in HostsAre(Business)
                         \/ h \in Unassigned
                         \/ estate.hosts[h].site \in sites /\ h \in SiteMembers(estate.hosts[h].site)
  BY <1>7, MembersAre
<1>10. NoSite \notin sites
  OBVIOUS
<1>11. \A site \in sites : /\ CountsAll(f[site]) /\ Under(f[site]) = SiteTags(site)
                           /\ HostTags(SiteMembers(site) \ Lost) \subseteq SiteTags(site)
  BY <1>10, SiteCovers
<1> HIDE DEF f, sites
<1>12. ASSUME NEW a \in sites, NEW b \in sites, a # b PROVE Under(f[a]) \cap Under(f[b]) = {}
  <2> SUFFICES ASSUME NEW t \in SiteTags(a), t \in SiteTags(b) PROVE FALSE
    BY <1>11
  <2>1. /\ \A h \in SiteMembers(a) : estate.hosts[h].site = a
        /\ \A h \in SiteMembers(b) : estate.hosts[h].site = b
    BY MembersAre
  <2>2. \A path : path \in PathsAt(a) => path \notin PathsAt(b)
    <3> SUFFICES ASSUME NEW path \in PathsAt(a), path \in PathsAt(b) PROVE FALSE
      OBVIOUS
    <3>1. estate.hosts[FirstLeg(path)].site = a /\ estate.hosts[FirstLeg(path)].site = b
      BY PathsAre
    <3> QED BY <1>12, <3>1
  <2>3. \/ t[1] = "host" /\ t[2] \in SiteMembers(a)
        \/ t[1] = "wan" /\ t[2] \in PathsAt(a)
        \/ t[1] \in {"class", "site"} /\ t[2] = a
    BY SiteTagsAre
  <2>4. \/ t[1] = "host" /\ t[2] \in SiteMembers(b)
        \/ t[1] = "wan" /\ t[2] \in PathsAt(b)
        \/ t[1] \in {"class", "site"} /\ t[2] = b
    BY SiteTagsAre
  <2> QED BY <1>12, <2>1, <2>2, <2>3, <2>4
<1>13. Grove(C) /\ AllUnder(C) = UNION {SiteTags(site) : site \in sites}
  <2>1. \A site \in sites : CountsAll(f[site])
    BY <1>11
  <2>2. Grove({f[x] : x \in sites}) /\ AllUnder({f[x] : x \in sites}) = UNION {Under(f[x]) : x \in sites}
    <3>1. GrowApart(sites, f)
      BY <1>8, <1>12, <2>1 DEF GrowApart
    <3>2. GroveFrom(sites, f, {f[x] : x \in sites})
      BY <3>1, GroveOf
    <3> QED BY <3>2 DEF GroveFrom
  <2>3. UNION {Under(f[x]) : x \in sites} = UNION {SiteTags(site) : site \in sites}
    BY <1>11
  <2> QED BY <1>2, <2>2, <2>3
<1>14. /\ Grove(D) /\ HostTags(Unassigned) \subseteq AllUnder(D)
       /\ \A t \in AllUnder(D) : t[1] = "unassigned" \/ (t[1] = "host" /\ t[2] \in Unassigned)
  <2>1. CASE Unassigned = {}
    <3>1. D = {} /\ HostTags(Unassigned) = {}
      BY <1>3, <2>1 DEF HostTags
    <3> QED BY <3>1, SmallGroves
  <2>2. CASE Unassigned # {}
    <3>1. PICK c : c = Group(<<"unassigned">>, HostNodes(Unassigned))
      OBVIOUS
    <3>2. D = {c}
      BY <1>3, <2>2, <3>1
    <3>3. CountsAll(c) /\ Under(c) = HostTags(Unassigned) \cup {<<"unassigned">>}
      BY <3>1, UnassignedIs
    <3>4. Grove(D) /\ AllUnder(D) = Under(c)
      BY <3>2, <3>3, SmallGroves
    <3>5. \A t : t = <<"unassigned">> => t[1] = "unassigned"
      OBVIOUS
    <3> QED BY <3>3, <3>4, <3>5, TagsApart
  <2> QED BY <2>1, <2>2
<1>15. /\ Grove(E) /\ HostTags(HostsAre(Business)) \subseteq AllUnder(E) /\ WebTags \subseteq AllUnder(E)
       /\ \A t \in AllUnder(E) : t[1] \in {"business", "web"} \/ (t[1] = "host" /\ t[2] \in HostsAre(Business))
  <2>1. CASE estate.checks = {} /\ HostsAre(Business) = {}
    <3>1. E = {} /\ HostTags(HostsAre(Business)) = {} /\ WebTags = {}
      BY <1>4, <2>1 DEF HostTags, WebTags
    <3> QED BY <3>1, SmallGroves
  <2>2. CASE ~(estate.checks = {} /\ HostsAre(Business) = {})
    <3>1. PICK c : c = BusinessNode
      OBVIOUS
    <3>2. E = {c}
      BY <1>4, <2>2, <3>1
    <3>3. CountsAll(c) /\ Under(c) = (WebTags \cup HostTags(HostsAre(Business))) \cup {<<"business">>}
      BY <3>1, BusinessIs
    <3>4. Grove(E) /\ AllUnder(E) = Under(c)
      BY <3>2, <3>3, SmallGroves
    <3>5. \A t : t = <<"business">> => t[1] = "business"
      OBVIOUS
    <3>6. \A t \in WebTags : t[1] = "web"
      BY DEF WebTags
    <3> QED BY <3>3, <3>4, <3>5, <3>6, TagsApart
  <2> QED BY <2>1, <2>2
<1> HIDE DEF others, business
<1>16. \A t \in AllUnder(C) : \/ t[1] = "host" /\ t[2] \in HostIds \ Lost /\ estate.hosts[t[2]] \notin Business
                                                /\ estate.hosts[t[2]].site # NoSite
                              \/ t[1] \in {"wan", "class", "site"}
  <2> SUFFICES ASSUME NEW site \in sites, NEW t \in SiteTags(site)
               PROVE  \/ t[1] = "host" /\ t[2] \in HostIds \ Lost /\ estate.hosts[t[2]] \notin Business
                                        /\ estate.hosts[t[2]].site # NoSite
                      \/ t[1] \in {"wan", "class", "site"}
    BY <1>13
  <2>1. \A h \in SiteMembers(site) : h \in HostIds /\ estate.hosts[h].site = site /\ estate.hosts[h] \notin Business
    BY MembersAre
  <2>2. site # NoSite
    BY <1>10
  <2>3. \/ t[1] = "host" /\ t[2] \in SiteMembers(site) \ Lost
        \/ t[1] = "wan"
        \/ t[1] \in {"class", "site"}
    BY SiteTagsAre
  <2> QED BY <2>1, <2>2, <2>3
<1>17. /\ AllUnder(C) \cap AllUnder(D) = {}
       /\ AllUnder(C) \cap AllUnder(E) = {}
       /\ AllUnder(D) \cap AllUnder(E) = {}
  <2>1. AllUnder(C) \cap AllUnder(D) = {}
    BY <1>7, <1>14, <1>16
  <2>2. AllUnder(C) \cap AllUnder(E) = {}
    BY <1>7, <1>15, <1>16
  <2>3. AllUnder(D) \cap AllUnder(E) = {}
    BY <1>7, <1>14, <1>15
  <2> QED BY <2>1, <2>2, <2>3
<1>18. Grove(C \cup D) /\ AllUnder(C \cup D) = AllUnder(C) \cup AllUnder(D)
  BY <1>13, <1>14, <1>17, BothGroves
<1>19. PICK F : F = (C \cup D) \cup E
  OBVIOUS
<1>20. Grove(F) /\ AllUnder(F) = (AllUnder(C) \cup AllUnder(D)) \cup AllUnder(E)
  <2>1. PICK B : B = C \cup D
    OBVIOUS
  <2>2. AllUnder(B) \cap AllUnder(E) = {}
    BY <1>17, <1>18, <2>1
  <2>3. Grove(B \cup E) /\ AllUnder(B \cup E) = AllUnder(B) \cup AllUnder(E)
    BY <1>15, <1>18, <2>1, <2>2, BothGroves
  <2> QED BY <1>18, <1>19, <2>1, <2>3
<1>21. id[1] = "estate"
  BY <1>5
<1>22. id \notin AllUnder(F)
  BY <1>14, <1>15, <1>16, <1>20, <1>21
<1>23. CountsAll(node) /\ Under(node) = AllUnder(F) \cup {id} /\ node.below = AllUnder(F)
  <2>1. id[1] # "host"
    BY <1>21
  <2>2. CountsAll(node) /\ Under(node) = AllUnder(F) \cup {id}
    BY <1>6, <1>19, <1>20, <1>22, <2>1, NewId
  <2>3. node.id = id
    BY <1>6 DEF Group, Finished
  <2>4. node.below \cup {id} = AllUnder(F) \cup {id} /\ id \notin node.below
    BY <2>2, <2>3 DEF CountsAll, Under
  <2>5. node.below = AllUnder(F)
    BY <1>22, <2>4
  <2> QED BY <2>2, <2>5
<1>24. HostTags(HostIds \ Lost) \subseteq AllUnder(F)
  <2> SUFFICES ASSUME NEW h \in HostIds \ Lost PROVE <<"host", h>> \in AllUnder(F)
    BY DEF HostTags
  <2>1. \A H : h \in H => <<"host", h>> \in HostTags(H)
    BY DEF HostTags
  <2>2. CASE h \in HostsAre(Business)
    BY <1>15, <1>20, <2>1, <2>2
  <2>3. CASE h \in Unassigned
    BY <1>14, <1>20, <2>1, <2>3
  <2>4. CASE estate.hosts[h].site \in sites /\ h \in SiteMembers(estate.hosts[h].site)
    <3>1. <<"host", h>> \in SiteTags(estate.hosts[h].site)
      BY <1>11, <2>1, <2>4
    <3> QED BY <1>13, <1>20, <2>4, <3>1
  <2> QED BY <1>9, <2>2, <2>3, <2>4
<1>25. HostsIn(Under(node)) = HostIds \ Lost
  <2>1. \A h \in HostIds \ Lost : <<"host", h>> \in Under(node)
    <3> SUFFICES ASSUME NEW h \in HostIds \ Lost PROVE <<"host", h>> \in Under(node)
      OBVIOUS
    <3>1. PICK t : t = <<"host", h>>
      OBVIOUS
    <3>2. t \in HostTags(HostIds \ Lost)
      BY <3>1 DEF HostTags
    <3> QED BY <1>23, <1>24, <3>1, <3>2
  <2>2. ASSUME NEW h \in HostIds, <<"host", h>> \in Under(node) PROVE h \notin Lost
    <3>1. PICK t : t = <<"host", h>>
      OBVIOUS
    <3>2. t[1] = "host" /\ t[2] = h
      BY <3>1
    <3>3. t \in AllUnder(C) \/ t \in AllUnder(D) \/ t \in AllUnder(E)
      BY <1>20, <1>21, <1>23, <2>2, <3>1, <3>2
    <3>4. h \notin Lost \/ h \in Unassigned \/ h \in HostsAre(Business)
      BY <1>14, <1>15, <1>16, <3>2, <3>3
    <3> QED BY <1>7, <3>4, LostAre
  <2> QED BY <2>1, <2>2 DEF HostsIn
<1> QED BY <1>1, <1>15, <1>20, <1>23, <1>24, <1>25

-----------------------------------------------------------------------------
(* The whole estate.                                                       *)

\* The problems of some hosts, one list after another.
LEMMA AllAreOpen ==
  ASSUME EstateIs, NEW all,
         NEW H \in SUBSET HostIds,
         all = FlattenSeq([n \in 1..Cardinality(H) |-> estate.problems[SetToSeq(H)[n]]])
  PROVE  all \in Seq(Nat) /\ AsOpen(all, H)
<1> DEFINE N == Cardinality(H)
           at == SetToSeq(H)
           lists == [n \in 1..N |-> estate.problems[at[n]]]
           f == [n \in 1..N |-> {at[n]}]
<1>0. IsFiniteSet(H)
  BY TreeAssumption, FS_Subset
<1>1. /\ N \in Nat /\ \A n \in 1..N : at[n] \in H
      /\ \A m, n \in 1..N : at[m] = at[n] => m = n
      /\ \A x \in H : \E n \in 1..N : at[n] = x
  BY <1>0, Listing
<1>2. all = FlattenSeq(lists)
  OBVIOUS
<1> HIDE DEF N, at
<1>3. lists \in Seq(Seq(Nat)) /\ Len(lists) = N
  <2>1. \A n \in 1..N : estate.problems[at[n]] \in Seq(Nat)
    BY <1>1 DEF EstateIs
  <2> QED BY <1>1, <2>1
<1>4. f \in [1..N -> SUBSET HostIds] /\ \A m, n \in 1..N : m # n => f[m] \cap f[n] = {}
  BY <1>1
<1>5. UpToThe(f, N) = H
  BY <1>1 DEF UpToThe
<1>6. ASSUME NEW n \in 1..N PROVE AsOpen(lists[n], f[n])
  <2>1. PICK h \in HostIds : h = at[n]
    BY <1>1
  <2>2. lists[n] = estate.problems[h] /\ f[n] = {h}
    BY <2>1
  <2>3. \A v \in Nat : Num(estate.problems[h], v) = Cardinality(OpenOn({h}, v))
    BY OpenOfIs DEF OpenOn
  <2> HIDE DEF lists, f
  <2> QED BY <2>2, <2>3 DEF AsOpen
<1> HIDE DEF lists, f
<1>7. FlattenSeq(lists) \in Seq(Nat) /\ AsOpen(FlattenSeq(lists), UpToThe(f, Len(lists)))
  BY <1>3, <1>4, <1>6, ListsAddUp
<1> QED BY <1>2, <1>3, <1>5, <1>7

LEMMA TreeIsWhole ==
  ASSUME EstateIs, tree # <<>>, tree[1] = EstateTree
  PROVE  WholeEstateOnce
<1>1. PICK root : root = tree[1]
  OBVIOUS
<1>0. PICK there \in SUBSET HostIds : there = HostIds \ Lost
  OBVIOUS
<1>2. PICK all : all = FlattenSeq([n \in 1..Cardinality(there) |-> estate.problems[SetToSeq(there)[n]]])
  OBVIOUS
<1>3. all \in Seq(Nat) /\ AsOpen(all, there)
  BY <1>2, AllAreOpen
<1>4. CountsAll(root) /\ HostTags(there) \cup WebTags \subseteq root.below /\ HostsIn(Under(root)) = there
  BY <1>0, <1>1, EstateCovers
<1>5. /\ root.id \notin root.below /\ IsFiniteSet(Under(root))
      /\ root.nodes = Cardinality(Under(root))
      /\ root.degraded = Cardinality(Ill(there))
      /\ root.worst \in Nat \cup {NoProblem}
      /\ \A v \in Nat : root.worst >= v <=> OpenOn(there, v) # {}
      /\ root.problems \in Seq(Nat) /\ Falling(root.problems)
      /\ \A v \in Nat : Num(root.problems, v) = Lesser(Shown, Cardinality(OpenOn(there, v)))
  BY <1>4 DEF CountsAll
<1>6. /\ \A h \in HostIds : <<"host", h>> \in root.below <=> h \in there
      /\ {<<"web", w>> : w \in estate.checks} \subseteq root.below
  <2>1. \A h \in HostIds : <<"host", h>> \in root.below => h \in there
    BY <1>4 DEF HostsIn, Under
  <2>2. \A h \in there : <<"host", h>> \in root.below
    BY <1>4 DEF HostTags
  <2>3. {<<"web", w>> : w \in estate.checks} \subseteq root.below
    BY <1>4 DEF WebTags
  <2> QED BY <2>1, <2>2, <2>3
<1>7. root.nodes = Cardinality(root.below) + 1
  <2>1. Under(root) = root.below \cup {root.id}
    BY DEF Under
  <2>2. IsFiniteSet(root.below)
    <3>1. root.below \subseteq Under(root)
      BY <2>1
    <3> QED BY <1>5, <3>1, FS_Subset
  <2>3. Cardinality(root.below \cup {root.id}) = Cardinality(root.below) + 1
    BY <1>5, <2>2, FS_AddElement
  <2> QED BY <1>5, <2>1, <2>3
<1>8. Ill(there) = {h \in there : estate.problems[h] # <<>>}
  BY DEF Ill
<1>9. root.problems = WorstOf(all)
  <2>1. /\ WorstOf(all) \in Seq(Nat) /\ Falling(WorstOf(all))
        /\ \A v \in Nat : Num(WorstOf(all), v) = Lesser(Shown, Num(all, v))
    BY <1>3, WorstOfIs
  <2>2. \A v \in Nat : Num(root.problems, v) = Num(WorstOf(all), v)
    BY <1>3, <1>5, <2>1 DEF AsOpen
  <2>3. PICK shown \in Seq(Nat) : shown = root.problems
    BY <1>5
  <2>4. PICK best \in Seq(Nat) : best = WorstOf(all)
    BY <2>1
  <2>5. Falling(shown) /\ Falling(best) /\ \A v \in Nat : Num(shown, v) = Num(best, v)
    BY <1>5, <2>1, <2>2, <2>3, <2>4
  <2>6. shown = best
    BY <2>5, SameNum
  <2> QED BY <2>3, <2>4, <2>6
<1>10. ASSUME NEW v \in Nat PROVE root.worst >= v <=> \E n \in 1..Len(all) : all[n] >= v
  <2>1. Num(all, v) \in Nat /\ (Num(all, v) # 0 <=> \E n \in 1..Len(all) : all[n] >= v)
    BY <1>3, NumIs
  <2>3. Cardinality(OpenOn(there, v)) \in Nat /\ (Cardinality(OpenOn(there, v)) = 0 <=> OpenOn(there, v) = {})
    BY OpenOnIs
  <2>4. Lesser(Shown, Num(all, v)) = Lesser(Shown, Cardinality(OpenOn(there, v)))
    BY <1>3 DEF AsOpen
  <2>5. Num(all, v) # 0 <=> Cardinality(OpenOn(there, v)) # 0
    BY <2>1, <2>3, <2>4, TreeAssumption DEF Lesser
  <2> QED BY <1>5, <2>1, <2>3, <2>5
<1>11. root.worst = IF all = <<>> THEN NoProblem ELSE Max({all[n] : n \in 1..Len(all)})
  <2>1. NoProblem = -1
    BY DEF NoProblem
  <2>2. CASE all = <<>>
    <3>1. ~(root.worst >= 0)
      <4>1. 0 \in Nat /\ ~\E n \in 1..Len(all) : all[n] >= 0
        BY <2>2
      <4> QED BY <1>10, <4>1
    <3>2. root.worst \in Nat => root.worst >= 0
      OBVIOUS
    <3> QED BY <1>5, <2>2, <3>1, <3>2
  <2>3. CASE all # <<>>
    <3> DEFINE S == {all[n] : n \in 1..Len(all)}
               g == [n \in 1..Len(all) |-> all[n]]
    <3>1. Len(all) \in Nat /\ 1 \in 1..Len(all) /\ \A n \in 1..Len(all) : all[n] \in Nat
      BY <1>3, <2>3
    <3>2. IsFiniteSet(S) /\ S # {} /\ S \in SUBSET Nat
      <4>1. \A k \in Nat : IsFiniteSet(1..k)
        BY FS_Interval
      <4>2. IsFiniteSet(S)
        BY <3>1, <4>1, FiniteImage
      <4> QED BY <3>1, <4>2
    <3>3. \A v \in Nat : root.worst >= v <=> \E x \in S : x >= v
      BY <1>10
    <3> HIDE DEF S
    <3>4. S \in SUBSET (Nat \cup {NoProblem})
      BY <3>2
    <3>5. Max(S) \in S /\ \A x \in S : Max(S) >= x
      BY <3>2, <3>4, MaxIs
    <3>6. PICK m \in Nat : m = Max(S) /\ m \in S
      BY <3>2, <3>5
    <3>7. root.worst >= m
      <4>1. m >= m
        OBVIOUS
      <4> QED BY <3>3, <3>6, <4>1
    <3>8. root.worst \in Nat
      BY <1>5, <2>1, <3>7
    <3>9. m >= root.worst
      <4>1. PICK w \in Nat : w = root.worst
        BY <3>8
      <4>2. PICK x \in S : x >= w
        <5>1. w >= w
          OBVIOUS
        <5> QED BY <3>3, <4>1, <5>1
      <4>3. m >= x /\ x \in Nat
        BY <3>2, <3>5, <3>6
      <4> QED BY <4>1, <4>2, <4>3
    <3>10. root.worst = m
      BY <3>7, <3>8, <3>9
    <3> QED BY <2>3, <3>6, <3>10 DEF S
  <2> QED BY <2>2, <2>3
<1>13. root.degraded = Cardinality({h \in there : estate.problems[h] # <<>>})
  BY <1>5, <1>8
<1> QED BY <1>0, <1>1, <1>2, <1>6, <1>7, <1>9, <1>11, <1>13, Zenon DEF WholeEstateOnce

TreeInv == EstateIs /\ (tree # <<>> => tree[1] = EstateTree)

LEMMA TreeInitial ==
  ASSUME TreeInit
  PROVE  TreeInv
<1>1. /\ estate.hosts \in [HostIds -> HostKinds]
      /\ estate.problems \in [HostIds -> SeverityLists]
      /\ estate.checks \in Checks
  BY DEF TreeInit
<1>2. estate.problems \in [HostIds -> Seq(Nat)] /\ IsFiniteSet(estate.checks)
  BY <1>1, TreeAssumption
<1>3. EstateIs
  BY <1>1, <1>2 DEF TreeInit, EstateIs
<1> QED BY <1>3 DEF TreeInv, TreeInit

\* The tree is of the estate as it is.
LEMMA TreeOfTheSame ==
  ASSUME estate' = estate
  PROVE  EstateTree' = EstateTree
  BY DEF EstateTree, SiteNode, ClassNode, BusinessNode, WanChildren, Unassigned, HostNodes, HostNode, Group,
         Legs, FirstLeg, PathsAt, HostsAre

LEMMA TreeStep ==
  ASSUME TreeInv, [BuildTree]_treeVars
  PROVE  TreeInv'
<1>1. estate' = estate
  BY DEF BuildTree, treeVars
<1>2. EstateIs'
  BY <1>1 DEF TreeInv, EstateIs
<1>3. EstateTree' = EstateTree
  BY <1>1, TreeOfTheSame
<1>4. CASE BuildTree
  BY <1>2, <1>3, <1>4 DEF BuildTree, TreeInv
<1>5. CASE UNCHANGED treeVars
  BY <1>2, <1>3, <1>5 DEF treeVars, TreeInv
<1> QED BY <1>4, <1>5

\* buildDerivedTree leaves out no web check and no host but the legs that are
\* lost, whatever paths and sites the names give, and counts none twice, and
\* what the root shows of the problems is what it would show had it seen
\* all of these, though every level passes on no more than it shows.
THEOREM EstateStaysWhole == TreeSpec => []WholeEstateOnce
<1>1. TreeInv => WholeEstateOnce
  <2>1. CASE tree = <<>>
    BY <2>1 DEF WholeEstateOnce
  <2>2. CASE tree # <<>>
    BY <2>2, TreeIsWhole DEF TreeInv
  <2> QED BY <2>1, <2>2
<1> QED BY <1>1, TreeInitial, TreeStep, PTL DEF TreeSpec

-----------------------------------------------------------------------------
(***************************************************************************)
(* The daily budget is passed by no more than the calls under way cost,    *)
(* for any callers, calls, places and costs.  The argument: a call is let  *)
(* in below the limit, so what was used and what every call under way may  *)
(* still be charged for, together, never pass the limit by more than one   *)
(* charge for each call; a day that ends only takes used tokens away.      *)
(* That the charge goes to who asked needs the queue of the places to list *)
(* only those who wait, which SlotQueue_proofs shows.                      *)
(***************************************************************************)

Gates == INSTANCE SlotQueue_proofs WITH
  Request <- Call, Limit <- Places, Patient <- {}, TryOnly <- {},
  taken <- hostedActive, queue <- hostedQueue, state <- hostedState

\* The calls let in and not yet charged, one caller's and everyone's.
Owing(who) == {c \in Call : asker[c] = who}
AllOwing == {c \in Call : asker[c] # Nobody}

AiTypeOK ==
  /\ used \in [Caller -> Nat]
  /\ usedByAll \in Nat
  /\ asker \in [Call -> Caller \cup {Nobody}]

\* A call that waits for a place or has one was let in for somebody.
PlacesAreOwed == \A c \in Call : hostedState[c] # "idle" => asker[c] # Nobody

\* What was used and what is still to be charged.
WithinDebt ==
  /\ \A who \in Caller :
       used[who] + MaxCost * Cardinality(Owing(who)) <= PerUser - 1 + MaxCost * Cardinality(Call)
  /\ usedByAll + MaxCost * Cardinality(AllOwing) <= Total - 1 + MaxCost * Cardinality(Call)

CountsAgree == IsFiniteSet(Spent) /\ usedByAll = Cardinality(Spent)

AiInv ==
  /\ AiTypeOK /\ PlacesAreOwed /\ WithinDebt /\ CountsAgree
  /\ Gates!SlotInv

-----------------------------------------------------------------------------
(* Lemmas on numbers and sets.                                             *)

LEMMA Grows ==
  ASSUME NEW a \in Nat, NEW b \in Nat, a <= b
  PROVE  /\ MaxCost * a \in Nat /\ MaxCost * b \in Nat
         /\ MaxCost * a <= MaxCost * b
         /\ MaxCost * (a + 1) = MaxCost * a + MaxCost
BY AiAssumption, Z3

\* The next k tokens of a caller.
Tokens(who, n, k) == {who} \X ((n + 1)..(n + k))

LEMMA NextTokens ==
  ASSUME NEW who, NEW n \in Nat, NEW k \in Nat
  PROVE  IsFiniteSet(Tokens(who, n, k)) /\ Cardinality(Tokens(who, n, k)) = k
<1> DEFINE T == {who} \X ((n + 1)..(n + k))
           f == [i \in 1..k |-> <<who, n + i>>]
<1>1. f \in [1..k -> T]
  OBVIOUS
<1>2. \A i, j \in 1..k : f[i] = f[j] => i = j
  OBVIOUS
<1>3. \A x \in T : \E i \in 1..k : f[i] = x
  <2> SUFFICES ASSUME NEW m \in (n + 1)..(n + k) PROVE \E i \in 1..k : f[i] = <<who, m>>
    OBVIOUS
  <2>1. m - n \in 1..k /\ n + (m - n) = m
    OBVIOUS
  <2> QED BY <2>1
<1>4. f \in Bijection(1..k, T)
  <2>1. f \in Injection(1..k, T)
    BY <1>1, <1>2 DEF Injection, IsInjective
  <2>2. f \in Surjection(1..k, T)
    BY <1>1, <1>3 DEF Surjection
  <2> QED BY <2>1, <2>2 DEF Bijection
<1>5. IsFiniteSet(1..k) /\ Cardinality(1..k) = k
  BY FS_Interval
<1> QED BY <1>4, <1>5, FS_Bijection DEF ExistsBijection, Tokens

\* What some of the calls may be charged is no more than what all may be.
LEMMA SomeOwe ==
  ASSUME NEW S \in SUBSET Call, NEW c
  PROVE  /\ IsFiniteSet(S) /\ Cardinality(S) \in Nat /\ Cardinality(Call) \in Nat
         /\ MaxCost * Cardinality(S) \in Nat /\ MaxCost * Cardinality(Call) \in Nat
         /\ MaxCost * Cardinality(S) <= MaxCost * Cardinality(Call)
         /\ MaxCost * Cardinality(S \ {c}) \in Nat
         /\ MaxCost * Cardinality(S \ {c}) <= MaxCost * Cardinality(S)
         /\ c \in S => MaxCost * Cardinality(S) = MaxCost * Cardinality(S \ {c}) + MaxCost
<1>1. /\ IsFiniteSet(S) /\ Cardinality(S) \in Nat /\ Cardinality(Call) \in Nat
      /\ Cardinality(S) <= Cardinality(Call)
  BY AiAssumption, FS_Subset, FS_CardinalityType
<1>2. /\ Cardinality(S \ {c}) \in Nat
      /\ Cardinality(S \ {c}) <= Cardinality(S)
      /\ c \in S => Cardinality(S) = Cardinality(S \ {c}) + 1
  BY <1>1, FS_RemoveElement, FS_CardinalityType, FS_Subset
<1>3. /\ MaxCost * Cardinality(S) \in Nat /\ MaxCost * Cardinality(Call) \in Nat
      /\ MaxCost * Cardinality(S) <= MaxCost * Cardinality(Call)
  BY <1>1, Grows
<1>4. /\ MaxCost * Cardinality(S \ {c}) \in Nat
      /\ MaxCost * Cardinality(S \ {c}) <= MaxCost * Cardinality(S)
      /\ MaxCost * (Cardinality(S \ {c}) + 1) = MaxCost * Cardinality(S \ {c}) + MaxCost
  BY <1>1, <1>2, Grows
<1>5. c \in S => MaxCost * Cardinality(S) = MaxCost * (Cardinality(S \ {c}) + 1)
  BY <1>2
<1> QED BY <1>1, <1>3, <1>4, <1>5

-----------------------------------------------------------------------------
(* The places: SlotQueue's steps, and its invariant.                       *)

LEMMA GatesAssumed == Gates!IsFiniteSet(Call)
BY AiAssumption DEF IsFiniteSet, Gates!IsFiniteSet

LEMMA SameGates ==
  /\ Slot!PlacesInit => Gates!PlacesInit
  /\ \A c \in Call :
       Slot!Acquire(c) \/ Slot!Queue(c) \/ Slot!Resume(c) \/ Slot!Release(c) \/ Slot!LeaveQueue(c)
       => Gates!PlacesNext
<1>1. \A s, i : Slot!RemoveAt(s, i) = Gates!RemoveAt(s, i)
  BY DEF Slot!RemoveAt, Gates!RemoveAt
<1>2. ASSUME NEW c \in Call
      PROVE  /\ Slot!Acquire(c) => Gates!Acquire(c)
             /\ Slot!Queue(c) => Gates!Queue(c)
             /\ Slot!Resume(c) => Gates!Resume(c)
             /\ Slot!Release(c) => Gates!Release(c)
             /\ Slot!LeaveQueue(c) => Gates!LeaveQueue(c)
  BY <1>1 DEF Slot!Acquire, Slot!Queue, Slot!Resume, Slot!Release, Slot!LeaveQueue, Slot!Move,
              Gates!Acquire, Gates!Queue, Gates!Resume, Gates!Release, Gates!LeaveQueue, Gates!Move
<1> QED BY <1>2 DEF Slot!PlacesInit, Gates!PlacesInit, Gates!PlacesNext

LEMMA GatesInit == Slot!PlacesInit => Gates!SlotInv
BY GatesAssumed, SameGates, AiAssumption, Gates!SlotInvInit

LEMMA GatesStep ==
  ASSUME Gates!SlotInv, Gates!PlacesNext \/ UNCHANGED slotVars
  PROVE  Gates!SlotInv'
<1>1. [Gates!PlacesNext]_(Gates!placesVars)
  BY DEF Gates!placesVars, slotVars
<1> QED BY <1>1, GatesAssumed, AiAssumption, Gates!SlotInvStep

\* Who is handed a place was waiting for it.
LEMMA HeadWaits ==
  ASSUME Gates!SlotInv, hostedQueue # <<>>
  PROVE  Head(hostedQueue) \in Call /\ hostedState[Head(hostedQueue)] = "queued"
<1>1. hostedQueue \in Seq(Call)
  BY DEF Gates!SlotInv, Gates!PlacesTypeOK
<1>2. 1 \in 1..Len(hostedQueue) /\ Head(hostedQueue) = hostedQueue[1]
  BY <1>1
<1> QED BY <1>2 DEF Gates!SlotInv, Gates!QueueIsWaiters

-----------------------------------------------------------------------------
(* The budget.                                                             *)

\* today(): what is left of the counts still agrees, and is not more.
LEMMA TallyHolds ==
  ASSUME AiInv
  PROVE  /\ Tally \in [Caller -> Nat] /\ TallyOfAll \in Nat
         /\ \A who \in Caller : Tally[who] <= used[who]
         /\ TallyOfAll <= usedByAll
         /\ LET left == UNION {{who} \X (1..Tally[who]) : who \in Caller}
            IN  IsFiniteSet(left) /\ TallyOfAll = Cardinality(left)
<1> DEFINE left == UNION {{who} \X (1..Tally[who]) : who \in Caller}
<1>1. CASE day = Today
  BY <1>1 DEF Tally, TallyOfAll, AiInv, AiTypeOK, CountsAgree, Spent
<1>2. CASE day # Today
  <2>1. Tally = [u \in Caller |-> 0] /\ TallyOfAll = 0
    BY <1>2 DEF Tally, TallyOfAll
  <2>2. left = {}
    <3>1. \A who \in Caller : 1..Tally[who] = {}
      BY <2>1
    <3> QED BY <3>1
  <2> QED BY <2>1, <2>2, FS_EmptySet DEF AiInv, AiTypeOK
<1> QED BY <1>1, <1>2

LEMMA AiInvInit == AiInit => AiInv
<1> SUFFICES ASSUME AiInit PROVE AiInv
  OBVIOUS
<1> USE DEF AiInit
<1>1. AiTypeOK
  BY DEF AiTypeOK
<1>2. Gates!SlotInv
  BY GatesInit
<1>3. PlacesAreOwed
  BY DEF PlacesAreOwed, Slot!PlacesInit
<1>4. WithinDebt
  <2>1. ASSUME NEW u \in Caller
        PROVE  used[u] = 0 /\ MaxCost * Cardinality(Owing(u)) <= MaxCost * Cardinality(Call)
               /\ MaxCost * Cardinality(Owing(u)) \in Nat /\ MaxCost * Cardinality(Call) \in Nat
    BY SomeOwe DEF Owing
  <2>2. /\ MaxCost * Cardinality(AllOwing) <= MaxCost * Cardinality(Call)
        /\ MaxCost * Cardinality(AllOwing) \in Nat /\ MaxCost * Cardinality(Call) \in Nat
    BY SomeOwe DEF AllOwing
  <2> QED BY <2>1, <2>2, AiAssumption DEF WithinDebt
<1>5. CountsAgree
  <2>1. Spent = {}
    <3>1. \A who \in Caller : 1..used[who] = {}
      OBVIOUS
    <3> QED BY <3>1 DEF Spent
  <2> QED BY <2>1, FS_EmptySet DEF CountsAgree
<1> QED BY <1>1, <1>2, <1>3, <1>4, <1>5 DEF AiInv

\* A caller the budget refuses gets no call; one it lets in owes one charge more.
LEMMA AskKeeps ==
  ASSUME AiInv, NEW c \in Call, NEW who \in Caller, Ask(c, who)
  PROVE  AiInv'
<1>1. /\ asker[c] = Nobody /\ who # Nobody
      /\ used' = Tally /\ usedByAll' = TallyOfAll
      /\ asker' = IF Refused(who) THEN asker ELSE [asker EXCEPT ![c] = who]
      /\ UNCHANGED slotVars
  BY AiAssumption DEF Ask, Nobody
<1>2. AiTypeOK'
  BY <1>1, TallyHolds DEF AiInv, AiTypeOK
<1>3. PlacesAreOwed'
  BY <1>1 DEF AiInv, AiTypeOK, PlacesAreOwed, slotVars
<1>4. CountsAgree'
  BY <1>1, TallyHolds DEF CountsAgree, Spent
<1>5. Gates!SlotInv'
  BY <1>1, GatesStep DEF AiInv
<1>6. WithinDebt'
  <2>1. CASE Refused(who)
    <3>1. AllOwing' = AllOwing /\ \A u \in Caller : Owing(u)' = Owing(u)
      BY <1>1, <2>1 DEF AllOwing, Owing
    <3>2. ASSUME NEW u \in Caller
          PROVE  (used[u] + MaxCost * Cardinality(Owing(u)) <= PerUser - 1 + MaxCost * Cardinality(Call))'
      <4>1. Tally[u] \in Nat /\ used[u] \in Nat /\ Tally[u] <= used[u]
        BY TallyHolds DEF AiInv, AiTypeOK
      <4>2. MaxCost * Cardinality(Owing(u)) \in Nat /\ MaxCost * Cardinality(Call) \in Nat
        BY SomeOwe DEF Owing
      <4>3. used[u] + MaxCost * Cardinality(Owing(u)) <= PerUser - 1 + MaxCost * Cardinality(Call)
        BY DEF AiInv, WithinDebt
      <4> QED BY <1>1, <3>1, <4>1, <4>2, <4>3, AiAssumption
    <3>3. (usedByAll + MaxCost * Cardinality(AllOwing) <= Total - 1 + MaxCost * Cardinality(Call))'
      <4>1. TallyOfAll \in Nat /\ usedByAll \in Nat /\ TallyOfAll <= usedByAll
        BY TallyHolds DEF AiInv, AiTypeOK
      <4>2. MaxCost * Cardinality(AllOwing) \in Nat /\ MaxCost * Cardinality(Call) \in Nat
        BY SomeOwe DEF AllOwing
      <4>3. usedByAll + MaxCost * Cardinality(AllOwing) <= Total - 1 + MaxCost * Cardinality(Call)
        BY DEF AiInv, WithinDebt
      <4> QED BY <1>1, <3>1, <4>1, <4>2, <4>3, AiAssumption
    <3> QED BY <3>2, <3>3 DEF WithinDebt
  <2>2. CASE ~Refused(who)
    <3>1. asker' = [asker EXCEPT ![c] = who]
      BY <1>1, <2>2
    <3>2. ASSUME NEW u \in Caller
          PROVE  (used[u] + MaxCost * Cardinality(Owing(u)) <= PerUser - 1 + MaxCost * Cardinality(Call))'
      <4>1. Tally[u] \in Nat /\ used[u] \in Nat /\ Tally[u] <= used[u]
        BY TallyHolds DEF AiInv, AiTypeOK
      <4>2. CASE u = who
        <5>1. Tally[u] < PerUser
          BY <2>2, <4>1, <4>2, AiAssumption DEF Refused
        <5>2. Owing(u)' \in SUBSET Call
          BY DEF Owing
        <5>3. /\ MaxCost * Cardinality(Owing(u)') \in Nat /\ MaxCost * Cardinality(Call) \in Nat
              /\ MaxCost * Cardinality(Owing(u)') <= MaxCost * Cardinality(Call)
          BY <5>2, SomeOwe
        <5> QED BY <1>1, <4>1, <5>1, <5>3, AiAssumption
      <4>3. CASE u # who
        <5>1. Owing(u)' = Owing(u)
          BY <1>1, <3>1, <4>3, AiAssumption DEF Owing, AiInv, AiTypeOK, Nobody
        <5>2. MaxCost * Cardinality(Owing(u)) \in Nat /\ MaxCost * Cardinality(Call) \in Nat
          BY SomeOwe DEF Owing
        <5>3. used[u] + MaxCost * Cardinality(Owing(u)) <= PerUser - 1 + MaxCost * Cardinality(Call)
          BY DEF AiInv, WithinDebt
        <5> QED BY <1>1, <4>1, <5>1, <5>2, <5>3, AiAssumption
      <4> QED BY <4>2, <4>3
    <3>3. (usedByAll + MaxCost * Cardinality(AllOwing) <= Total - 1 + MaxCost * Cardinality(Call))'
      <4>1. TallyOfAll \in Nat /\ TallyOfAll < Total
        BY <2>2, TallyHolds, AiAssumption DEF Refused
      <4>2. AllOwing' \in SUBSET Call
        BY DEF AllOwing
      <4>3. /\ MaxCost * Cardinality(AllOwing') \in Nat /\ MaxCost * Cardinality(Call) \in Nat
            /\ MaxCost * Cardinality(AllOwing') <= MaxCost * Cardinality(Call)
        BY <4>2, SomeOwe
      <4> QED BY <1>1, <4>1, <4>3, AiAssumption
    <3> QED BY <3>2, <3>3 DEF WithinDebt
  <2> QED BY <2>1, <2>2
<1> QED BY <1>2, <1>3, <1>4, <1>5, <1>6 DEF AiInv

\* A call that is gone owes nothing.
LEMMA OneLess ==
  ASSUME AiInv, NEW c \in Call, asker' = [asker EXCEPT ![c] = Nobody], asker[c] # Nobody
  PROVE  /\ asker[c] \in Caller
         /\ AllOwing' = AllOwing \ {c} /\ c \in AllOwing
         /\ \A u \in Caller : Owing(u)' = Owing(u) \ {c}
         /\ c \in Owing(asker[c])
         /\ asker' \in [Call -> Caller \cup {Nobody}]
BY AiAssumption DEF AiInv, AiTypeOK, AllOwing, Owing, Nobody

\* The charge of a call: to the caller, to the total, and to the set of tokens.
LEMMA ChargeCounts ==
  ASSUME AiInv, NEW who \in Caller, NEW cost \in Nat, Charge(who, cost)
  PROVE  /\ used' \in [Caller -> Nat] /\ usedByAll' \in Nat
         /\ \A u \in Caller : used'[u] <= used[u] + (IF u = who THEN cost ELSE 0)
         /\ usedByAll' <= usedByAll + cost
         /\ CountsAgree'
<1>1. CASE cost = 0
  <2>1. used' = used /\ usedByAll' = usedByAll
    BY <1>1 DEF Charge
  <2> QED BY <1>1, <2>1 DEF AiInv, AiTypeOK, CountsAgree, Spent
<1>2. CASE cost # 0
  <2> DEFINE n == Tally[who]
             left == UNION {{u} \X (1..Tally[u]) : u \in Caller}
             more == Tokens(who, n, cost)
  <2>1. /\ used' = [Tally EXCEPT ![who] = n + cost]
        /\ usedByAll' = TallyOfAll + cost
    BY <1>2 DEF Charge
  <2>2. /\ Tally \in [Caller -> Nat] /\ TallyOfAll \in Nat /\ n \in Nat
        /\ \A u \in Caller : Tally[u] <= used[u] /\ used[u] \in Nat
        /\ TallyOfAll <= usedByAll /\ usedByAll \in Nat
    BY TallyHolds DEF AiInv, AiTypeOK
  <2>3. IsFiniteSet(left) /\ TallyOfAll = Cardinality(left)
    BY TallyHolds
  <2>4. IsFiniteSet(more) /\ Cardinality(more) = cost
    <3>1. n \in Nat
      BY <2>2
    <3> HIDE DEF n
    <3> QED BY <3>1, NextTokens
  <2>5. Spent' = left \cup more
    <3>1. \A u \in Caller : u # who => used'[u] = Tally[u]
      BY <2>1, <2>2
    <3>2. used'[who] = n + cost
      BY <2>1, <2>2
    <3>3. {who} \X (1..(n + cost)) = ({who} \X (1..n)) \cup more
      <4>1. 1..(n + cost) = (1..n) \cup ((n + 1)..(n + cost))
        BY <2>2
      <4> QED BY <4>1 DEF Tokens
    <3>4. ASSUME NEW x \in Spent' PROVE x \in left \cup more
      <4>1. PICK u \in Caller : x \in {u} \X (1..used'[u])
        BY <3>4 DEF Spent
      <4>2. CASE u = who
        BY <3>2, <3>3, <4>1, <4>2
      <4>3. CASE u # who
        BY <3>1, <4>1, <4>3
      <4> QED BY <4>2, <4>3
    <3>5. ASSUME NEW x \in left PROVE x \in Spent'
      <4>1. PICK u \in Caller : x \in {u} \X (1..Tally[u])
        BY <3>5
      <4>2. x \in {u} \X (1..used'[u])
        BY <3>1, <3>2, <3>3, <4>1
      <4> QED BY <4>2 DEF Spent
    <3>6. ASSUME NEW x \in more PROVE x \in Spent'
      <4>1. x \in {who} \X (1..used'[who])
        BY <3>2, <3>3, <3>6
      <4> QED BY <4>1 DEF Spent
    <3> QED BY <3>4, <3>5, <3>6
  <2>6. left \cap more = {}
    <3> SUFFICES ASSUME NEW x \in left, x \in more PROVE FALSE
      OBVIOUS
    <3>1. PICK u \in Caller : x \in {u} \X (1..Tally[u])
      OBVIOUS
    <3>2. u = who /\ x[2] \in 1..n /\ x[2] \in (n + 1)..(n + cost)
      BY <3>1 DEF Tokens
    <3> QED BY <2>2, <3>2
  <2>7. IsFiniteSet(left \cup more) /\ Cardinality(left \cup more) = TallyOfAll + cost
    <3> HIDE DEF left, more
    <3>1. Cardinality(left \cap more) = 0
      BY <2>6, FS_EmptySet
    <3> QED BY <2>2, <2>3, <2>4, <3>1, FS_Union
  <2>8. CountsAgree'
    BY <2>1, <2>5, <2>7 DEF CountsAgree
  <2>9. /\ used' \in [Caller -> Nat] /\ usedByAll' \in Nat
        /\ \A u \in Caller : used'[u] <= used[u] + (IF u = who THEN cost ELSE 0)
        /\ usedByAll' <= usedByAll + cost
    <3> HIDE DEF left, more
    <3> QED BY <2>1, <2>2
  <2> QED BY <2>8, <2>9
<1> QED BY <1>1, <1>2

\* A debt that is paid or forgiven leaves the rest within the limits.
LEMMA DebtShrinks ==
  ASSUME AiInv, NEW c \in Call, asker[c] # Nobody, asker' = [asker EXCEPT ![c] = Nobody],
         NEW cost \in 0..MaxCost,
         used' \in [Caller -> Nat], usedByAll' \in Nat,
         \A u \in Caller : used'[u] <= used[u] + (IF u = asker[c] THEN cost ELSE 0),
         usedByAll' <= usedByAll + cost
  PROVE  WithinDebt'
<1> DEFINE All == MaxCost * Cardinality(Call)
<1>1. cost \in Nat /\ cost <= MaxCost /\ MaxCost \in Nat
  BY AiAssumption
<1>2. ASSUME NEW u \in Caller
      PROVE  (used[u] + MaxCost * Cardinality(Owing(u)) <= PerUser - 1 + All)'
  <2> DEFINE owes == MaxCost * Cardinality(Owing(u))
             less == MaxCost * Cardinality(Owing(u) \ {c})
  <2>1. /\ owes \in Nat /\ All \in Nat /\ less \in Nat /\ less <= owes
        /\ c \in Owing(u) => owes = less + MaxCost
    BY SomeOwe DEF Owing
  <2>2. used[u] + owes <= PerUser - 1 + All /\ used[u] \in Nat
    BY DEF AiInv, WithinDebt, AiTypeOK
  <2>3. (MaxCost * Cardinality(Owing(u)))' = less
    BY OneLess
  <2>4. u = asker[c] => c \in Owing(u)
    BY OneLess
  <2>5. used'[u] + less <= PerUser - 1 + All
    <3> HIDE DEF owes, less, All
    <3>1. used'[u] \in Nat /\ PerUser \in Nat
      BY AiAssumption
    <3>2. CASE u = asker[c]
      <4>1. used'[u] <= used[u] + cost
        BY <3>2
      <4> QED BY <1>1, <2>1, <2>2, <2>4, <3>1, <3>2, <4>1
    <3>3. CASE u # asker[c]
      <4>1. used'[u] <= used[u] + 0
        BY <3>3
      <4> QED BY <1>1, <2>1, <2>2, <3>1, <4>1
    <3> QED BY <3>2, <3>3
  <2> QED BY <2>3, <2>5
<1>3. (usedByAll + MaxCost * Cardinality(AllOwing) <= Total - 1 + All)'
  <2> DEFINE owes == MaxCost * Cardinality(AllOwing)
             less == MaxCost * Cardinality(AllOwing \ {c})
  <2>1. /\ owes \in Nat /\ All \in Nat /\ less \in Nat
        /\ c \in AllOwing => owes = less + MaxCost
    BY SomeOwe DEF AllOwing
  <2>2. usedByAll + owes <= Total - 1 + All /\ usedByAll \in Nat
    BY DEF AiInv, WithinDebt, AiTypeOK
  <2>3. (MaxCost * Cardinality(AllOwing))' = less /\ c \in AllOwing
    BY OneLess
  <2>4. usedByAll' + less <= Total - 1 + All
    <3>1. owes = less + MaxCost /\ Total - 1 \in Int
      BY <2>1, <2>3, AiAssumption
    <3> HIDE DEF owes, less, All
    <3>2. \A bound \in Int, a, b \in Nat :
            b <= a + cost /\ a + owes <= bound => b + less <= bound
      BY <1>1, <2>1, <3>1
    <3>3. Total - 1 + All \in Int
      BY <2>1, <3>1
    <3> QED BY <2>2, <3>2, <3>3
  <2> QED BY <2>3, <2>4
<1> QED BY <1>2, <1>3 DEF WithinDebt

LEMMA FinishKeeps ==
  ASSUME AiInv, NEW c \in Call, Finish(c)
  PROVE  AiInv'
<1>1. PICK cost \in 0..MaxCost : Charge(asker[c], cost)
  BY DEF Finish
<1>2. /\ Slot!Release(c) /\ hostedState[c] = "holding"
      /\ asker' = [asker EXCEPT ![c] = Nobody]
  BY DEF Finish, Slot!Release
<1>3. asker[c] # Nobody
  BY <1>2 DEF AiInv, PlacesAreOwed
<1>4. cost \in Nat /\ asker[c] \in Caller /\ asker' \in [Call -> Caller \cup {Nobody}]
  <2>1. cost \in Nat
    BY AiAssumption
  <2> QED BY <1>2, <1>3, <2>1, OneLess
<1>5. /\ used' \in [Caller -> Nat] /\ usedByAll' \in Nat
      /\ \A u \in Caller : used'[u] <= used[u] + (IF u = asker[c] THEN cost ELSE 0)
      /\ usedByAll' <= usedByAll + cost
      /\ CountsAgree'
  BY <1>1, <1>4, ChargeCounts
<1>6. WithinDebt'
  BY <1>2, <1>3, <1>5, DebtShrinks
<1>7. Gates!SlotInv'
  BY <1>2, SameGates, GatesStep DEF AiInv
<1>8. PlacesAreOwed'
  <2>1. hostedState \in [Call -> {"idle", "queued", "granted", "holding"}]
    BY DEF AiInv, Gates!SlotInv, Gates!PlacesTypeOK, Gates!States
  <2>2. CASE hostedQueue = <<>>
    BY <1>2, <2>1, <2>2 DEF Slot!Release, Slot!Move, AiInv, AiTypeOK, PlacesAreOwed
  <2>3. CASE hostedQueue # <<>>
    <3>1. /\ Head(hostedQueue) \in Call /\ hostedState[Head(hostedQueue)] = "queued"
          /\ hostedState' = [hostedState EXCEPT ![c] = "idle", ![Head(hostedQueue)] = "granted"]
      BY <1>2, <2>3, HeadWaits DEF Slot!Release, AiInv
    <3> QED BY <1>2, <2>1, <3>1 DEF AiInv, AiTypeOK, PlacesAreOwed
  <2> QED BY <2>2, <2>3
<1> QED BY <1>4, <1>5, <1>6, <1>7, <1>8 DEF AiInv, AiTypeOK

LEMMA AbandonKeeps ==
  ASSUME AiInv, NEW c \in Call, Abandon(c)
  PROVE  AiInv'
<1>1. /\ asker[c] # Nobody /\ asker' = [asker EXCEPT ![c] = Nobody]
      /\ used' = used /\ usedByAll' = usedByAll
      /\ Slot!LeaveQueue(c) \/ (hostedState[c] = "idle" /\ UNCHANGED slotVars)
  BY DEF Abandon, limitVars
<1>2. /\ used \in [Caller -> Nat] /\ usedByAll \in Nat /\ MaxCost \in Nat
      /\ asker' \in [Call -> Caller \cup {Nobody}]
  BY <1>1, OneLess, AiAssumption DEF AiInv, AiTypeOK
<1>3. WithinDebt'
  <2>1. /\ 0 \in 0..MaxCost /\ usedByAll' <= usedByAll + 0
        /\ \A u \in Caller : used'[u] <= used[u] + (IF u = asker[c] THEN 0 ELSE 0)
    BY <1>1, <1>2
  <2> QED BY <1>1, <1>2, <2>1, DebtShrinks
<1>4. Gates!SlotInv'
  BY <1>1, SameGates, GatesStep DEF AiInv
<1>5. PlacesAreOwed'
  <2>1. hostedState \in [Call -> {"idle", "queued", "granted", "holding"}]
    BY DEF AiInv, Gates!SlotInv, Gates!PlacesTypeOK, Gates!States
  <2>2. \A d \in Call : d # c => hostedState'[d] = hostedState[d]
    BY <1>1, <2>1 DEF Slot!LeaveQueue, Slot!Move, slotVars
  <2>3. hostedState'[c] = "idle"
    BY <1>1, <2>1 DEF Slot!LeaveQueue, Slot!Move, slotVars
  <2> QED BY <1>1, <2>2, <2>3 DEF AiInv, AiTypeOK, PlacesAreOwed
<1>6. CountsAgree'
  BY <1>1 DEF AiInv, CountsAgree, Spent
<1> QED BY <1>1, <1>2, <1>3, <1>4, <1>5, <1>6 DEF AiInv, AiTypeOK

\* What changes only the places, for a call that was let in.
LEMMA PlaceKeeps ==
  ASSUME AiInv, NEW c \in Call, Enter(c) \/ Begin(c)
  PROVE  AiInv'
<1>1. /\ Slot!Acquire(c) \/ Slot!Queue(c) \/ Slot!Resume(c)
      /\ UNCHANGED <<used, usedByAll, asker>>
  BY DEF Enter, Begin, limitVars
<1>2. asker[c] # Nobody
  BY DEF Enter, Begin, Slot!Resume, AiInv, PlacesAreOwed
<1>3. PlacesAreOwed'
  <2>1. hostedState \in [Call -> {"idle", "queued", "granted", "holding"}]
    BY DEF AiInv, Gates!SlotInv, Gates!PlacesTypeOK, Gates!States
  <2>2. \A d \in Call : d # c => hostedState'[d] = hostedState[d]
    BY <1>1, <2>1 DEF Slot!Acquire, Slot!Queue, Slot!Resume, Slot!Move
  <2> QED BY <1>1, <1>2, <2>2 DEF AiInv, PlacesAreOwed
<1>4. Gates!SlotInv'
  BY <1>1, SameGates, GatesStep DEF AiInv
<1> QED
  BY <1>1, <1>3, <1>4
     DEF AiInv, AiTypeOK, WithinDebt, Owing, AllOwing, CountsAgree, Spent

LEMMA AiInvStep ==
  ASSUME AiInv, [AiNext]_aiVars
  PROVE  AiInv'
<1>1. CASE AiTick \/ UNCHANGED aiVars
  <2>1. UNCHANGED <<used, usedByAll, asker, slotVars>>
    BY <1>1 DEF AiTick, aiVars, limitVars
  <2>2. Gates!SlotInv'
    BY <2>1, GatesStep DEF AiInv
  <2> QED
    BY <2>1, <2>2
       DEF AiInv, AiTypeOK, PlacesAreOwed, WithinDebt, Owing, AllOwing, CountsAgree, Spent, slotVars
<1> QED BY <1>1, AskKeeps, PlaceKeeps, FinishKeeps, AbandonKeeps DEF AiNext

LEMMA DebtBounds == AiInv => BudgetHolds
<1> SUFFICES ASSUME AiInv PROVE BudgetHolds
  OBVIOUS
<1> DEFINE All == MaxCost * Cardinality(Call)
<1>1. ASSUME NEW u \in Caller PROVE used[u] <= PerUser - 1 + All
  <2>1. MaxCost * Cardinality(Owing(u)) \in Nat /\ All \in Nat
    BY SomeOwe DEF Owing
  <2>2. used[u] + MaxCost * Cardinality(Owing(u)) <= PerUser - 1 + All /\ used[u] \in Nat
    BY DEF AiInv, WithinDebt, AiTypeOK
  <2> QED BY <2>1, <2>2, AiAssumption
<1>2. usedByAll <= Total - 1 + All
  <2>1. MaxCost * Cardinality(AllOwing) \in Nat /\ All \in Nat
    BY SomeOwe DEF AllOwing
  <2>2. usedByAll + MaxCost * Cardinality(AllOwing) <= Total - 1 + All /\ usedByAll \in Nat
    BY DEF AiInv, WithinDebt, AiTypeOK
  <2> QED BY <2>1, <2>2, AiAssumption
<1> QED BY <1>1, <1>2 DEF BudgetHolds, AiInv, CountsAgree

\* A day's use passes its limits by no more than the calls under way cost, and
\* the total is what the callers used (limits.ts, refusal and record).
THEOREM BudgetKept == AiSpec => []BudgetHolds
BY AiInvInit, AiInvStep, DebtBounds, PTL DEF AiSpec
===============================================================================
