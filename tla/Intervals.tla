------------------------------ MODULE Intervals ------------------------------
(***************************************************************************)
(* The arithmetic of sli/intervals.ts: sequences of <<start, end>>, end    *)
(* excluded, in Unix seconds.                                              *)
(***************************************************************************)
EXTENDS Integers, Sequences, FiniteSets, SequencesExt, MapEntries

Lesser(a, b) == IF a < b THEN a ELSE b
Greater(a, b) == IF a < b THEN b ELSE a

\* One interval, unless it is empty.
Span(from, to) == IF from < to THEN <<<<from, to>>>> ELSE <<>>

NonEmpty(ivs) == KeptEntries(ivs, {n \in 1..Len(ivs) : ivs[n][1] < ivs[n][2]})

\* By start, and those of one start as they were: Array.sort is stable.
ByStart(ivs) ==
  LET upTo(n) == {m \in 1..Len(ivs) : ivs[m][1] < ivs[n][1] \/ (ivs[m][1] = ivs[n][1] /\ m <= n)}
      nth(k) == CHOOSE n \in 1..Len(ivs) : Cardinality(upTo(n)) = k
  IN [k \in 1..Len(ivs) |-> ivs[nth(k)]]

\* mergeIntervals
\*
\* Fault: one that lies inside the last shortens it.
Joined_Shorter(out, i) ==
  IF out # <<>> /\ i[1] <= Last(out)[2]
  THEN Append(Front(out), <<Last(out)[1], i[2]>>)
  ELSE Append(out, i)

Joined(out, i) ==
  IF out # <<>> /\ i[1] <= Last(out)[2]
  THEN Append(Front(out), <<Last(out)[1], Greater(Last(out)[2], i[2])>>)
  ELSE Append(out, i)

Merged(ivs) == FoldLeft(Joined, <<>>, ByStart(NonEmpty(ivs)))

\* totalSeconds
Longer(n, i) == n + (i[2] - i[1])
TotalSeconds(ivs) == FoldLeft(Longer, 0, Merged(ivs))

\* intersectIntervals: both are walked at once, and the one that ends first is
\* left behind; so there are no more turns than intervals.
Walked(x, y, at) ==
  IF at.i > Len(x) \/ at.j > Len(y) THEN at
  ELSE LET first == x[at.i][2] < y[at.j][2]
       IN [i |-> IF first THEN at.i + 1 ELSE at.i,
           j |-> IF first THEN at.j ELSE at.j + 1,
           out |-> at.out \o Span(Greater(x[at.i][1], y[at.j][1]), Lesser(x[at.i][2], y[at.j][2]))]

Walk(x, y) ==
  FoldLeft(LAMBDA at, turn : Walked(x, y, at), [i |-> 1, j |-> 1, out |-> <<>>], x \o y).out

Intersected(a, b) == Walk(Merged(a), Merged(b))

\* clipIntervals
Clipped(ivs, from, to) ==
  NonEmpty([n \in 1..Len(ivs) |-> <<Greater(ivs[n][1], from), Lesser(ivs[n][2], to)>>])

\* complementIntervals
Past(acc, i) ==
  [cursor |-> Greater(acc.cursor, i[2]), out |-> acc.out \o Span(acc.cursor, i[1])]

Complement(holes, from, to) ==
  LET all == FoldLeft(Past, [cursor |-> from, out |-> <<>>], Merged(Clipped(holes, from, to)))
  IN all.out \o Span(all.cursor, to)

\* The longest of some intervals apart.
Farther(m, i) == Greater(m, i[2] - i[1])
Longest(ivs) == FoldLeft(Farther, 0, ivs)

\* What intervals stand for, to say what is right.
Seconds(ivs) == UNION {ivs[n][1]..ivs[n][2] - 1 : n \in 1..Len(ivs)}
=============================================================================
