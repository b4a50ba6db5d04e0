------------------------------- MODULE SignIn -------------------------------
(***************************************************************************)
(* The lock on guessed passwords (security/auth.ts): `failures', a Map of  *)
(* the failures in a row per account and address, capped at               *)
(* LOGIN_FAIL_KEYS.  The lock is looked at before the password is checked  *)
(* and the failure counted after it; checking it is slow and awaited, so   *)
(* any number of attempts may be in between.                               *)
(*                                                                         *)
(* Left out: the limit a minute, a plugin that only refuses more, and the  *)
(* failures per name, which only warn.                                     *)
(***************************************************************************)
EXTENDS MapEntries

CONSTANTS
  Account,      \* keys of loginKey: an account and the address it is tried from
  Attempt,      \* sign-ins in parallel
  LockAfter, LockBase, LockMax,    \* LOGIN_LOCK_*
  FailTtl,      \* LOGIN_FAIL_TTL_MS
  FailKeys,     \* LOGIN_FAIL_KEYS
  MaxTried,     \* bound: sign-ins that were answered
  MaxSignInTime \* bound on the clock

ASSUME SignInAssumption ==
  /\ LockAfter \in Nat \ {0} /\ LockBase \in Nat \ {0} /\ FailKeys \in Nat \ {0}
  /\ LockMax \in Nat /\ LockBase <= LockMax
  /\ FailTtl \in Nat /\ LockMax < FailTtl
  /\ IsFiniteSet(Attempt) /\ "none" \notin Account

VARIABLES
  signInTime,
  failures,     \* the Map in its order: [key, count, last, until]
  hashing,      \* the account each attempt is being checked for, or NoAccount
  tried         \* ghost: the answers given, in order: [key, ok, at]

signInVars == <<signInTime, failures, hashing, tried>>

NoAccount == "none"

Entries(k) == {i \in 1..Len(failures) : failures[i].key = k}
Locked(k) == \E i \in Entries(k) : failures[i].until > signInTime

\* loginLimit, up to the check of the password.
\*
\* Fault: the lock is not looked at.
Try_Unlocked(a, k) ==
  /\ hashing[a] = NoAccount
  /\ hashing' = [hashing EXCEPT ![a] = k]
  /\ UNCHANGED <<signInTime, failures, tried>>

Try(a, k) ==
  /\ hashing[a] = NoAccount /\ ~Locked(k)
  /\ hashing' = [hashing EXCEPT ![a] = k]
  /\ UNCHANGED <<signInTime, failures, tried>>

Answered(a, ok) ==
  /\ tried' = Append(tried, [key |-> hashing[a], ok |-> ok, at |-> signInTime])
  /\ hashing' = [hashing EXCEPT ![a] = NoAccount]
  /\ UNCHANGED signInTime

\* Failures long ago do not count.
CountOf(k) ==
  1 + IF \E i \in Entries(k) : signInTime - failures[i].last < FailTtl
      THEN (CHOOSE e \in {failures[i] : i \in Entries(k)} : TRUE).count
      ELSE 0

LockFor(count) ==
  IF count < LockAfter THEN 0
  ELSE LET wait == LockBase * 2 ^ (count - LockAfter)
       IN signInTime + IF wait < LockMax THEN wait ELSE LockMax

Others(k) == KeptEntries(failures, {i \in 1..Len(failures) : failures[i].key # k})

\* recordFailure: the key goes to the end of the Map, and over the cap the first goes.
\*
\* Fault: a key that is there keeps its place.
Recorded(k) ==
  [key |-> k, count |-> CountOf(k), last |-> signInTime, until |-> LockFor(CountOf(k))]

Fail_KeepsPlace(k) ==
  LET put == IF Entries(k) = {} THEN Append(failures, Recorded(k))
             ELSE [i \in 1..Len(failures) |-> IF i \in Entries(k) THEN Recorded(k) ELSE failures[i]]
  IN IF Len(put) > FailKeys THEN Tail(put) ELSE put

Fail(k) ==
  LET put == Append(Others(k), Recorded(k))
  IN IF Len(put) > FailKeys THEN Tail(put) ELSE put

WrongPassword(a) ==
  /\ hashing[a] # NoAccount /\ Len(tried) < MaxTried
  /\ failures' = Fail(hashing[a])
  /\ Answered(a, FALSE)

RightPassword(a) ==
  /\ hashing[a] # NoAccount /\ Len(tried) < MaxTried
  /\ failures' = Others(hashing[a])
  /\ Answered(a, TRUE)

SignInWait ==
  /\ signInTime < MaxSignInTime
  /\ signInTime' = signInTime + 1
  /\ UNCHANGED <<failures, hashing, tried>>

SignInInit ==
  /\ signInTime = 0
  /\ failures = <<>>
  /\ hashing = [a \in Attempt |-> NoAccount]
  /\ tried = <<>>

SignInNext ==
  \/ \E a \in Attempt :
       (\E k \in Account : Try(a, k)) \/ WrongPassword(a) \/ RightPassword(a)
  \/ SignInWait

SignInSpec == SignInInit /\ [][SignInNext]_signInVars

-----------------------------------------------------------------------------
Wrong(k, i) == tried[i].key = k /\ ~tried[i].ok
\* Keys other than k with a failure between two answers.
FailedBetween(k, i, j) == {tried[n].key : n \in {m \in i..j : ~tried[m].ok}} \ {k}

\* However the attempts overlap, more wrong passwords of an account than it
\* takes to lock it and than can be under way take at least LOGIN_LOCK_BASE_MS,
\* unless one was right in between or so many other accounts failed that this
\* one was dropped from the Map (auth.ts, loginLimit and recordFailure).
GuessesSpaced ==
  \A k \in Account :
    \A i, j \in 1..Len(tried) :
      /\ i < j /\ Wrong(k, i) /\ Wrong(k, j)
      /\ \A n \in i..j : tried[n].key = k => ~tried[n].ok
      /\ Cardinality(FailedBetween(k, i, j)) < FailKeys
      /\ Cardinality({n \in i..j : tried[n].key = k}) >= LockAfter + Cardinality(Attempt)
      => tried[j].at - tried[i].at >= LockBase

\* The last failure of an account is in the Map until one is right or as many
\* others as the Map holds have failed since (auth.ts, `failures').
FailuresRemembered ==
  \A i \in 1..Len(tried) :
    LET k == tried[i].key IN
    /\ ~tried[i].ok
    /\ \A n \in i + 1..Len(tried) : tried[n].key # k
    /\ Cardinality(FailedBetween(k, i, Len(tried))) < FailKeys
    => \E n \in Entries(k) : failures[n].last = tried[i].at
=============================================================================
