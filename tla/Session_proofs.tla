---------------------------- MODULE Session_proofs ----------------------------
(***************************************************************************)
(* A token signed out at the BFF stays refused, for any number of tokens   *)
(* and any cap, whatever the tabs do.  The argument: only two things take  *)
(* a position out of the Map, and each leaves a reason behind that stays:  *)
(* its token has ended, or it was the oldest of a Map over its cap, and as *)
(* many were put in after it.  Then the sign-out in the tabs of one        *)
(* browser, and the limits of the sign-in (SignIn), each on its own.       *)
(***************************************************************************)
EXTENDS Session, SignIn, SequenceLemmas, FiniteSetTheorems, TLAPS

\* Every position of the log is still in the Map, or there is a reason why not.
GoneForReason ==
  \A i \in 1..Len(puts) :
    i \in kept \/ puts[i] <= lapsed \/ Len(puts) - i >= MaxSignedOut

TokenInv == TokenTypeOK /\ GoneForReason

\* The oldest position of a Map that is not empty.
LEMMA OldestIsLeast ==
  ASSUME NEW n \in Nat, NEW S \in SUBSET (1..n), S # {}
  PROVE  Min(S) \in S /\ \A i \in S : Min(S) <= i
<1>1. \E x \in S : \A y \in S : ~(<<y, x>> \in OpToRel(<, Nat))
  <2>1. S \subseteq Nat OBVIOUS
  <2> QED BY <2>1, NatLessThanWellFounded, WFMin
<1>2. PICK x \in S : \A y \in S : ~(<<y, x>> \in OpToRel(<, Nat))
  BY <1>1
<1>3. \A y \in S : x <= y
  <2> SUFFICES ASSUME NEW y \in S PROVE x <= y
    OBVIOUS
  <2>1. x \in Nat /\ y \in Nat OBVIOUS
  <2>2. ~(y < x) BY <1>2, <2>1 DEF OpToRel
  <2> QED BY <2>1, <2>2
<1> QED BY <1>3 DEF Min

\* What the cap pushes out has as many behind it as the cap allows.
LEMMA PushedOut ==
  ASSUME NEW n \in Nat, NEW S \in SUBSET (1..n), NEW i \in S, i \notin WithinCap(S)
  PROVE  n - i >= MaxSignedOut
<1>1. i = Min(S) /\ Cardinality(S) > MaxSignedOut
  BY DEF WithinCap
<1>2. S \subseteq i..n
  <2>1. \A j \in S : i <= j BY <1>1, OldestIsLeast
  <2>2. \A j \in S : j \in 1..n OBVIOUS
  <2>3. \A j \in S : j \in i..n BY <2>1, <2>2
  <2> QED BY <2>3
<1>3. IsFiniteSet(i..n) /\ Cardinality(i..n) = n - i + 1
  BY FS_Interval
<1>4. Cardinality(S) <= n - i + 1
  BY <1>2, <1>3, FS_Subset
<1>5. Cardinality(S) \in Nat
  BY <1>2, <1>3, FS_Subset, FS_CardinalityType
<1> QED BY <1>1, <1>4, <1>5, TokenAssumption

\* Pruning takes only positions whose token has ended.
LEMMA PrunedLapsed ==
  ASSUME TokenInv
  PROVE  /\ Pruned \subseteq 1..Len(puts) /\ Pruned \subseteq kept
         /\ \A i \in kept : i \in Pruned \/ puts[i] <= lapsed
<1>1. kept \subseteq 1..Len(puts) BY DEF TokenInv, TokenTypeOK
<1>2. ASSUME NEW i \in kept PROVE puts[i] \in Nat /\ lapsed \in Nat
  BY <1>1 DEF TokenInv, TokenTypeOK, Issued
<1>3. Pruned \subseteq kept BY DEF Pruned
<1>4. \A i \in kept : i \in Pruned \/ puts[i] <= lapsed BY <1>2 DEF Pruned
<1> QED BY <1>1, <1>3, <1>4

LEMMA TokenInvInit == TokenInit => TokenInv
BY DEF TokenInit, TokenInv, TokenTypeOK, GoneForReason, Issued

LEMMA TokenInvStep ==
  ASSUME TokenInv, [TokenNext]_tokenVars
  PROVE  TokenInv'
<1> USE DEF TokenInv, TokenTypeOK, Issued
<1>1. ASSUME Issue PROVE TokenInv'
  BY <1>1 DEF Issue, GoneForReason
<1>2. ASSUME NEW t \in Issued, SignOutToken(t) PROVE TokenInv'
  <2>1. CASE t <= lapsed
    BY <1>2, <2>1 DEF SignOutToken, GoneForReason
  <2>2. CASE t > lapsed /\ SignedOut(t)
    <3>1. kept' = Pruned /\ UNCHANGED <<issued, lapsed, puts>>
      BY <1>2, <2>2 DEF SignOutToken
    <3> QED BY <3>1, PrunedLapsed DEF GoneForReason
  <2>3. CASE t > lapsed /\ ~SignedOut(t)
    <3> DEFINE put == Pruned \cup {Len(puts) + 1}
    <3>1. /\ puts' = Append(puts, t) /\ kept' = WithinCap(put)
          /\ UNCHANGED <<issued, lapsed>>
      BY <1>2, <2>3 DEF SignOutToken
    <3>2. put \subseteq 1..(Len(puts) + 1) /\ Len(puts) \in Nat
      <4>1. Len(puts) \in Nat OBVIOUS
      <4>2. Pruned \subseteq 1..Len(puts) BY PrunedLapsed
      <4>3. \A i \in 1..Len(puts) : i \in 1..(Len(puts) + 1) BY <4>1
      <4>4. Len(puts) + 1 \in 1..(Len(puts) + 1) BY <4>1
      <4> HIDE DEF TokenInv
      <4> QED BY <4>1, <4>2, <4>3, <4>4
    <3>3. Len(puts') = Len(puts) + 1 /\ puts' \in Seq(Issued)
      BY <3>1
    <3>4. kept' \subseteq 1..Len(puts')
      BY <3>1, <3>2, <3>3 DEF WithinCap
    <3>5. ASSUME NEW i \in 1..Len(puts')
          PROVE  i \in kept' \/ puts'[i] <= lapsed' \/ Len(puts') - i >= MaxSignedOut
      <4>1. CASE i \in put
        <5>1. i \in kept' \/ Len(puts) + 1 - i >= MaxSignedOut
          <6>1. Len(puts) + 1 \in Nat BY <3>2
          <6>2. ASSUME i \notin WithinCap(put) PROVE Len(puts) + 1 - i >= MaxSignedOut
            <7>1. put \in SUBSET (1..(Len(puts) + 1)) BY <3>2
            <7> HIDE DEF put, TokenInv
            <7> QED BY <4>1, <6>1, <6>2, <7>1, PushedOut
          <6> QED BY <3>1, <6>2
        <5> QED BY <3>3, <5>1
      <4>2. CASE i \notin put
        <5>1. i \in 1..Len(puts) /\ puts'[i] = puts[i]
          BY <3>1, <3>3, <4>2
        <5>2. i \notin kept \/ puts[i] <= lapsed
          BY <4>2, <5>1, PrunedLapsed
        <5> QED BY <3>1, <3>3, <5>1, <5>2, TokenAssumption DEF GoneForReason
      <4> QED BY <4>1, <4>2
    <3> QED BY <3>1, <3>3, <3>4, <3>5 DEF GoneForReason
  <2> QED BY <1>2, <2>1, <2>2, <2>3
<1>3. ASSUME Lapse PROVE TokenInv'
  BY <1>3 DEF Lapse, GoneForReason
<1>4. ASSUME Restart PROVE TokenInv'
  BY <1>4 DEF Restart, GoneForReason
<1>5. CASE UNCHANGED tokenVars
  BY <1>5 DEF tokenVars, GoneForReason
<1> QED BY <1>1, <1>2, <1>3, <1>4, <1>5 DEF TokenNext

LEMMA ReasonsRefuse == TokenInv => SignedOutRefused
BY DEF TokenInv, GoneForReason, SignedOutRefused, Accepts, SignedOut, TokenTypeOK, Issued

\* A token that was signed out is refused for as long as the BFF runs, unless
\* MaxSignedOut others were signed out after it (auth.ts, `signedOut').
THEOREM RefusedForGood == TokenSpec => [](TokenTypeOK /\ SignedOutRefused)
<1>1. TokenInv => TokenTypeOK /\ SignedOutRefused
  BY ReasonsRefuse DEF TokenInv
<1> QED BY <1>1, TokenInvInit, TokenInvStep, PTL DEF TokenSpec

-----------------------------------------------------------------------------
(* The tabs do nothing to the tokens but what the BFF's handlers allow.    *)

\* A request that leaves the tokens alone, one by one.
LEMMA TabStep ==
  ASSUME NEW t \in Tab,
         \/ Open(t) \/ Probe(t) \/ FallDue(t) \/ Tick(t) \/ SignOut(t) \/ Lands(t)
         \/ Fails(t) \/ Deliver(t) \/ Navigate(t)
  PROVE  UNCHANGED tokenVars
BY DEF Open, Probe, FallDue, Tick, SignOut, Lands, LandMe, LandRefresh, LandLogin,
       LandLogout, LandClear, Fails, RefreshFails, LogoutFails, ClearFails, Deliver, Navigate,
       Settle

\* Signing out what is no token of this BFF changes nothing.
LEMMA ForeignTokenIgnored ==
  ASSUME NEW t, SignOutToken(t)
  PROVE  [TokenNext]_tokenVars
BY DEF SignOutToken, TokenNext, tokenVars

LEMMA SessionStep ==
  ASSUME [Next]_vars
  PROVE  [TokenNext]_tokenVars
<1>1. ASSUME NEW t \in Tab, Login(t) PROVE [TokenNext]_tokenVars
  BY <1>1 DEF Login, TokenNext
<1>2. ASSUME NEW t \in Tab, HandleRefresh(t) PROVE [TokenNext]_tokenVars
  BY <1>2 DEF HandleRefresh, TokenNext
<1>3. ASSUME NEW t \in Tab, NEW k \in Kinds, HandleLogout(t, k) PROVE [TokenNext]_tokenVars
  BY <1>3, ForeignTokenIgnored DEF HandleLogout
<1>4. ASSUME BffSteps PROVE [TokenNext]_tokenVars
  BY <1>4 DEF BffSteps, TokenNext
<1>5. CASE UNCHANGED vars
  BY <1>5 DEF vars
<1> QED BY <1>1, <1>2, <1>3, <1>4, <1>5, TabStep DEF Next, Bff

\* The portal, with all its tabs, implements the BFF's token store: requests
\* in any order reach `signedOut' and issue() only through the handlers.
THEOREM PortalKeepsTokens == Spec => TokenSpec
<1>1. Init => TokenInit BY DEF Init
<1> QED BY <1>1, SessionStep, PTL DEF Spec, TokenSpec

\* So what was signed out stays signed out under the tabs' requests too.
THEOREM PortalRefuses == Spec => []SignedOutRefused
BY RefusedForGood, PortalKeepsTokens, PTL
-----------------------------------------------------------------------------
(* A sign-out is not undone by a renewal that lands after it.  The         *)
(* argument: from the moment a tab posts its sign-out, each tab knows of   *)
(* it, or has it still to hear, or is one of `unaware'.  A tab that knows  *)
(* begins no renewal, and owes a POST for one it has out.  So a cookie     *)
(* that comes after the sign-out comes with the POST that clears it, or is *)
(* one that `left' stands for; and the POST is over when the cookie is     *)
(* gone, or fails, which `left' stands for too.  Nothing is assumed of the *)
(* number of tabs, of tokens or of messages on their way.                  *)

\* A tab that does not know of the sign-out.
InTheDark(t) == Unheard(t) \/ t \in unaware

Over == closed \/ \E s \in Tab : stage[s] = "posting"

\* A tab without a page of the portal on show, that knows, or that does not.
Placed(t) == page[t] = "login" \/ ended[t] \/ InTheDark(t)
\* What it has out is answered for.
Accounted(t) == req[t]["refresh"] # Idle => owed[t] \/ stage[t] = "waiting" \/ InTheDark(t)

AllTold == Over => \A t \in Tab : Placed(t) /\ Accounted(t)

\* One person, who signs in or out in one tab at a time.
OneAtATime ==
  /\ \A s, t \in Tab : stage[s] # "none" /\ stage[t] # "none" => s = t
  /\ \A t \in Tab : req[t]["logout"] # Idle => stage[t] = "posting"
  /\ \A t \in Tab : stage[t] # "none" => ended[t] \/ t \in unaware
  /\ \A t \in Tab : req[t]["login"] # Idle => ~closed /\ \A s \in Tab : stage[s] = "none"

Shape ==
  /\ issued \in Nat /\ jar \in Nat
  /\ page \in [Tab -> {"app", "leaving", "login"}]
  /\ ended \in [Tab -> BOOLEAN]
  /\ stage \in [Tab -> {"none", "waiting", "posting"}]
  /\ owed \in [Tab -> BOOLEAN]
  /\ inbox \in [Tab -> Seq(Messages)]
  /\ req \in [Tab -> [Kinds -> Requests]]
  /\ closed \in BOOLEAN /\ left \in BOOLEAN

SignOutInv == Shape /\ OneAtATime /\ AllTold /\ SignOutHolds

-----------------------------------------------------------------------------
(* Parts of the steps that several actions share.                          *)

LEMMA InClearing ==
  ASSUME NEW t, NEW x
  PROVE  /\ x \in Clearing(t) <=>
              \E k \in {"logout", "clear"} : req[t][k] # Idle /\ req[t][k].token = x
         /\ x \in Clearing(t)' <=>
              \E k \in {"logout", "clear"} : req'[t][k] # Idle /\ req'[t][k].token = x
BY DEF Clearing

LEMMA RequestsKnown ==
  /\ Idle \in Requests
  /\ \A n \in Nat : Sent(n) \in Requests /\ Sent(n) # Idle /\ Sent(n).token = n
  /\ \A n \in Nat : \A ok \in BOOLEAN :
       LET back == [at |-> "back", token |-> n, ok |-> ok]
       IN back \in Requests /\ back # Idle /\ back.token = n
BY DEF Idle, Requests, Sent, NoToken

LEMMA RequestUpdate ==
  ASSUME Shape, NEW t \in Tab, NEW k \in Kinds, NEW v \in Requests,
         req' = [req EXCEPT ![t][k] = v]
  PROVE  /\ req' \in [Tab -> [Kinds -> Requests]]
         /\ req'[t][k] = v
         /\ \A j \in Kinds \ {k} : req'[t][j] = req[t][j]
         /\ \A s \in Tab \ {t} : req'[s] = req[s]
BY DEF Shape

\* All that a tab had out is gone with its page.
LEMMA RequestsGone ==
  ASSUME Shape, NEW t \in Tab, req' = [req EXCEPT ![t] = [k \in Kinds |-> Idle]]
  PROVE  /\ req' \in [Tab -> [Kinds -> Requests]]
         /\ \A k \in Kinds : req'[t][k] = Idle
         /\ \A s \in Tab \ {t} : req'[s] = req[s]
BY RequestsKnown DEF Shape

\* What the channel adds, and what it takes off, of messages of a sign-out.
TellsOfIt(q) == \E i \in DOMAIN q : q[i] = "signed-out"

LEMMA UnheardIsTold ==
  ASSUME NEW t
  PROVE  /\ Unheard(t) <=> TellsOfIt(inbox[t])
         /\ Unheard(t)' <=> TellsOfIt(inbox'[t])
BY DEF Unheard, TellsOfIt

LEMMA Appended ==
  ASSUME NEW q \in Seq(Messages), NEW m \in Messages
  PROVE  /\ Append(q, m) \in Seq(Messages)
         /\ TellsOfIt(q) \/ m = "signed-out" => TellsOfIt(Append(q, m))
<1>1. /\ Append(q, m) \in Seq(Messages)
      /\ Len(Append(q, m)) = Len(q) + 1 /\ Len(q) \in Nat
      /\ Append(q, m)[Len(q) + 1] = m
      /\ \A i \in 1..Len(q) : Append(q, m)[i] = q[i]
  OBVIOUS
<1>2. DOMAIN q = 1..Len(q) /\ DOMAIN Append(q, m) = 1..(Len(q) + 1)
  BY <1>1
<1> QED BY <1>1, <1>2 DEF TellsOfIt

LEMMA Tailed ==
  ASSUME NEW q \in Seq(Messages), q # <<>>, Head(q) # "signed-out", TellsOfIt(q)
  PROVE  Tail(q) \in Seq(Messages) /\ TellsOfIt(Tail(q))
<1> PICK i \in DOMAIN q : q[i] = "signed-out"
  BY DEF TellsOfIt
<1>1. /\ Tail(q) \in Seq(Messages) /\ Len(Tail(q)) = Len(q) - 1 /\ Len(q) \in Nat
      /\ \A j \in 1..(Len(q) - 1) : Tail(q)[j] = q[j + 1]
      /\ Head(q) = q[1] /\ i \in 1..Len(q)
  OBVIOUS
<1>2. i # 1 BY <1>1
<1>3. i - 1 \in 1..(Len(q) - 1) /\ Tail(q)[i - 1] = "signed-out" BY <1>1, <1>2
<1>4. DOMAIN Tail(q) = 1..(Len(q) - 1) BY <1>1
<1> QED BY <1>1, <1>3, <1>4 DEF TellsOfIt

\* A message is sent to every other tab.
LEMMA Announced ==
  ASSUME Shape, NEW t \in Tab, NEW m \in Messages, Announce(t, m)
  PROVE  /\ inbox' \in [Tab -> Seq(Messages)]
         /\ \A s \in Tab : Unheard(s) => Unheard(s)'
         /\ m = "signed-out" => \A s \in Tab \ {t} : Unheard(s)'
<1>1. \A s \in Tab : inbox[s] \in Seq(Messages) /\ inbox'[s] = IF s = t THEN inbox[s] ELSE Append(inbox[s], m)
  BY DEF Announce, Shape
<1>2. inbox' \in [Tab -> Seq(Messages)]
  BY <1>1, Appended DEF Announce
<1>3. ASSUME NEW s \in Tab, Unheard(s) PROVE Unheard(s)'
  <2>1. TellsOfIt(inbox[s]) BY <1>3, UnheardIsTold
  <2>2. TellsOfIt(inbox'[s]) BY <1>1, <2>1, Appended
  <2> QED BY <2>2, UnheardIsTold
<1>4. ASSUME NEW s \in Tab \ {t}, m = "signed-out" PROVE Unheard(s)'
  <2>1. s \in Tab /\ s # t /\ m \in Messages OBVIOUS
  <2>2. inbox'[s] = Append(inbox[s], m) /\ inbox[s] \in Seq(Messages) BY <1>1, <2>1
  <2>3. TellsOfIt(inbox'[s]) BY <1>4, <2>1, <2>2, Appended
  <2> QED BY <2>3, UnheardIsTold
<1> QED BY <1>2, <1>3, <1>4

\* Whoever was told stays told where nothing of this happens to him.
LEMMA StaysTold ==
  ASSUME AllTold, Over' => Over,
         \A s \in Tab : Placed(s) /\ Accounted(s) => (Placed(s) /\ Accounted(s))'
  PROVE  AllTold'
BY DEF AllTold

\* The cookie is still on its way out where no other comes, and its POST is not
\* done.
LEMMA StaysHeld ==
  ASSUME SignOutHolds, closed' => closed, jar' = jar \/ jar' = NoToken,
         jar' = jar /\ left => left',
         \A s \in Tab : \A k \in {"logout", "clear"} :
           req[s][k] # Idle /\ req[s][k].token = jar =>
             left' \/ jar' = NoToken \/ (req'[s][k] # Idle /\ req'[s][k].token = jar)
  PROVE  SignOutHolds'
<1> SUFFICES ASSUME closed', jar' # NoToken, ~left' PROVE \E s \in Tab : jar' \in Clearing(s)'
  BY DEF SignOutHolds
<1>1. closed /\ jar' = jar /\ jar # NoToken /\ ~left
  OBVIOUS
<1>2. PICK s \in Tab : jar \in Clearing(s)
  BY <1>1 DEF SignOutHolds
<1>3. PICK k \in {"logout", "clear"} : req[s][k] # Idle /\ req[s][k].token = jar
  BY <1>2, InClearing
<1>4. req'[s][k] # Idle /\ req'[s][k].token = jar'
  BY <1>1, <1>3
<1> QED BY <1>4, InClearing

\* Nothing that the invariant speaks of changes.
LEMMA NothingMoves ==
  ASSUME SignOutInv, issued' \in Nat,
         UNCHANGED <<jar, page, ended, stage, owed, inbox, req, ghosts>>
  PROVE  SignOutInv'
<1>1. Shape' /\ OneAtATime'
  BY DEF SignOutInv, Shape, OneAtATime, ghosts
<1>2. AllTold'
  BY DEF SignOutInv, AllTold, Over, Placed, Accounted, InTheDark, Unheard, ghosts
<1>3. SignOutHolds'
  BY DEF SignOutInv, SignOutHolds, Clearing, ghosts
<1> QED BY <1>1, <1>2, <1>3 DEF SignOutInv

\* One request of a tab moves on: none that signs in, and a POST of a logout keeps
\* its token.
LEMMA RequestMoves ==
  ASSUME SignOutInv, issued' \in Nat,
         UNCHANGED <<jar, page, ended, stage, owed, inbox, ghosts>>,
         NEW t \in Tab, NEW k \in {"me", "refresh", "logout", "clear"}, NEW v \in Requests,
         req' = [req EXCEPT ![t][k] = v],
         k = "refresh" =>
           req[t]["refresh"] # Idle \/ owed[t] \/ stage[t] = "waiting" \/ InTheDark(t) \/ ~Over,
         k \in {"logout", "clear"} =>
           req[t][k] # Idle /\ v # Idle /\ v.token = req[t][k].token
  PROVE  SignOutInv'
<1> Shape /\ OneAtATime /\ AllTold /\ SignOutHolds
  BY DEF SignOutInv
<1>1. k \in Kinds BY DEF Kinds
<1>2. /\ req' \in [Tab -> [Kinds -> Requests]]
      /\ req'[t][k] = v
      /\ \A j \in Kinds \ {k} : req'[t][j] = req[t][j]
      /\ \A s \in Tab \ {t} : req'[s] = req[s]
  BY <1>1, RequestUpdate
<1>3. Shape'
  BY <1>2 DEF Shape, ghosts
<1>4. OneAtATime'
  BY <1>2 DEF OneAtATime, Kinds, ghosts
<1>5. AllTold'
  <2>1. Over' => Over BY DEF Over, ghosts
  <2>2. \A s \in Tab : (Placed(s)' <=> Placed(s)) /\ (InTheDark(s)' <=> InTheDark(s))
    BY DEF Placed, InTheDark, Unheard, ghosts
  <2>3. ASSUME Over, NEW s \in Tab, Accounted(s) PROVE Accounted(s)'
    BY <1>2, <2>2, <2>3 DEF Accounted, Kinds
  <2> QED BY <2>1, <2>2, <2>3 DEF AllTold
<1>6. SignOutHolds'
  BY <1>2, StaysHeld DEF Kinds, ghosts
<1> QED BY <1>3, <1>4, <1>5, <1>6 DEF SignOutInv

LEMMA ProbeHolds == ASSUME SignOutInv, NEW t \in Tab, Probe(t) PROVE SignOutInv'
<1>1. PICK ok \in {Accepts(jar), FALSE} : Answer(t, "me", ok, NoToken)
  BY DEF Probe
<1>2. ok \in BOOLEAN BY <1>1 DEF Accepts
<1>3. [at |-> "back", token |-> NoToken, ok |-> ok] \in Requests
  BY <1>2, RequestsKnown DEF NoToken
<1>4. issued' \in Nat /\ UNCHANGED <<jar, page, ended, stage, owed, inbox, ghosts>>
  BY DEF Probe, SignOutInv, Shape, tokenVars, tabVars, ghosts
<1> QED BY <1>1, <1>3, <1>4, RequestMoves DEF Answer

LEMMA TickHolds == ASSUME SignOutInv, NEW t \in Tab, Tick(t) PROVE SignOutInv'
<1>1. Sent(jar) \in Requests /\ req' = [req EXCEPT ![t]["refresh"] = Sent(jar)]
  BY RequestsKnown DEF Tick, SignOutInv, Shape
<1>2. Over => InTheDark(t)
  BY DEF Tick, SignOutInv, AllTold, Placed
<1>3. issued' \in Nat /\ UNCHANGED <<jar, page, ended, stage, owed, inbox, ghosts>>
  BY DEF Tick, SignOutInv, Shape, tokenVars, tabVars, ghosts
<1> QED BY <1>1, <1>2, <1>3, RequestMoves

LEMMA HandleRefreshHolds == ASSUME SignOutInv, NEW t \in Tab, HandleRefresh(t) PROVE SignOutInv'
<1>1. issued \in Nat /\ issued' \in Nat
  <2>1. Issue \/ UNCHANGED tokenVars BY DEF HandleRefresh
  <2> QED BY <2>1 DEF Issue, SignOutInv, Shape, tokenVars
<1>2. PICK v \in Requests : req' = [req EXCEPT ![t]["refresh"] = v]
  <2>1. issued + 1 \in Nat /\ NoToken \in Nat BY <1>1 DEF NoToken
  <2>2. \/ Answer(t, "refresh", TRUE, issued + 1)
        \/ Answer(t, "refresh", FALSE, NoToken)
    BY DEF HandleRefresh
  <2> QED BY <2>1, <2>2, RequestsKnown DEF Answer
<1>3. UNCHANGED <<jar, page, ended, stage, owed, inbox, ghosts>> /\ req[t]["refresh"] # Idle
  BY DEF HandleRefresh, tabVars, ghosts, Idle
<1> QED BY <1>1, <1>2, <1>3, RequestMoves

LEMMA HandleLogoutHolds ==
  ASSUME SignOutInv, NEW t \in Tab, NEW k \in Kinds, HandleLogout(t, k) PROVE SignOutInv'
<1> DEFINE v == [at |-> "back", token |-> req[t][k].token, ok |-> TRUE]
<1>1. req[t][k] \in Requests
  BY DEF SignOutInv, Shape
<1>2. v \in Requests /\ v # Idle /\ v.token = req[t][k].token
  BY <1>1, RequestsKnown DEF Requests
<1>3. issued' \in Nat /\ UNCHANGED <<jar, page, ended, stage, owed, inbox, ghosts>>
  BY DEF HandleLogout, SignOutToken, SignOutInv, Shape, tabVars, ghosts
<1>4. req' = [req EXCEPT ![t][k] = v] /\ req[t][k] # Idle /\ k \in {"logout", "clear"}
  BY DEF HandleLogout, Answer, Idle
<1> HIDE DEF v
<1> QED BY <1>2, <1>3, <1>4, RequestMoves

LEMMA StillHolds == ASSUME SignOutInv, NEW t \in Tab, FallDue(t) PROVE SignOutInv'
BY NothingMoves DEF FallDue, SignOutInv, Shape, tokenVars, ghosts

LEMMA BffHolds == ASSUME SignOutInv, BffSteps PROVE SignOutInv'
BY NothingMoves DEF BffSteps, Lapse, Restart, SignOutInv, Shape, tabVars, ghosts

-----------------------------------------------------------------------------
(* The other steps.                                                        *)

LEMMA OpenHolds == ASSUME SignOutInv, NEW t \in Tab, Open(t) PROVE SignOutInv'
<1> Shape /\ OneAtATime /\ AllTold /\ SignOutHolds
  BY DEF SignOutInv
<1>1. /\ req' \in [Tab -> [Kinds -> Requests]]
      /\ \A k \in Kinds : req'[t][k] = Idle
      /\ \A s \in Tab \ {t} : req'[s] = req[s]
  BY RequestsGone DEF Open
<1>2. Shape'
  BY <1>1 DEF Open, Shape, Set, Lose, tokenVars
<1>3. OneAtATime'
  BY <1>1 DEF Open, Free, OneAtATime, Kinds
<1>4. AllTold'
  <2>1. Over' => Over /\ closed BY DEF Over, Open, Free
  <2>2. ASSUME closed, NEW s \in Tab \ {t}, Placed(s) /\ Accounted(s) PROVE (Placed(s) /\ Accounted(s))'
    BY <1>1, <2>2 DEF Open, Set, Shape, Placed, Accounted, InTheDark, Unheard
  <2>3. closed => (Placed(t) /\ Accounted(t))'
    BY <1>1 DEF Open, Placed, Accounted, InTheDark
  <2> QED BY <2>1, <2>2, <2>3 DEF AllTold
<1>5. SignOutHolds'
  <2>1. jar \in Clearing(t) => ~closed \/ left'
    BY DEF Open, Lose
  <2>2. jar' = jar /\ closed' = closed /\ (left => left')
    BY DEF Open, Lose
  <2>3. CASE ~closed BY <2>2, <2>3 DEF SignOutHolds
  <2>4. CASE closed
    <3>1. ASSUME NEW s \in Tab, NEW k \in {"logout", "clear"}, req[s][k] # Idle, req[s][k].token = jar
          PROVE  left' \/ (req'[s][k] # Idle /\ req'[s][k].token = jar)
      <4>1. CASE s = t BY <2>1, <2>4, <3>1, <4>1, InClearing
      <4>2. CASE s # t BY <1>1, <3>1, <4>2
      <4> QED BY <4>1, <4>2
    <3> QED BY <2>2, <3>1, StaysHeld
  <2> QED BY <2>3, <2>4
<1> QED BY <1>2, <1>3, <1>4, <1>5 DEF SignOutInv

LEMMA LoginHolds == ASSUME SignOutInv, NEW t \in Tab, Login(t) PROVE SignOutInv'
<1> Shape /\ OneAtATime
  BY DEF SignOutInv
<1>1. issued \in Nat /\ issued' \in Nat
  <2>1. Issue \/ UNCHANGED tokenVars BY DEF Login
  <2> QED BY <2>1 DEF Issue, Shape, tokenVars
<1>2. PICK v \in Requests : req' = [req EXCEPT ![t]["login"] = v]
  <2>1. issued + 1 \in Nat /\ NoToken \in Nat BY <1>1 DEF NoToken
  <2>2. Answer(t, "login", TRUE, issued + 1) \/ Answer(t, "login", FALSE, NoToken)
    BY DEF Login
  <2> QED BY <2>1, <2>2, RequestsKnown DEF Answer
<1>3. /\ req' \in [Tab -> [Kinds -> Requests]]
      /\ \A j \in Kinds \ {"login"} : req'[t][j] = req[t][j]
      /\ \A s \in Tab \ {t} : req'[s] = req[s]
  BY <1>2, RequestUpdate DEF Kinds
<1>4. closed' = FALSE /\ left' = FALSE /\ UNCHANGED <<jar, page, ended, stage, owed, inbox>>
  BY DEF Login, tabVars
<1>5. \A s \in Tab : stage[s] = "none"
  BY DEF Login, Free
<1>6. Shape' BY <1>1, <1>3, <1>4 DEF Shape
<1>7. OneAtATime' BY <1>3, <1>4, <1>5 DEF OneAtATime, Kinds
<1>8. AllTold' /\ SignOutHolds' BY <1>4, <1>5 DEF AllTold, Over, SignOutHolds
<1> QED BY <1>6, <1>7, <1>8 DEF SignOutInv

LEMMA SignOutHoldsStep == ASSUME SignOutInv, NEW t \in Tab, SignOut(t) PROVE SignOutInv'
<1> Shape /\ OneAtATime /\ AllTold /\ SignOutHolds
  BY DEF SignOutInv
<1>1. /\ \A s \in Tab : stage[s] = "none" /\ req[s]["login"] = Idle /\ req[s]["logout"] = Idle
      /\ page[t] = "app"
      /\ ended' = [ended EXCEPT ![t] = TRUE] /\ unaware' = unaware \ {t}
      /\ UNCHANGED <<issued, jar, page, owed, closed, left>>
  BY DEF SignOut, Free, Mark, Set, OneAtATime, tokenVars
<1>2. CASE AwaitsRenewal(t)
  <2>1. stage' = [stage EXCEPT ![t] = "waiting"] /\ inbox' = inbox /\ req' = req
    BY <1>2 DEF SignOut, Set
  <2>2. Shape' BY <1>1, <2>1 DEF Shape
  <2>3. OneAtATime' BY <1>1, <2>1 DEF OneAtATime, Shape
  <2>4. AllTold'
    <3>1. Over' => Over BY <1>1, <2>1 DEF Over, Shape
    <3>2. ASSUME NEW s \in Tab, Placed(s) /\ Accounted(s) PROVE (Placed(s) /\ Accounted(s))'
      <4>1. CASE s = t
        BY <1>1, <2>1, <4>1 DEF Placed, Accounted, Shape
      <4>2. CASE s # t
        BY <1>1, <2>1, <3>2, <4>2 DEF Placed, Accounted, InTheDark, Unheard, Shape
      <4> QED BY <4>1, <4>2
    <3> QED BY <3>1, <3>2, StaysTold
  <2>5. SignOutHolds' BY <1>1, <2>1, StaysHeld
  <2> QED BY <2>2, <2>3, <2>4, <2>5 DEF SignOutInv
<1>3. CASE ~AwaitsRenewal(t)
  <2>1. /\ stage' = [stage EXCEPT ![t] = "posting"]
        /\ Announce(t, "signed-out")
        /\ req' = [req EXCEPT ![t]["logout"] = Sent(jar)]
        /\ req[t]["refresh"] = Idle
    BY <1>3 DEF SignOut, Set, AwaitsRenewal
  <2>2. Sent(jar) \in Requests BY RequestsKnown DEF Shape
  <2>3. /\ req' \in [Tab -> [Kinds -> Requests]]
        /\ \A j \in Kinds \ {"logout"} : req'[t][j] = req[t][j]
        /\ \A s \in Tab \ {t} : req'[s] = req[s]
    BY <2>1, <2>2, RequestUpdate DEF Kinds
  <2>4. inbox' \in [Tab -> Seq(Messages)] /\ \A s \in Tab \ {t} : Unheard(s)'
    BY <2>1, Announced DEF Messages
  <2>5. Shape' BY <1>1, <2>1, <2>3, <2>4 DEF Shape
  <2>6. OneAtATime' BY <1>1, <2>1, <2>3 DEF OneAtATime, Shape, Kinds
  <2>7. AllTold'
    <3>1. \A s \in Tab \ {t} : (Placed(s) /\ Accounted(s))'
      BY <2>4 DEF Placed, Accounted, InTheDark
    <3>2. (Placed(t) /\ Accounted(t))'
      BY <1>1, <2>1, <2>3 DEF Placed, Accounted, Shape, Kinds
    <3> QED BY <3>1, <3>2 DEF AllTold
  <2>8. SignOutHolds'
    BY <1>1, <2>3, StaysHeld DEF Kinds
  <2> QED BY <2>5, <2>6, <2>7, <2>8 DEF SignOutInv
<1> QED BY <1>2, <1>3

LEMMA LandMeHolds == ASSUME SignOutInv, NEW t \in Tab, LandMe(t) PROVE SignOutInv'
<1> Shape /\ OneAtATime /\ AllTold /\ SignOutHolds
  BY DEF SignOutInv
<1>1. /\ req' \in [Tab -> [Kinds -> Requests]]
      /\ \A j \in Kinds \ {"me"} : req'[t][j] = req[t][j]
      /\ \A s \in Tab \ {t} : req'[s] = req[s]
  BY RequestsKnown, RequestUpdate DEF LandMe, Kinds
<1>2. UNCHANGED <<issued, jar, stage, owed, inbox, closed, left>>
  BY DEF LandMe, tokenVars
<1>3. /\ page' = page \/ page' = [page EXCEPT ![t] = GoToSignIn(t)]
      /\ \/ ended' = [ended EXCEPT ![t] = FALSE] /\ Lift(t) /\ page' = page
         \/ ended' = ended /\ unaware' = unaware
  BY DEF LandMe, Record, Set
<1>4. Shape' BY <1>1, <1>2, <1>3 DEF Shape, GoToSignIn
<1>5. OneAtATime'
  <2>1. ASSUME NEW s \in Tab, stage[s] # "none" PROVE ended'[s] \/ s \in unaware'
    BY <1>3, <2>1 DEF OneAtATime, Lift, Shape
  <2>2. \A s \in Tab : req'[s]["logout"] = req[s]["logout"] /\ req'[s]["login"] = req[s]["login"]
    BY <1>1 DEF Kinds
  <2> QED BY <1>2, <2>1, <2>2 DEF OneAtATime
<1>6. AllTold'
  <2>1. Over' => Over BY <1>2 DEF Over
  <2>2. ASSUME Over, NEW s \in Tab, Placed(s) /\ Accounted(s) PROVE (Placed(s) /\ Accounted(s))'
    <3>1. Unheard(s)' <=> Unheard(s) BY <1>2 DEF Unheard
    <3>2. InTheDark(s) => InTheDark(s)' BY <1>3, <3>1 DEF InTheDark, Lift
    <3>3. req'[s]["refresh"] = req[s]["refresh"] BY <1>1 DEF Kinds
    <3>4. Accounted(s)' BY <1>2, <2>2, <3>2, <3>3 DEF Accounted
    <3>5. page[s] = "login" => page'[s] = "login" BY <1>3 DEF GoToSignIn, Shape
    <3>6. ended[s] => ended'[s] \/ s \in unaware'
      BY <1>3, <2>2 DEF Lift, Over, Shape
    <3>7. Placed(s)' BY <2>2, <3>2, <3>5, <3>6 DEF Placed, InTheDark
    <3> QED BY <3>4, <3>7
  <2> QED BY <2>1, <2>2 DEF AllTold
<1>7. SignOutHolds'
  BY <1>1, <1>2, StaysHeld DEF Kinds
<1> QED BY <1>4, <1>5, <1>6, <1>7 DEF SignOutInv

\* What Settle does to the tab's requests.
LEMMA SettleRequests ==
  ASSUME Shape, NEW t \in Tab, NEW cookie \in Nat, NEW told, Settle(t, cookie, told)
  PROVE  /\ req' \in [Tab -> [Kinds -> Requests]]
         /\ req'[t]["refresh"] = Idle
         /\ req'[t]["logout"] = IF stage[t] = "waiting" THEN Sent(cookie) ELSE req[t]["logout"]
         /\ req'[t]["clear"] = IF owed[t] THEN Sent(cookie) ELSE req[t]["clear"]
         /\ req'[t]["login"] = req[t]["login"]
         /\ \A s \in Tab \ {t} : req'[s] = req[s]
<1>1. req \in [Tab -> [Kinds -> Requests]] /\ Sent(cookie) \in Requests /\ Idle \in Requests
  BY RequestsKnown DEF Shape
<1>2. req' = [req EXCEPT
        ![t]["refresh"] = Idle,
        ![t]["logout"] = IF stage[t] = "waiting" THEN Sent(cookie) ELSE req[t]["logout"],
        ![t]["clear"] = IF owed[t] THEN Sent(cookie) ELSE req[t]["clear"]]
  BY DEF Settle
<1> QED BY <1>1, <1>2 DEF Kinds

\* The end of a renewal.  `signedOut' of its tab is set by it, or stays as it was.
LEMMA SettleHolds ==
  ASSUME SignOutInv, NEW t \in Tab, NEW cookie \in Nat, NEW told \in BOOLEAN,
         Settle(t, cookie, told), req[t]["refresh"] # Idle, issued' \in Nat,
         page' \in [Tab -> {"app", "leaving", "login"}], ended' \in [Tab -> BOOLEAN],
         \A s \in Tab : page[s] = "login" => page'[s] = "login",
         \A s \in Tab \ {t} : ended'[s] = ended[s] /\ (s \in unaware' <=> s \in unaware),
         ended'[t] \/ (ended'[t] = ended[t] /\ (t \in unaware' <=> t \in unaware))
  PROVE  SignOutInv'
<1> Shape /\ OneAtATime /\ AllTold /\ SignOutHolds
  BY DEF SignOutInv
<1>1. /\ req' \in [Tab -> [Kinds -> Requests]]
      /\ req'[t]["refresh"] = Idle
      /\ req'[t]["logout"] = IF stage[t] = "waiting" THEN Sent(cookie) ELSE req[t]["logout"]
      /\ req'[t]["clear"] = IF owed[t] THEN Sent(cookie) ELSE req[t]["clear"]
      /\ req'[t]["login"] = req[t]["login"]
      /\ \A s \in Tab \ {t} : req'[s] = req[s]
  BY SettleRequests
<1>2. /\ jar' = cookie /\ closed' = closed
      /\ owed' = [owed EXCEPT ![t] = FALSE]
      /\ left' = IF cookie = jar THEN left
                 ELSE /\ closed /\ ~owed[t] /\ stage[t] # "waiting"
                      /\ InTheDark(t)
  BY DEF Settle, Set, InTheDark
<1>4. /\ inbox' \in [Tab -> Seq(Messages)]
      /\ \A s \in Tab : Unheard(s) => Unheard(s)'
      /\ stage[t] = "waiting" => \A s \in Tab \ {t} : Unheard(s)'
  <2>1. \/ Announce(t, "signed-out")
        \/ stage[t] # "waiting" /\ Announce(t, "signed-in")
        \/ stage[t] # "waiting" /\ inbox' = inbox
    BY DEF Settle
  <2>2. CASE inbox' = inbox /\ stage[t] # "waiting"
    BY <2>2 DEF Shape, Unheard
  <2> QED BY <2>1, <2>2, Announced DEF Messages
<1>5. stage' = IF stage[t] = "waiting" THEN [stage EXCEPT ![t] = "posting"] ELSE stage
  BY DEF Settle, Set
<1>6. Shape'
  BY <1>1, <1>2, <1>4, <1>5 DEF Shape, InTheDark, Unheard
<1>7. OneAtATime'
  <2>1. \A s \in Tab : stage'[s] # "none" <=> stage[s] # "none"
    BY <1>5 DEF Shape
  <2>2. \A s \in Tab : req'[s]["login"] = req[s]["login"]
    BY <1>1
  <2>3. ASSUME NEW s \in Tab, req'[s]["logout"] # Idle PROVE stage'[s] = "posting"
    BY <1>1, <1>5, <2>3 DEF OneAtATime, Shape
  <2>4. ASSUME NEW s \in Tab, stage'[s] # "none" PROVE ended'[s] \/ s \in unaware'
    BY <2>1, <2>4 DEF OneAtATime
  <2> QED BY <1>2, <2>1, <2>2, <2>3, <2>4 DEF OneAtATime
<1>8. AllTold'
  <2>1. Accounted(t)' BY <1>1 DEF Accounted
  <2>2. CASE stage[t] = "waiting"
    <3>1. \A s \in Tab \ {t} : (Placed(s) /\ Accounted(s))'
      BY <1>4, <2>2 DEF Placed, Accounted, InTheDark
    <3>2. Placed(t)'
      BY <2>2 DEF OneAtATime, Placed, InTheDark
    <3> QED BY <2>1, <3>1, <3>2 DEF AllTold
  <2>3. CASE stage[t] # "waiting"
    <3>1. Over' => Over BY <1>2, <1>5, <2>3 DEF Over
    <3>2. ASSUME NEW s \in Tab \ {t}, Placed(s), Accounted(s) PROVE (Placed(s) /\ Accounted(s))'
      <4>1. InTheDark(s) => InTheDark(s)' BY <1>4 DEF InTheDark
      <4>2. req'[s] = req[s] /\ owed'[s] = owed[s] /\ stage'[s] = stage[s]
        BY <1>1, <1>2, <1>5 DEF Shape
      <4> QED BY <3>2, <4>1, <4>2 DEF Placed, Accounted
    <3>3. Placed(t) => Placed(t)'
      BY <1>4 DEF Placed, InTheDark
    <3> QED BY <2>1, <3>1, <3>2, <3>3, StaysTold
  <2> QED BY <2>2, <2>3
<1>9. SignOutHolds'
  <2>1. Sent(cookie) # Idle /\ Sent(cookie).token = cookie
    BY RequestsKnown
  <2>2. CASE cookie = jar
    <3>1. ASSUME NEW s \in Tab, NEW k \in {"logout", "clear"}, req[s][k] # Idle, req[s][k].token = jar
          PROVE  req'[s][k] # Idle /\ req'[s][k].token = jar
      <4>1. CASE s = t /\ k = "logout" BY <1>1, <2>1, <2>2, <3>1, <4>1
      <4>2. CASE s = t /\ k = "clear" BY <1>1, <2>1, <2>2, <3>1, <4>2
      <4>3. CASE s # t BY <1>1, <3>1, <4>3
      <4> QED BY <4>1, <4>2, <4>3
    <3> QED BY <1>2, <2>2, <3>1, StaysHeld
  <2>3. CASE cookie # jar
    <3> SUFFICES ASSUME closed', ~left' PROVE \E s \in Tab : jar' \in Clearing(s)'
      BY DEF SignOutHolds
    <3>1. owed[t] \/ stage[t] = "waiting"
      BY <1>2, <2>3 DEF AllTold, Over, Accounted
    <3>2. \E k \in {"logout", "clear"} : req'[t][k] # Idle /\ req'[t][k].token = jar'
      BY <1>1, <1>2, <2>1, <3>1
    <3> QED BY <3>2, InClearing
  <2> QED BY <2>2, <2>3
<1> QED BY <1>6, <1>7, <1>8, <1>9 DEF SignOutInv

LEMMA RefreshFailsHolds == ASSUME SignOutInv, NEW t \in Tab, RefreshFails(t) PROVE SignOutInv'
<1> Shape BY DEF SignOutInv
<1>1. PICK cookie \in Nat : Settle(t, cookie, FALSE)
  <2>1. req[t]["refresh"].token \in Nat BY DEF Shape, Kinds, Requests
  <2> QED BY <2>1 DEF RefreshFails, Shape
<1>2. /\ req[t]["refresh"] # Idle /\ issued' \in Nat
      /\ page' = page /\ ended' = ended /\ unaware' = unaware
  BY DEF RefreshFails, Shape, tokenVars
<1> QED BY <1>1, <1>2, SettleHolds DEF Shape

LEMMA LandRefreshHolds == ASSUME SignOutInv, NEW t \in Tab, LandRefresh(t) PROVE SignOutInv'
<1> Shape BY DEF SignOutInv
<1> DEFINE cookie == IF req[t]["refresh"].ok THEN req[t]["refresh"].token ELSE jar
<1>1. cookie \in Nat /\ req[t]["refresh"] # Idle /\ issued' \in Nat
  <2>1. req[t]["refresh"].token \in Nat BY DEF Shape, Kinds, Requests
  <2> QED BY <2>1 DEF LandRefresh, Landed, Shape, Idle, tokenVars
<1>2. CASE ended[t]
  <2>1. Settle(t, cookie, FALSE) /\ UNCHANGED <<page, ended, unaware>>
    BY <1>2 DEF LandRefresh
  <2> HIDE DEF cookie
  <2> QED BY <1>1, <2>1, SettleHolds DEF Shape
<1>3. CASE ~ended[t] /\ ~req[t]["refresh"].ok
  <2>1. /\ Settle(t, cookie, FALSE)
        /\ ended' = [ended EXCEPT ![t] = TRUE]
        /\ unaware' = unaware \ {t}
        /\ page' = [page EXCEPT ![t] = GoToSignIn(t)]
    BY <1>3 DEF LandRefresh, Mark, Set
  <2>2. /\ page' \in [Tab -> {"app", "leaving", "login"}]
        /\ ended' \in [Tab -> BOOLEAN]
        /\ \A s \in Tab : page[s] = "login" => page'[s] = "login"
        /\ \A s \in Tab \ {t} : ended'[s] = ended[s] /\ (s \in unaware' <=> s \in unaware)
        /\ ended'[t]
    BY <2>1 DEF Shape, GoToSignIn
  <2> HIDE DEF cookie
  <2> QED BY <1>1, <2>1, <2>2, SettleHolds
<1>4. CASE ~ended[t] /\ req[t]["refresh"].ok
  <2>1. PICK told \in BOOLEAN : Settle(t, cookie, told)
    BY <1>4 DEF LandRefresh
  <2>2. ended' = [ended EXCEPT ![t] = FALSE] /\ page' = page /\ unaware' = unaware
    BY <1>4 DEF LandRefresh, Record, Set
  <2>3. ended' = ended
    BY <1>4, <2>2 DEF Shape
  <2> HIDE DEF cookie
  <2>4. page \in [Tab -> {"app", "leaving", "login"}] /\ ended \in [Tab -> BOOLEAN]
    BY DEF Shape
  <2> QED BY <1>1, <2>1, <2>2, <2>3, <2>4, SettleHolds
<1> QED BY <1>2, <1>3, <1>4

LEMMA LandLoginHolds == ASSUME SignOutInv, NEW t \in Tab, LandLogin(t) PROVE SignOutInv'
<1> Shape /\ OneAtATime
  BY DEF SignOutInv
<1>1. req[t]["login"] # Idle /\ closed = FALSE /\ \A s \in Tab : stage[s] = "none"
  <2>1. req[t]["login"] # Idle BY DEF LandLogin, Landed, Idle
  <2>2. ~closed /\ \A s \in Tab : stage[s] = "none" BY <2>1 DEF OneAtATime
  <2> QED BY <2>1, <2>2 DEF Shape
<1>2. /\ req' \in [Tab -> [Kinds -> Requests]]
      /\ \A j \in Kinds \ {"login"} : req'[t][j] = req[t][j]
      /\ req'[t]["login"] = Idle
      /\ \A s \in Tab \ {t} : req'[s] = req[s]
  BY RequestsKnown, RequestUpdate DEF LandLogin, Kinds
<1>3. UNCHANGED <<issued, stage, owed, closed, left>>
  BY DEF LandLogin, tokenVars
<1>4. /\ jar' \in Nat /\ page' \in [Tab -> {"app", "leaving", "login"}]
      /\ ended' \in [Tab -> BOOLEAN] /\ inbox' \in [Tab -> Seq(Messages)]
  <2>1. CASE ~req[t]["login"].ok
    BY <2>1 DEF LandLogin, Shape
  <2>2. CASE req[t]["login"].ok
    <3>1. inbox' \in [Tab -> Seq(Messages)]
      BY <2>2, Announced DEF LandLogin, Messages
    <3>2. req[t]["login"].token \in Nat BY DEF Shape, Kinds, Requests
    <3> QED BY <2>2, <3>1, <3>2 DEF LandLogin, Record, Set, Shape
  <2> QED BY <2>1, <2>2
<1>5. Shape' BY <1>2, <1>3, <1>4 DEF Shape
<1>6. OneAtATime' BY <1>1, <1>2, <1>3 DEF OneAtATime, Kinds
<1>7. AllTold' /\ SignOutHolds'
  BY <1>1, <1>3 DEF AllTold, Over, SignOutHolds
<1> QED BY <1>5, <1>6, <1>7 DEF SignOutInv

LEMMA LoseTypes == ASSUME Shape, NEW tokens, Lose(tokens) PROVE left' \in BOOLEAN
BY DEF Lose, Shape

\* The end of logout(): the cookie is gone, or the request failed.
LEMMA LogoutOver ==
  ASSUME SignOutInv, NEW t \in Tab, LandLogout(t) \/ LogoutFails(t)
  PROVE  /\ Shape' /\ OneAtATime' /\ AllTold'
         /\ \A j \in Kinds \ {"logout"} : req'[t][j] = req[t][j]
         /\ \A s \in Tab \ {t} : req'[s] = req[s]
<1> Shape /\ OneAtATime /\ AllTold
  BY DEF SignOutInv
<1>1. /\ req' \in [Tab -> [Kinds -> Requests]]
      /\ \A j \in Kinds \ {"logout"} : req'[t][j] = req[t][j]
      /\ req'[t]["logout"] = Idle
      /\ \A s \in Tab \ {t} : req'[s] = req[s]
  BY RequestsKnown, RequestUpdate DEF LandLogout, LogoutFails, Kinds
<1>2. /\ stage' = [stage EXCEPT ![t] = "none"]
      /\ page' = [page EXCEPT ![t] = AtSignIn(t)]
      /\ UNCHANGED <<issued, ended, owed, inbox, unaware>>
      /\ req[t]["logout"] # Idle
  BY DEF LandLogout, LogoutFails, Landed, Idle, Set, tokenVars
<1>3. jar' \in Nat /\ closed' \in BOOLEAN /\ left' \in BOOLEAN
  <2>1. CASE LandLogout(t) BY <2>1 DEF LandLogout, NoToken
  <2>2. CASE LogoutFails(t) BY <2>2, LoseTypes DEF LogoutFails, Shape
  <2> QED BY <2>1, <2>2
<1>4. stage[t] = "posting" BY <1>2 DEF OneAtATime
<1>5. Shape' BY <1>1, <1>2, <1>3 DEF Shape, AtSignIn
<1>6. \A s \in Tab : stage'[s] = "none"
  BY <1>2, <1>4 DEF OneAtATime, Shape
<1>7. \A s \in Tab : req'[s]["login"] = Idle /\ req'[s]["logout"] = Idle
  BY <1>1, <1>4 DEF OneAtATime, Kinds
<1>8. OneAtATime' BY <1>6, <1>7 DEF OneAtATime
<1>9. AllTold'
  <2>1. Over BY <1>4 DEF Over
  <2>2. ASSUME NEW s \in Tab, Placed(s), Accounted(s) PROVE (Placed(s) /\ Accounted(s))'
    <3>1. InTheDark(s)' <=> InTheDark(s) BY <1>2 DEF InTheDark, Unheard
    <3>2. req'[s]["refresh"] = req[s]["refresh"] BY <1>1 DEF Kinds
    <3>3. stage[s] # "waiting" BY <1>4 DEF OneAtATime
    <3>4. page[s] = "login" => page'[s] = "login" BY <1>2 DEF AtSignIn, Shape
    <3> QED BY <1>2, <2>2, <3>1, <3>2, <3>3, <3>4 DEF Placed, Accounted
  <2> QED BY <2>1, <2>2 DEF AllTold
<1> QED BY <1>1, <1>5, <1>8, <1>9

LEMMA LandLogoutHolds == ASSUME SignOutInv, NEW t \in Tab, LandLogout(t) PROVE SignOutInv'
<1>1. SignOutHolds' BY DEF LandLogout, SignOutHolds
<1> QED BY <1>1, LogoutOver DEF SignOutInv

LEMMA LogoutFailsHolds == ASSUME SignOutInv, NEW t \in Tab, LogoutFails(t) PROVE SignOutInv'
<1>1. /\ \A j \in Kinds \ {"logout"} : req'[t][j] = req[t][j]
      /\ \A s \in Tab \ {t} : req'[s] = req[s]
  BY LogoutOver
<1>2. jar' = jar /\ closed' = closed /\ left' = (left \/ (closed /\ jar = req[t]["logout"].token))
  BY DEF LogoutFails, Lose
<1>3. SignOutHolds'
  <2>1. CASE ~closed BY <1>2, <2>1 DEF SignOutHolds
  <2>2. CASE closed
    <3>1. ASSUME NEW s \in Tab, NEW k \in {"logout", "clear"}, req[s][k] # Idle, req[s][k].token = jar
          PROVE  left' \/ (req'[s][k] # Idle /\ req'[s][k].token = jar)
      BY <1>1, <1>2, <2>2, <3>1 DEF Kinds
    <3> QED BY <1>2, <3>1, StaysHeld DEF SignOutInv
  <2> QED BY <2>1, <2>2
<1> QED BY <1>3, LogoutOver DEF SignOutInv

\* The end of a POST that undoes a renewal: the cookie is gone, or it failed.
LEMMA ClearOver ==
  ASSUME SignOutInv, NEW t \in Tab, LandClear(t) \/ ClearFails(t)
  PROVE  SignOutInv'
<1> Shape /\ OneAtATime /\ AllTold /\ SignOutHolds
  BY DEF SignOutInv
<1>1. /\ req' \in [Tab -> [Kinds -> Requests]]
      /\ \A j \in Kinds \ {"clear"} : req'[t][j] = req[t][j]
      /\ \A s \in Tab \ {t} : req'[s] = req[s]
  BY RequestsKnown, RequestUpdate DEF LandClear, ClearFails, Kinds
<1>2. UNCHANGED <<issued, page, ended, stage, owed, inbox, closed, unaware>>
  BY DEF LandClear, ClearFails, tokenVars, tabVars
<1>3. \/ jar' = NoToken /\ left' = FALSE
      \/ jar' = jar /\ left' = (left \/ (closed /\ jar = req[t]["clear"].token))
  BY DEF LandClear, ClearFails, Lose
<1>4. Shape'
  <2>1. jar' \in Nat /\ left' \in BOOLEAN
    <3>1. CASE LandClear(t) BY <3>1 DEF LandClear, NoToken
    <3>2. CASE ClearFails(t) BY <3>2, LoseTypes DEF ClearFails, Shape
    <3> QED BY <3>1, <3>2
  <2> QED BY <1>1, <1>2, <2>1 DEF Shape
<1>5. OneAtATime' BY <1>1, <1>2 DEF OneAtATime, Kinds
<1>6. AllTold'
  <2>1. Over' => Over BY <1>2 DEF Over
  <2>2. \A s \in Tab : Placed(s) => Placed(s)'
    BY <1>2 DEF Placed, InTheDark, Unheard
  <2>3. \A s \in Tab : Accounted(s) => Accounted(s)'
    BY <1>1, <1>2 DEF Accounted, InTheDark, Unheard, Kinds
  <2> QED BY <2>1, <2>2, <2>3, StaysTold
<1>7. SignOutHolds'
  <2>1. CASE ~closed \/ jar' = NoToken BY <1>2, <2>1 DEF SignOutHolds
  <2>2. CASE closed /\ jar' # NoToken
    <3>1. ASSUME NEW s \in Tab, NEW k \in {"logout", "clear"}, req[s][k] # Idle, req[s][k].token = jar
          PROVE  left' \/ (req'[s][k] # Idle /\ req'[s][k].token = jar)
      BY <1>1, <1>3, <2>2, <3>1 DEF Kinds
    <3> QED BY <1>2, <1>3, <2>2, <3>1, StaysHeld
  <2> QED BY <2>1, <2>2
<1> QED BY <1>4, <1>5, <1>6, <1>7 DEF SignOutInv

LEMMA DeliverHolds == ASSUME SignOutInv, NEW t \in Tab, Deliver(t) PROVE SignOutInv'
<1> Shape /\ OneAtATime /\ AllTold /\ SignOutHolds
  BY DEF SignOutInv
<1>1. /\ inbox[t] \in Seq(Messages) /\ inbox[t] # <<>>
      /\ inbox' = [inbox EXCEPT ![t] = Tail(inbox[t])]
      /\ UNCHANGED <<issued, jar, stage, req, closed, left>>
  BY DEF Deliver, Set, Shape, tokenVars
<1>2. Tail(inbox[t]) \in Seq(Messages) BY <1>1
<1>3. SignOutHolds' BY <1>1, StaysHeld
<1>4. \A s \in Tab \ {t} : Unheard(s)' <=> Unheard(s)
  BY <1>1, UnheardIsTold DEF Shape
<1>5. CASE Head(inbox[t]) = "signed-out"
  <2>1. /\ ended' = [ended EXCEPT ![t] = TRUE] /\ unaware' = unaware \ {t}
        /\ owed' = [owed EXCEPT ![t] = Owes(t)]
        /\ page' = [page EXCEPT ![t] = GoToSignIn(t)]
    BY <1>5 DEF Deliver, Mark, Set
  <2>2. Owes(t) \in BOOLEAN /\ (req[t]["refresh"] # Idle => Owes(t))
    BY DEF Owes, Shape
  <2>3. Shape' BY <1>1, <1>2, <2>1, <2>2 DEF Shape, GoToSignIn
  <2>4. OneAtATime' BY <1>1, <2>1 DEF OneAtATime, Shape
  <2>5. AllTold'
    <3>1. Over' => Over BY <1>1 DEF Over
    <3>2. (Placed(t) /\ Accounted(t))'
      BY <1>1, <2>1, <2>2 DEF Placed, Accounted, Shape
    <3>3. ASSUME NEW s \in Tab \ {t}, Placed(s), Accounted(s) PROVE (Placed(s) /\ Accounted(s))'
      BY <1>1, <1>4, <2>1, <3>3 DEF Placed, Accounted, InTheDark, Shape
    <3> QED BY <3>1, <3>2, <3>3, StaysTold
  <2> QED BY <1>3, <2>3, <2>4, <2>5 DEF SignOutInv
<1>6. CASE Head(inbox[t]) # "signed-out"
  <2>1. ended' = [ended EXCEPT ![t] = FALSE] /\ Lift(t) /\ UNCHANGED <<owed, page>>
    BY <1>6 DEF Deliver, Set
  <2>2. Shape' BY <1>1, <1>2, <2>1 DEF Shape
  <2>3. OneAtATime'
    <3>1. ASSUME NEW s \in Tab, stage[s] # "none" PROVE ended'[s] \/ s \in unaware'
      BY <2>1, <3>1 DEF OneAtATime, Lift, Shape
    <3> QED BY <1>1, <3>1 DEF OneAtATime
  <2>4. AllTold'
    <3>1. Over' => Over BY <1>1 DEF Over
    <3>2. \A s \in Tab : Unheard(s) => Unheard(s)'
      <4>1. Unheard(t) => Unheard(t)'
        BY <1>1, <1>6, Tailed, UnheardIsTold DEF Shape
      <4> QED BY <1>4, <4>1
    <3>3. ASSUME Over, NEW s \in Tab, Placed(s), Accounted(s) PROVE (Placed(s) /\ Accounted(s))'
      <4>1. InTheDark(s) => InTheDark(s)' BY <2>1, <3>2 DEF InTheDark, Lift
      <4>2. ended[s] => ended'[s] \/ s \in unaware'
        BY <2>1, <3>3 DEF Lift, Over, Shape
      <4> QED BY <1>1, <2>1, <3>3, <4>1, <4>2 DEF Placed, Accounted, InTheDark
    <3> QED BY <3>1, <3>3 DEF AllTold
  <2> QED BY <1>3, <2>2, <2>3, <2>4 DEF SignOutInv
<1> QED BY <1>5, <1>6

LEMMA NavigateHolds == ASSUME SignOutInv, NEW t \in Tab, Navigate(t) PROVE SignOutInv'
<1> Shape /\ OneAtATime /\ AllTold /\ SignOutHolds
  BY DEF SignOutInv
<1>1. /\ req' \in [Tab -> [Kinds -> Requests]]
      /\ \A k \in Kinds : req'[t][k] = Idle
      /\ \A s \in Tab \ {t} : req'[s] = req[s]
  BY RequestsGone DEF Navigate
<1>2. /\ page' = [page EXCEPT ![t] = "login"]
      /\ ended' = [ended EXCEPT ![t] = FALSE]
      /\ unaware' = unaware \ {t}
      /\ stage' = [stage EXCEPT ![t] = "none"]
      /\ owed' = [owed EXCEPT ![t] = FALSE]
      /\ inbox' = [inbox EXCEPT ![t] = <<>>]
      /\ UNCHANGED <<issued, jar, closed>>
      /\ left' = (left \/ (closed /\ jar \in Clearing(t)))
  BY DEF Navigate, Mark, Set, Lose, tokenVars
<1>3. Shape' BY <1>1, <1>2 DEF Shape
<1>4. OneAtATime'
  <2>1. stage'[t] = "none" /\ \A s \in Tab \ {t} : stage'[s] = stage[s] /\ ended'[s] = ended[s]
    BY <1>2 DEF Shape
  <2>2. req'[t]["login"] = Idle /\ req'[t]["logout"] = Idle
    BY <1>1 DEF Kinds
  <2>3. \A s \in Tab : stage'[s] # "none" => stage[s] # "none" /\ s # t
    BY <2>1
  <2>4. \A s \in Tab : req'[s]["login"] # Idle => req[s]["login"] # Idle
    BY <1>1, <2>2
  <2>5. \A s \in Tab : req'[s]["logout"] # Idle => req[s]["logout"] # Idle /\ s # t
    BY <1>1, <2>2
  <2>6. \A s \in Tab : stage'[s] # "none" => ended'[s] \/ s \in unaware'
    BY <1>2, <2>1, <2>3 DEF OneAtATime
  <2>7. \A s \in Tab : req'[s]["logout"] # Idle => stage'[s] = "posting"
    BY <2>1, <2>5 DEF OneAtATime
  <2>8. \A s \in Tab : req'[s]["login"] # Idle => ~closed' /\ \A u \in Tab : stage'[u] = "none"
    BY <1>2, <2>3, <2>4 DEF OneAtATime
  <2> QED BY <2>3, <2>6, <2>7, <2>8 DEF OneAtATime
<1>5. AllTold'
  <2>1. Over' => Over BY <1>2 DEF Over, Shape
  <2>2. (Placed(t) /\ Accounted(t))'
    BY <1>1, <1>2 DEF Placed, Accounted, Shape, Kinds
  <2>3. ASSUME NEW s \in Tab \ {t}, Placed(s), Accounted(s) PROVE (Placed(s) /\ Accounted(s))'
    BY <1>1, <1>2, <2>3 DEF Placed, Accounted, InTheDark, Unheard, Shape
  <2> QED BY <2>1, <2>2, <2>3, StaysTold
<1>6. SignOutHolds'
  <2>1. CASE ~closed BY <1>2, <2>1 DEF SignOutHolds
  <2>2. CASE closed
    <3>1. ASSUME NEW s \in Tab, NEW k \in {"logout", "clear"}, req[s][k] # Idle, req[s][k].token = jar
          PROVE  left' \/ (req'[s][k] # Idle /\ req'[s][k].token = jar)
      <4>1. CASE s = t
        <5>1. jar \in Clearing(t) BY <3>1, <4>1, InClearing
        <5> QED BY <1>2, <2>2, <5>1
      <4>2. CASE s # t BY <1>1, <3>1, <4>2
      <4> QED BY <4>1, <4>2
    <3> QED BY <1>2, <3>1, StaysHeld
  <2> QED BY <2>1, <2>2
<1> QED BY <1>3, <1>4, <1>5, <1>6 DEF SignOutInv

LEMMA SignOutInvInit == Init => SignOutInv
<1> SUFFICES ASSUME Init PROVE SignOutInv
  OBVIOUS
<1>1. <<>> \in Seq(Messages) /\ Idle \in Requests BY RequestsKnown
<1>2. Shape BY <1>1 DEF Init, TokenInit, Shape, NoToken
<1>3. OneAtATime BY DEF Init, OneAtATime, Kinds
<1>4. AllTold BY DEF Init, AllTold, Over
<1>5. SignOutHolds BY DEF Init, SignOutHolds
<1> QED BY <1>2, <1>3, <1>4, <1>5 DEF SignOutInv

LEMMA SignOutInvStep == SignOutInv /\ [Next]_vars => SignOutInv'
<1> SUFFICES ASSUME SignOutInv, [Next]_vars PROVE SignOutInv'
  OBVIOUS
<1>1. CASE BffSteps BY <1>1, BffHolds
<1>2. ASSUME NEW t \in Tab,
             Open(t) \/ Probe(t) \/ FallDue(t) \/ Tick(t) \/ Login(t) \/ SignOut(t)
      PROVE  SignOutInv'
  BY <1>2, OpenHolds, ProbeHolds, StillHolds, TickHolds, LoginHolds, SignOutHoldsStep
<1>3. ASSUME NEW t \in Tab, Bff(t) PROVE SignOutInv'
  BY <1>3, HandleRefreshHolds, HandleLogoutHolds DEF Bff
<1>4. ASSUME NEW t \in Tab, Lands(t) PROVE SignOutInv'
  BY <1>4, LandMeHolds, LandRefreshHolds, LandLoginHolds, LandLogoutHolds, ClearOver DEF Lands
<1>5. ASSUME NEW t \in Tab, Fails(t) PROVE SignOutInv'
  BY <1>5, RefreshFailsHolds, LogoutFailsHolds, ClearOver DEF Fails
<1>6. ASSUME NEW t \in Tab, Deliver(t) \/ Navigate(t) PROVE SignOutInv'
  BY <1>6, DeliverHolds, NavigateHolds
<1>7. CASE UNCHANGED vars
  BY <1>7, NothingMoves DEF vars, tokenVars, tabVars, SignOutInv, Shape
<1> QED BY <1>1, <1>2, <1>3, <1>4, <1>5, <1>6, <1>7 DEF Next

\* A renewal that lands after a sign-out does not undo it (session.ts,
\* `signedOut' and `renewing'; the channel's listener): for any number of tabs,
\* tokens and messages on their way, however slow any of them is, and whichever
\* request fails.  Once a sign-out has completed the browser keeps a cookie only
\* while the POST that clears it is under way, or where SignOutHolds says that
\* session.ts leaves one.
THEOREM SignOutStays == Spec => []SignOutHolds
<1>1. SignOutInv => SignOutHolds BY DEF SignOutInv
<1> QED BY <1>1, SignOutInvInit, SignOutInvStep, PTL DEF Spec

-----------------------------------------------------------------------------
(***************************************************************************)
(* The sign-in.  For any accounts, attempts and limits: a failure is       *)
(* remembered until as many others have failed as the Map holds, and more  *)
(* wrong passwords than lock an account and can be under way take at least *)
(* LOGIN_LOCK_BASE_MS.  The arguments: in the Map stand, after an entry,   *)
(* only accounts that failed since, so the first one is dropped when there *)
(* are enough of them; and from the failure that locks an account to the   *)
(* end of its lock no attempt begins, so what may still be counted is what *)
(* was under way.                                                          *)
(***************************************************************************)

FailRecords == [key : Account, count : Nat, last : Nat, until : Nat]
TryRecords == [key : Account, ok : BOOLEAN, at : Nat]

SignInTypeOK ==
  /\ signInTime \in Nat
  /\ failures \in Seq(FailRecords) /\ Len(failures) <= FailKeys
  /\ hashing \in [Attempt -> Account \cup {NoAccount}]
  /\ tried \in Seq(TryRecords)
  /\ \A i \in 1..Len(tried) : tried[i].at <= signInTime

OneEntryEach == \A m, n \in 1..Len(failures) : failures[m].key = failures[n].key => m = n

\* The answers of an account from one of its failures on, and its attempts.
SinceThen(i) == {n \in i..Len(tried) : tried[n].key = tried[i].key}
FailedSince(i) == FailedBetween(tried[i].key, i, Len(tried))
Trying(k) == {a \in Attempt : hashing[a] = k}

\* Nothing was right since, and the others that failed have room in the Map.
Standing(i) ==
  /\ \A n \in SinceThen(i) : ~tried[n].ok
  /\ Cardinality(FailedSince(i)) < FailKeys

\* What the entry of the account says of the failures from the i-th answer on.
\* While LOGIN_LOCK_BASE_MS have not passed: they are counted, and once they are
\* enough to lock the account, it is locked and no attempt begins.
Tells(e, i) ==
  /\ e.last >= tried[i].at
  /\ SinceThen(i) = {i} => e.last = tried[i].at
  /\ signInTime < tried[i].at + LockBase =>
       /\ e.count >= Cardinality(SinceThen(i))
       /\ Cardinality(SinceThen(i)) >= LockAfter =>
            /\ e.until >= tried[i].at + LockBase
            /\ Cardinality(SinceThen(i)) + Cardinality(Trying(tried[i].key)) < LockAfter + Cardinality(Attempt)

Remembered(i) ==
  \E n \in Entries(tried[i].key) :
    /\ Tells(failures[n], i)
    /\ \A m \in n + 1..Len(failures) : failures[m].key \in FailedSince(i)

LockInv ==
  /\ SignInTypeOK /\ OneEntryEach
  /\ \A i \in 1..Len(tried) : Standing(i) => Remembered(i)

-----------------------------------------------------------------------------
(* Powers of two, and the wait.                                            *)

LEMMA PowerIsNatural == ASSUME NEW n \in Nat PROVE 2 ^ n \in Nat /\ 2 ^ n >= 1
<1> DEFINE S == 1..n
<1>1. IsFiniteSet(S) /\ Cardinality(S) = n
  BY FS_Interval
<1> HIDE DEF S
<1>2. IsFiniteSet(SUBSET S) /\ Cardinality(SUBSET S) = 2 ^ n
  BY <1>1, FS_SUBSET
<1>3. Cardinality(SUBSET S) \in Nat /\ SUBSET S # {}
  BY <1>2, FS_CardinalityType
<1>4. Cardinality(SUBSET S) # 0
  BY <1>2, <1>3, FS_EmptySet
<1> QED BY <1>2, <1>3, <1>4

LEMMA FailedBetweenIsFinite ==
  ASSUME NEW k, NEW i \in Int, NEW j \in Int
  PROVE  IsFiniteSet(FailedBetween(k, i, j)) /\ Cardinality(FailedBetween(k, i, j)) \in Nat
<1> DEFINE M == {m \in i..j : ~tried[m].ok}
<1>1. IsFiniteSet(M)
  BY FS_Interval, FS_Subset
<1> HIDE DEF M
<1>2. IsFiniteSet({tried[n].key : n \in M})
  BY <1>1, ImageIsFinite
<1>3. IsFiniteSet({tried[n].key : n \in M} \ {k})
  BY <1>2, FS_Subset
<1> QED BY <1>3, FS_CardinalityType DEF FailedBetween, M

LEMMA LockForWaits ==
  ASSUME NEW count \in Nat, signInTime \in Nat
  PROVE  LockFor(count) \in Nat /\ (count >= LockAfter => LockFor(count) >= signInTime + LockBase)
<1>1. CASE count < LockAfter
  BY <1>1, SignInAssumption DEF LockFor
<1>2. CASE ~(count < LockAfter)
  <2> DEFINE p == 2 ^ (count - LockAfter)
  <2>1. p \in Nat /\ p >= 1
    <3>1. count - LockAfter \in Nat
      BY <1>2, SignInAssumption
    <3> QED BY <3>1, PowerIsNatural
  <2>2. LockFor(count) = signInTime + IF LockBase * p < LockMax THEN LockBase * p ELSE LockMax
    BY <1>2 DEF LockFor
  <2> HIDE DEF p
  <2>3. LockBase * p \in Nat /\ LockBase * p >= LockBase
    BY <2>1, SignInAssumption, Z3
  <2> DEFINE wait == LockBase * p
  <2> HIDE DEF wait
  <2>4. wait \in Nat /\ wait >= LockBase /\ LockFor(count) = signInTime + IF wait < LockMax THEN wait ELSE LockMax
    BY <2>2, <2>3 DEF wait
  <2> QED BY <2>4, SignInAssumption
<1> QED BY <1>1, <1>2

-----------------------------------------------------------------------------
(* The Map.                                                                *)

\* Deleting the entry of an account: the others are there, in their order.
LEMMA OthersAreKept ==
  ASSUME LockInv, NEW k
  PROVE  /\ Others(k) \in Seq(FailRecords) /\ Len(Others(k)) <= Len(failures)
         /\ \A n \in 1..Len(Others(k)) : Others(k)[n].key # k
         /\ \A m, n \in 1..Len(Others(k)) : Others(k)[m].key = Others(k)[n].key => m = n
         /\ \A n \in 1..Len(failures) : failures[n].key # k =>
              \E p \in 1..Len(Others(k)) :
                /\ Others(k)[p] = failures[n]
                /\ \A q \in p + 1..Len(Others(k)) :
                     \E m \in n + 1..Len(failures) : Others(k)[q] = failures[m]
<1> DEFINE places == {i \in 1..Len(failures) : failures[i].key # k}
           o == Others(k)
<1>1. failures \in Seq(FailRecords) /\ Len(failures) \in Nat
  BY DEF LockInv, SignInTypeOK
<1>2. PICK at \in [1..Cardinality(places) -> places] :
        /\ IsFiniteSet(places) /\ Cardinality(places) \in Nat
        /\ o \in Seq(FailRecords) /\ Len(o) = Cardinality(places)
        /\ \A n \in 1..Len(o) : o[n] = failures[at[n]]
        /\ \A m, n \in 1..Len(o) : m < n => at[m] < at[n]
        /\ \A i \in places : \E n \in 1..Len(o) : at[n] = i
  <2>1. places \in SUBSET (1..Len(failures))
    OBVIOUS
  <2>2. o = KeptEntries(failures, places)
    BY DEF Others
  <2> HIDE DEF places, o
  <2>3. o \in Seq(FailRecords) /\ \E at : TakenFrom(failures, places, o, at)
    BY <1>1, <2>1, <2>2, KeptProperties
  <2> QED BY <2>3 DEF TakenFrom
<1>3. Cardinality(places) <= Len(failures)
  <2>1. IsFiniteSet(1..Len(failures)) /\ Cardinality(1..Len(failures)) = Len(failures)
    BY <1>1, FS_Interval
  <2> QED BY <2>1, FS_Subset
<1> HIDE DEF o
<1>4. ASSUME NEW n \in 1..Len(o) PROVE at[n] \in 1..Len(failures) /\ o[n].key # k
  BY <1>2
<1>5. ASSUME NEW m \in 1..Len(o), NEW n \in 1..Len(o), o[m].key = o[n].key PROVE m = n
  <2>1. at[m] = at[n]
    BY <1>2, <1>4, <1>5 DEF LockInv, OneEntryEach
  <2>2. at[m] \in Nat /\ at[n] \in Nat /\ m \in Nat /\ n \in Nat
    <3>1. Len(o) \in Nat
      BY <1>2
    <3> QED BY <1>1, <1>4, <3>1
  <2>3. (m < n => at[m] < at[n]) /\ (n < m => at[n] < at[m])
    BY <1>2
  <2> QED BY <2>1, <2>2, <2>3
<1>6. ASSUME NEW n \in 1..Len(failures), failures[n].key # k
      PROVE  \E p \in 1..Len(o) :
               /\ o[p] = failures[n]
               /\ \A q \in p + 1..Len(o) : \E m \in n + 1..Len(failures) : o[q] = failures[m]
  <2>1. PICK p \in 1..Len(o) : at[p] = n
    BY <1>2, <1>6
  <2>2. o[p] = failures[n]
    BY <1>2, <2>1
  <2>3. ASSUME NEW q \in p + 1..Len(o) PROVE \E m \in n + 1..Len(failures) : o[q] = failures[m]
    <3>1. q \in 1..Len(o) /\ p < q
      BY <1>2
    <3>2. n < at[q] /\ at[q] \in 1..Len(failures) /\ o[q] = failures[at[q]]
      BY <1>2, <1>4, <2>1, <3>1
    <3>3. at[q] \in n + 1..Len(failures)
      BY <1>1, <3>2
    <3> QED BY <3>2, <3>3
  <2> QED BY <2>2, <2>3
<1> QED BY <1>2, <1>3, <1>4, <1>5, <1>6 DEF o

LEMMA CountIsKnown ==
  ASSUME LockInv, NEW k, NEW n \in Entries(k)
  PROVE  CountOf(k) = 1 + IF signInTime - failures[n].last < FailTtl THEN failures[n].count ELSE 0
<1>1. Entries(k) = {n}
  BY DEF LockInv, OneEntryEach, Entries
<1>2. {failures[i] : i \in Entries(k)} = {failures[n]}
  BY <1>1
<1>3. (CHOOSE e \in {failures[i] : i \in Entries(k)} : TRUE) = failures[n]
  BY <1>2
<1> QED BY <1>1, <1>3 DEF CountOf

LEMMA CountIsPositive == ASSUME LockInv, NEW k PROVE CountOf(k) \in Nat /\ CountOf(k) >= 1
<1>1. CASE Entries(k) = {}
  BY <1>1 DEF CountOf
<1>2. ASSUME NEW n \in Entries(k) PROVE CountOf(k) \in Nat /\ CountOf(k) >= 1
  <2>1. failures \in Seq(FailRecords) /\ n \in 1..Len(failures)
    BY DEF LockInv, SignInTypeOK, Entries
  <2>2. failures[n] \in FailRecords
    BY <2>1
  <2>3. failures[n].count \in Nat
    BY <2>2 DEF FailRecords
  <2>4. CountOf(k) = 1 + IF signInTime - failures[n].last < FailTtl THEN failures[n].count ELSE 0
    BY CountIsKnown
  <2> QED BY <2>3, <2>4
<1> QED BY <1>1, <1>2

\* A failure goes to the end of the Map; only the first entry may be dropped.
LEMMA FailOfMap ==
  ASSUME LockInv, NEW k \in Account
  PROVE  /\ Fail(k) \in Seq(FailRecords) /\ Len(Fail(k)) <= FailKeys /\ Len(Fail(k)) >= 1
         /\ Fail(k)[Len(Fail(k))] = Recorded(k)
         /\ \A m, n \in 1..Len(Fail(k)) : Fail(k)[m].key = Fail(k)[n].key => m = n
         /\ \A F : \A n \in 1..Len(failures) :
              /\ failures[n].key # k /\ k \in F
              /\ \A m \in n + 1..Len(failures) : failures[m].key \in F
              /\ IsFiniteSet(F) /\ Cardinality(F) < FailKeys
              => \E p \in 1..Len(Fail(k)) :
                   /\ Fail(k)[p] = failures[n]
                   /\ \A q \in p + 1..Len(Fail(k)) : Fail(k)[q].key \in F
<1> DEFINE o == Others(k)
           r == Recorded(k)
           put == Append(o, r)
           L == Len(o)
<1>1. r \in FailRecords /\ r.key = k
  <2>1. signInTime \in Nat /\ CountOf(k) \in Nat
    BY CountIsPositive DEF LockInv, SignInTypeOK
  <2>2. LockFor(CountOf(k)) \in Nat
    BY <2>1, LockForWaits
  <2> QED BY <2>1, <2>2 DEF Recorded, FailRecords
<1>2. /\ o \in Seq(FailRecords) /\ L \in Nat /\ L <= FailKeys
      /\ \A n \in 1..L : o[n].key # k
      /\ \A m, n \in 1..L : o[m].key = o[n].key => m = n
  <2>1. failures \in Seq(FailRecords) /\ Len(failures) \in Nat /\ Len(failures) <= FailKeys
    BY DEF LockInv, SignInTypeOK
  <2>2. o \in Seq(FailRecords) /\ L <= Len(failures)
    BY OthersAreKept
  <2>3. L \in Nat
    BY <2>2
  <2>4. /\ \A n \in 1..L : o[n].key # k
        /\ \A m, n \in 1..L : o[m].key = o[n].key => m = n
    BY OthersAreKept
  <2> HIDE DEF o, L
  <2>5. L <= FailKeys
    BY <2>1, <2>2, <2>3, SignInAssumption
  <2> QED BY <2>2, <2>3, <2>4, <2>5
<1>3. ASSUME NEW n \in 1..Len(failures), failures[n].key # k
      PROVE  \E p \in 1..L :
               /\ o[p] = failures[n]
               /\ \A q \in p + 1..L : \E m \in n + 1..Len(failures) : o[q] = failures[m]
  BY <1>3, OthersAreKept
<1> HIDE DEF o, r
<1>4. /\ put \in Seq(FailRecords) /\ Len(put) = L + 1 /\ put[L + 1] = r
      /\ \A n \in 1..L : put[n] = o[n]
  BY <1>1, <1>2
<1> HIDE DEF put, L
<1>5. \A m, n \in 1..L + 1 : put[m].key = put[n].key => m = n
  BY <1>1, <1>2, <1>4
<1>6. Fail(k) = IF L + 1 > FailKeys THEN Tail(put) ELSE put
  BY <1>4 DEF Fail, put, o, r
<1>7. ASSUME NEW n \in 1..Len(failures), NEW F, failures[n].key # k, k \in F,
             \A m \in n + 1..Len(failures) : failures[m].key \in F,
             IsFiniteSet(F), Cardinality(F) < FailKeys
      PROVE  \E p \in 1..L + 1 :
               /\ put[p] = failures[n] /\ (L + 1 > FailKeys => p # 1)
               /\ \A q \in p + 1..L + 1 : put[q].key \in F
  <2>1. PICK p \in 1..L :
          /\ o[p] = failures[n]
          /\ \A q \in p + 1..L : \E m \in n + 1..Len(failures) : o[q] = failures[m]
    BY <1>3, <1>7
  <2>2. \A q \in p + 1..L + 1 : put[q].key \in F
    <3> SUFFICES ASSUME NEW q \in p + 1..L + 1 PROVE put[q].key \in F
      OBVIOUS
    <3>1. CASE q = L + 1
      BY <1>1, <1>4, <1>7, <3>1
    <3>2. CASE q # L + 1
      <4>1. q \in p + 1..L /\ q \in 1..L
        BY <1>2, <3>2
      <4> QED BY <1>4, <1>7, <2>1, <4>1
    <3> QED BY <3>1, <3>2
  <2>3. L + 1 > FailKeys => p # 1
    <3> SUFFICES ASSUME L + 1 > FailKeys, p = 1 PROVE FALSE
      OBVIOUS
    <3> DEFINE f == [q \in 2..L + 1 |-> put[q].key]
    <3>1. f \in [2..L + 1 -> F]
      BY <2>2
    <3>2. \A x, y \in 2..L + 1 : f[x] = f[y] => x = y
      BY <1>2, <1>5
    <3> HIDE DEF f
    <3>3. f \in Injection(2..L + 1, F)
      BY <3>1, <3>2 DEF Injection, IsInjective
    <3>4. Cardinality(2..L + 1) <= Cardinality(F)
      BY <1>7, <3>3, FS_Injection
    <3>5. Cardinality(2..L + 1) = L
      <4>1. L >= 1
        BY <1>2
      <4> QED BY <1>2, <4>1, FS_Interval
    <3>6. Cardinality(F) \in Nat
      BY <1>7, FS_CardinalityType
    <3> QED BY <1>2, <1>7, <3>4, <3>5, <3>6, SignInAssumption
  <2>4. p \in 1..L + 1 /\ put[p] = failures[n]
    BY <1>2, <1>4, <2>1
  <2> QED BY <2>2, <2>3, <2>4
<1>8. CASE L + 1 > FailKeys
  <2> DEFINE t == Tail(put)
  <2>1. t \in Seq(FailRecords) /\ Len(t) = L /\ \A n \in 1..L : t[n] = put[n + 1]
    BY <1>2, <1>4
  <2>2. L >= 1 /\ L <= FailKeys /\ L \in Nat
    BY <1>2, <1>8, SignInAssumption
  <2> HIDE DEF t
  <2>3. t[L] = r
    BY <1>4, <2>1, <2>2
  <2>4. \A m, n \in 1..L : t[m].key = t[n].key => m = n
    BY <1>5, <2>1, <2>2
  <2>5. ASSUME NEW n \in 1..Len(failures), NEW F, failures[n].key # k, k \in F,
               \A m \in n + 1..Len(failures) : failures[m].key \in F,
               IsFiniteSet(F), Cardinality(F) < FailKeys
        PROVE  \E p \in 1..L :
                 /\ t[p] = failures[n]
                 /\ \A q \in p + 1..L : t[q].key \in F
    <3>1. PICK p \in 1..L + 1 :
            /\ put[p] = failures[n] /\ p # 1
            /\ \A q \in p + 1..L + 1 : put[q].key \in F
      BY <1>7, <1>8, <2>5
    <3>2. p - 1 \in 1..L /\ t[p - 1] = failures[n]
      BY <2>1, <2>2, <3>1
    <3>3. ASSUME NEW q \in (p - 1) + 1..L PROVE t[q].key \in F
      <4>1. q + 1 \in p + 1..L + 1 /\ q \in 1..L
        BY <2>2
      <4> QED BY <2>1, <3>1, <4>1
    <3> QED BY <3>2, <3>3
  <2>6. Fail(k) = t
    BY <1>6, <1>8 DEF t
  <2> QED BY <2>1, <2>2, <2>3, <2>4, <2>5, <2>6 DEF r
<1>9. CASE ~(L + 1 > FailKeys)
  <2>1. Fail(k) = put /\ L + 1 <= FailKeys /\ L + 1 >= 1
    BY <1>2, <1>6, <1>9, SignInAssumption
  <2> QED BY <1>4, <1>5, <1>7, <2>1 DEF r
<1> QED BY <1>8, <1>9

-----------------------------------------------------------------------------
(* The steps.                                                              *)

LEMMA CountsAreNatural ==
  ASSUME LockInv, NEW i \in 1..Len(tried), NEW k
  PROVE  /\ Len(tried) \in Nat /\ tried[i] \in TryRecords
         /\ i \in SinceThen(i) /\ IsFiniteSet(SinceThen(i)) /\ Cardinality(SinceThen(i)) \in Nat
         /\ IsFiniteSet(FailedSince(i)) /\ Cardinality(FailedSince(i)) \in Nat
         /\ IsFiniteSet(Trying(k)) /\ Cardinality(Trying(k)) \in Nat
         /\ Cardinality(Attempt) \in Nat /\ Cardinality(Trying(k)) <= Cardinality(Attempt)
<1>1. tried \in Seq(TryRecords)
  BY DEF LockInv, SignInTypeOK
<1>2. Len(tried) \in Nat /\ i \in Int /\ tried[i] \in TryRecords
  BY <1>1
<1>3. i \in SinceThen(i) /\ SinceThen(i) \subseteq i..Len(tried)
  BY <1>2 DEF SinceThen
<1>4. IsFiniteSet(SinceThen(i)) /\ Cardinality(SinceThen(i)) \in Nat
  <2>1. IsFiniteSet(i..Len(tried))
    BY <1>2, FS_Interval
  <2>2. IsFiniteSet(SinceThen(i))
    BY <1>3, <2>1, FS_Subset
  <2> QED BY <2>2, FS_CardinalityType
<1>5. IsFiniteSet(FailedSince(i)) /\ Cardinality(FailedSince(i)) \in Nat
  BY <1>2, FailedBetweenIsFinite DEF FailedSince
<1>6. Trying(k) \subseteq Attempt /\ IsFiniteSet(Attempt)
  BY SignInAssumption DEF Trying
<1>7. /\ IsFiniteSet(Trying(k)) /\ Cardinality(Trying(k)) \in Nat
      /\ Cardinality(Attempt) \in Nat /\ Cardinality(Trying(k)) <= Cardinality(Attempt)
  BY <1>6, FS_Subset, FS_CardinalityType
<1> QED BY <1>2, <1>3, <1>4, <1>5, <1>7

\* What an answer adds to what is said of the earlier ones.
LEMMA AnswerAdds ==
  ASSUME LockInv, NEW a \in Attempt, NEW ok \in BOOLEAN, hashing[a] # NoAccount, Answered(a, ok)
  PROVE  /\ hashing[a] \in Account /\ signInTime' = signInTime
         /\ hashing' \in [Attempt -> Account \cup {NoAccount}]
         /\ tried' \in Seq(TryRecords) /\ Len(tried') = Len(tried) + 1
         /\ tried'[Len(tried) + 1] = [key |-> hashing[a], ok |-> ok, at |-> signInTime]
         /\ \A i \in 1..Len(tried) : tried'[i] = tried[i]
         /\ \A i \in 1..Len(tried) :
              /\ SinceThen(i)' = IF tried[i].key = hashing[a] THEN SinceThen(i) \cup {Len(tried) + 1}
                                 ELSE SinceThen(i)
              /\ FailedSince(i)' = IF ok \/ tried[i].key = hashing[a] THEN FailedSince(i)
                                   ELSE FailedSince(i) \cup {hashing[a]}
         /\ \A i : i = Len(tried) + 1 => SinceThen(i)' = {i}
         /\ \A q \in Account : Trying(q)' = Trying(q) \ {a}
<1> DEFINE k == hashing[a]
           L == Len(tried)
           r == [key |-> k, ok |-> ok, at |-> signInTime]
<1>1. k \in Account /\ hashing \in [Attempt -> Account \cup {NoAccount}] /\ signInTime \in Nat
  BY DEF LockInv, SignInTypeOK
<1>2. tried \in Seq(TryRecords) /\ L \in Nat
  BY DEF LockInv, SignInTypeOK
<1>3. r \in TryRecords /\ r.key = k /\ r.ok = ok /\ r.at = signInTime
  BY <1>1 DEF TryRecords
<1>4. tried' = Append(tried, r) /\ hashing' = [hashing EXCEPT ![a] = NoAccount] /\ signInTime' = signInTime
  BY DEF Answered
<1>5. /\ tried' \in Seq(TryRecords) /\ Len(tried') = L + 1 /\ tried'[L + 1] = r
      /\ \A i \in 1..L : tried'[i] = tried[i]
  BY <1>2, <1>3, <1>4
<1>6. hashing' \in [Attempt -> Account \cup {NoAccount}]
  BY <1>1, <1>4
<1>7. ASSUME NEW q \in Account PROVE Trying(q)' = Trying(q) \ {a}
  <2>1. q # NoAccount
    BY SignInAssumption DEF NoAccount
  <2> QED BY <1>1, <1>4, <2>1 DEF Trying
<1> HIDE DEF k, L, r
<1>8. ASSUME NEW i, i = L + 1 PROVE SinceThen(i)' = {i}
  <2>1. i..L + 1 = {i} /\ i \in i..L + 1
    BY <1>2, <1>8
  <2> QED BY <1>5, <1>8, <2>1 DEF SinceThen
<1>9. ASSUME NEW i \in 1..L
      PROVE  /\ SinceThen(i)' = IF tried[i].key = k THEN SinceThen(i) \cup {L + 1} ELSE SinceThen(i)
             /\ FailedSince(i)' = IF ok \/ tried[i].key = k THEN FailedSince(i) ELSE FailedSince(i) \cup {k}
  <2>1. i..L + 1 = (i..L) \cup {L + 1} /\ i..L \subseteq 1..L /\ L + 1 \notin i..L
    BY <1>2
  <2>2. SinceThen(i)' = {n \in i..L + 1 : tried'[n].key = tried[i].key}
    BY <1>5 DEF SinceThen
  <2>3. SinceThen(i) = {n \in i..L : tried[n].key = tried[i].key}
    BY DEF SinceThen, L
  <2>4. SinceThen(i)' = IF tried[i].key = k THEN SinceThen(i) \cup {L + 1} ELSE SinceThen(i)
    BY <1>3, <1>5, <2>1, <2>2, <2>3
  <2> DEFINE M == {m \in i..L : ~tried[m].ok}
             M2 == {m \in i..L + 1 : ~tried'[m].ok}
  <2>5. M2 = IF ok THEN M ELSE M \cup {L + 1}
    BY <1>3, <1>5, <2>1
  <2>6. M \subseteq 1..L
    BY <2>1
  <2>7. FailedSince(i) = {tried[n].key : n \in M} \ {tried[i].key}
    BY DEF FailedSince, FailedBetween, L
  <2>8. FailedSince(i)' = {tried'[n].key : n \in M2} \ {tried[i].key}
    BY <1>5 DEF FailedSince, FailedBetween
  <2> HIDE DEF M, M2
  <2>9. {tried'[n].key : n \in M} = {tried[n].key : n \in M}
    BY <1>5, <2>6
  <2>10. {tried'[n].key : n \in M \cup {L + 1}} = {tried[n].key : n \in M} \cup {k}
    BY <1>3, <1>5, <2>6
  <2>11. CASE ok
    BY <2>4, <2>5, <2>7, <2>8, <2>9, <2>11
  <2>12. CASE ~ok
    BY <2>4, <2>5, <2>7, <2>8, <2>10, <2>12
  <2> QED BY <2>11, <2>12
<1> QED BY <1>1, <1>4, <1>5, <1>6, <1>7, <1>8, <1>9 DEF k, L, r

LEMMA AnswerTypes ==
  ASSUME LockInv, NEW a \in Attempt, NEW ok \in BOOLEAN, hashing[a] # NoAccount, Answered(a, ok),
         failures' \in Seq(FailRecords), Len(failures') <= FailKeys
  PROVE  SignInTypeOK'
<1>1. /\ hashing' \in [Attempt -> Account \cup {NoAccount}] /\ signInTime' = signInTime
      /\ tried' \in Seq(TryRecords) /\ Len(tried') = Len(tried) + 1
      /\ tried'[Len(tried) + 1] = [key |-> hashing[a], ok |-> ok, at |-> signInTime]
      /\ \A i \in 1..Len(tried) : tried'[i] = tried[i]
  BY AnswerAdds
<1>2. /\ signInTime \in Nat /\ Len(tried) \in Nat
      /\ \A i \in 1..Len(tried) : tried[i].at <= signInTime
  BY DEF LockInv, SignInTypeOK
<1>3. tried'[Len(tried) + 1].at = signInTime
  BY <1>1
<1>4. \A i \in 1..Len(tried') : tried'[i].at <= signInTime'
  BY <1>1, <1>2, <1>3
<1> QED BY <1>1, <1>2, <1>4 DEF SignInTypeOK

LEMMA TryRemembers == ASSUME LockInv, NEW a \in Attempt, NEW k \in Account, Try(a, k) PROVE LockInv'
<1>1. /\ hashing[a] = NoAccount /\ ~Locked(k) /\ hashing' = [hashing EXCEPT ![a] = k]
      /\ signInTime' = signInTime /\ failures' = failures /\ tried' = tried
  BY DEF Try
<1>2. SignInTypeOK' /\ OneEntryEach'
  BY <1>1 DEF LockInv, SignInTypeOK, OneEntryEach
<1>3. ASSUME NEW i \in 1..Len(tried'), Standing(i)' PROVE Remembered(i)'
  <2>1. i \in 1..Len(tried) /\ Standing(i)
    BY <1>1, <1>3 DEF Standing, SinceThen, FailedSince, FailedBetween
  <2>2. PICK n \in Entries(tried[i].key) :
          /\ Tells(failures[n], i)
          /\ \A m \in n + 1..Len(failures) : failures[m].key \in FailedSince(i)
    BY <2>1 DEF LockInv, Remembered
  <2>3. Tells(failures[n], i)'
    <3> DEFINE q == tried[i].key
    <3>1. tried[i] \in TryRecords /\ n \in 1..Len(failures)
      BY <2>1, CountsAreNatural DEF Entries
    <3>2. q \in Account /\ tried[i].at \in Nat /\ failures[n] \in FailRecords /\ signInTime \in Nat
      BY <3>1 DEF TryRecords, LockInv, SignInTypeOK
    <3>3. SinceThen(i)' = SinceThen(i) /\ tried'[i] = tried[i] /\ failures'[n] = failures[n]
      BY <1>1 DEF SinceThen
    <3>4. CASE q # k
      <4>1. q # NoAccount
        BY <3>2, SignInAssumption DEF NoAccount
      <4>2. Trying(q)' = Trying(q)
        BY <1>1, <3>4, <4>1 DEF Trying, LockInv, SignInTypeOK
      <4> QED BY <1>1, <2>2, <3>3, <4>2 DEF Tells
    <3>5. CASE q = k /\ ~(failures[n].until >= tried[i].at + LockBase)
      BY <1>1, <2>2, <3>3, <3>5 DEF Tells
    <3>6. CASE q = k /\ failures[n].until >= tried[i].at + LockBase
      <4>1. ~(failures[n].until > signInTime)
        BY <1>1, <2>2, <3>6 DEF Locked
      <4>2. failures[n].until \in Nat
        BY <3>2 DEF FailRecords
      <4>3. ~(signInTime < tried[i].at + LockBase)
        BY <3>2, <3>6, <4>1, <4>2, SignInAssumption
      <4> QED BY <1>1, <2>2, <3>3, <4>3 DEF Tells
    <3> QED BY <3>4, <3>5, <3>6
  <2>4. /\ n \in Entries(tried[i].key)'
        /\ \A m \in n + 1..Len(failures') : failures'[m].key \in FailedSince(i)'
    BY <1>1, <2>2 DEF Entries, FailedSince, FailedBetween
  <2> QED BY <2>3, <2>4 DEF Remembered
<1> QED BY <1>2, <1>3 DEF LockInv

LEMMA WaitRemembers == ASSUME LockInv, SignInWait PROVE LockInv'
<1>1. /\ signInTime' = signInTime + 1 /\ signInTime \in Nat
      /\ failures' = failures /\ hashing' = hashing /\ tried' = tried
  BY DEF SignInWait, LockInv, SignInTypeOK
<1>2. SignInTypeOK'
  <2>1. \A i \in 1..Len(tried) : tried[i].at \in Nat /\ tried[i].at <= signInTime
    <3>1. tried \in Seq(TryRecords) /\ \A i \in 1..Len(tried) : tried[i].at <= signInTime
      BY DEF LockInv, SignInTypeOK
    <3>2. \A i \in 1..Len(tried) : tried[i] \in TryRecords
      BY <3>1
    <3> QED BY <3>1, <3>2 DEF TryRecords
  <2>2. \A i \in 1..Len(tried) : tried[i].at <= signInTime + 1
    BY <1>1, <2>1
  <2> QED BY <1>1, <2>2 DEF LockInv, SignInTypeOK
<1>3. OneEntryEach'
  BY <1>1 DEF LockInv, OneEntryEach
<1>4. ASSUME NEW i \in 1..Len(tried'), Standing(i)' PROVE Remembered(i)'
  <2>1. i \in 1..Len(tried) /\ Standing(i)
    BY <1>1, <1>4 DEF Standing, SinceThen, FailedSince, FailedBetween
  <2>2. PICK n \in Entries(tried[i].key) :
          /\ Tells(failures[n], i)
          /\ \A m \in n + 1..Len(failures) : failures[m].key \in FailedSince(i)
    BY <2>1 DEF LockInv, Remembered
  <2>3. SinceThen(i)' = SinceThen(i) /\ \A q : Trying(q)' = Trying(q)
    BY <1>1 DEF SinceThen, Trying
  <2>4. signInTime' < tried[i].at + LockBase => signInTime < tried[i].at + LockBase
    <3>1. tried[i].at \in Nat
      BY <2>1, CountsAreNatural DEF TryRecords
    <3> QED BY <1>1, <3>1, SignInAssumption
  <2>5. Tells(failures[n], i)'
    BY <1>1, <2>2, <2>3, <2>4 DEF Tells
  <2>6. /\ n \in Entries(tried[i].key)'
        /\ \A m \in n + 1..Len(failures') : failures'[m].key \in FailedSince(i)'
    BY <1>1, <2>2 DEF Entries, FailedSince, FailedBetween
  <2> QED BY <2>5, <2>6 DEF Remembered
<1> QED BY <1>2, <1>3, <1>4 DEF LockInv

\* An answer for one account leaves what an entry says of the others.
LEMMA AnswerTells ==
  ASSUME LockInv, NEW a \in Attempt, NEW ok \in BOOLEAN, hashing[a] # NoAccount, Answered(a, ok),
         NEW i \in 1..Len(tried), tried[i].key # hashing[a], Standing(i)',
         NEW n \in Entries(tried[i].key), NEW p \in 1..Len(failures'),
         Tells(failures[n], i), failures'[p] = failures[n],
         \A q \in p + 1..Len(failures') : failures'[q].key \in FailedSince(i)'
  PROVE  Remembered(i)'
<1>1. /\ signInTime' = signInTime /\ tried'[i] = tried[i]
      /\ SinceThen(i)' = SinceThen(i) /\ tried[i].key \in Account
      /\ \A q \in Account : Trying(q)' = Trying(q) \ {a}
  BY AnswerAdds, CountsAreNatural DEF TryRecords
<1>2. Trying(tried[i].key)' = Trying(tried[i].key)
  BY <1>1 DEF Trying
<1>3. Tells(failures[p], i)'
  BY <1>1, <1>2 DEF Tells
<1>4. p \in Entries(tried[i].key)'
  BY <1>1 DEF Entries
<1> QED BY <1>1, <1>3, <1>4 DEF Remembered

LEMMA RightRemembers == ASSUME LockInv, NEW a \in Attempt, RightPassword(a) PROVE LockInv'
<1> DEFINE k == hashing[a]
           L == Len(tried)
<1>1. k # NoAccount /\ failures' = Others(k) /\ Answered(a, TRUE)
  BY DEF RightPassword
<1>2. SignInTypeOK' /\ OneEntryEach'
  <2>1. /\ failures' \in Seq(FailRecords) /\ Len(failures') <= Len(failures)
        /\ \A m, n \in 1..Len(failures') : failures'[m].key = failures'[n].key => m = n
    BY <1>1, OthersAreKept
  <2>2. Len(failures') \in Nat /\ Len(failures) \in Nat /\ Len(failures) <= FailKeys
    BY <2>1 DEF LockInv, SignInTypeOK
  <2>3. SignInTypeOK'
    <3>1. Len(failures') <= FailKeys
      BY <2>1, <2>2, SignInAssumption
    <3>2. failures' \in Seq(FailRecords) /\ TRUE \in BOOLEAN
      BY <2>1
    <3> QED BY <1>1, <3>1, <3>2, AnswerTypes, Zenon
  <2> QED BY <2>1, <2>3 DEF OneEntryEach
<1>3. ASSUME NEW i \in 1..Len(tried'), Standing(i)' PROVE Remembered(i)'
  <2>1. /\ L \in Nat /\ Len(tried') = L + 1
        /\ tried'[L + 1] = [key |-> k, ok |-> TRUE, at |-> signInTime]
        /\ \A j \in 1..L : tried'[j] = tried[j]
        /\ \A j \in 1..L :
             /\ SinceThen(j)' = IF tried[j].key = k THEN SinceThen(j) \cup {L + 1} ELSE SinceThen(j)
             /\ FailedSince(j)' = FailedSince(j)
        /\ i = L + 1 => SinceThen(i)' = {i}
    <3>1. L \in Nat
      BY DEF LockInv, SignInTypeOK
    <3>2. TRUE \in BOOLEAN
      OBVIOUS
    <3>3. /\ Len(tried') = L + 1
          /\ tried'[L + 1] = [key |-> k, ok |-> TRUE, at |-> signInTime]
          /\ \A j \in 1..L : tried'[j] = tried[j]
          /\ \A j \in 1..L :
               /\ SinceThen(j)' = IF tried[j].key = k THEN SinceThen(j) \cup {L + 1} ELSE SinceThen(j)
               /\ FailedSince(j)' = IF TRUE \/ tried[j].key = k THEN FailedSince(j)
                                    ELSE FailedSince(j) \cup {k}
          /\ \A j : j = L + 1 => SinceThen(j)' = {j}
      BY <1>1, <3>2, AnswerAdds, Zenon
    <3> QED BY <3>1, <3>3
  <2>2. L + 1 \notin SinceThen(i)'
    BY <1>3, <2>1 DEF Standing
  <2>3. i \in 1..L /\ tried[i].key # k
    <3>1. i \in 1..L + 1
      BY <2>1
    <3>2. i # L + 1
      BY <2>1, <2>2
    <3>3. i \in 1..L
      BY <2>1, <3>1, <3>2
    <3> QED BY <2>1, <2>2, <3>3
  <2>4. Standing(i)
    BY <1>3, <2>1, <2>2, <2>3 DEF Standing, SinceThen
  <2>5. PICK n \in Entries(tried[i].key) :
          /\ Tells(failures[n], i)
          /\ \A m \in n + 1..Len(failures) : failures[m].key \in FailedSince(i)
    BY <2>3, <2>4 DEF LockInv, Remembered
  <2>6. n \in 1..Len(failures) /\ failures[n].key # k
    BY <2>3, <2>5 DEF Entries
  <2>7. PICK p \in 1..Len(failures') :
          /\ failures'[p] = failures[n]
          /\ \A q \in p + 1..Len(failures') : \E m \in n + 1..Len(failures) : failures'[q] = failures[m]
    <3>1. \E p \in 1..Len(Others(k)) :
            /\ Others(k)[p] = failures[n]
            /\ \A q \in p + 1..Len(Others(k)) : \E m \in n + 1..Len(failures) : Others(k)[q] = failures[m]
      BY <2>6, OthersAreKept
    <3>2. failures' = Others(k)
      BY <1>1
    <3> QED BY <3>1, <3>2
  <2>8. \A q \in p + 1..Len(failures') : failures'[q].key \in FailedSince(i)'
    BY <2>1, <2>3, <2>5, <2>7
  <2> HIDE DEF k, L
  <2> QED BY <1>1, <1>3, <2>3, <2>5, <2>7, <2>8, AnswerTells DEF k, L
<1> QED BY <1>2, <1>3 DEF LockInv

\* One more of an account's failures: one more counted, one attempt less.
LEMMA FailureTells ==
  ASSUME LockInv, NEW a \in Attempt, hashing[a] # NoAccount, Answered(a, FALSE),
         failures' = Fail(hashing[a]), NEW i \in 1..Len(tried), tried[i].key = hashing[a], Standing(i)'
  PROVE  Remembered(i)'
<1>0. PICK k \in Account : k = hashing[a]
  BY AnswerAdds
<1> DEFINE L == Len(tried)
           c == Cardinality(SinceThen(i))
           at == tried[i].at
<1>1. /\ signInTime' = signInTime /\ tried'[i] = tried[i]
      /\ Len(tried') = L + 1
      /\ SinceThen(i)' = SinceThen(i) \cup {L + 1} /\ FailedSince(i)' = FailedSince(i)
      /\ Trying(k)' = Trying(k) \ {a} /\ \A j \in 1..L : tried'[j] = tried[j]
  <2>1. FALSE \in BOOLEAN
    OBVIOUS
  <2>2. /\ hashing[a] \in Account /\ signInTime' = signInTime
        /\ hashing' \in [Attempt -> Account \cup {NoAccount}]
        /\ tried' \in Seq(TryRecords) /\ Len(tried') = Len(tried) + 1
        /\ tried'[Len(tried) + 1] = [key |-> hashing[a], ok |-> FALSE, at |-> signInTime]
        /\ \A j \in 1..Len(tried) : tried'[j] = tried[j]
        /\ \A j \in 1..Len(tried) :
             /\ SinceThen(j)' = IF tried[j].key = hashing[a] THEN SinceThen(j) \cup {Len(tried) + 1}
                                ELSE SinceThen(j)
             /\ FailedSince(j)' = IF FALSE \/ tried[j].key = hashing[a] THEN FailedSince(j)
                                  ELSE FailedSince(j) \cup {hashing[a]}
        /\ \A j : j = Len(tried) + 1 => SinceThen(j)' = {j}
        /\ \A q \in Account : Trying(q)' = Trying(q) \ {a}
    BY <2>1, AnswerAdds, Zenon
  <2> QED BY <1>0, <2>2
<1>2. /\ L \in Nat /\ i \in SinceThen(i) /\ IsFiniteSet(SinceThen(i)) /\ c \in Nat
      /\ IsFiniteSet(Trying(k)) /\ Cardinality(Trying(k)) \in Nat
      /\ Cardinality(Attempt) \in Nat /\ Cardinality(Trying(k)) <= Cardinality(Attempt)
      /\ at \in Nat /\ signInTime \in Nat /\ at <= signInTime
  <2>1. tried[i] \in TryRecords
    BY CountsAreNatural
  <2>2. at \in Nat
    BY <2>1 DEF TryRecords
  <2> QED BY <2>2, CountsAreNatural DEF LockInv, SignInTypeOK
<1>3. L + 1 \notin SinceThen(i)
  BY <1>2 DEF SinceThen
<1>4. Cardinality(SinceThen(i)') = c + 1 /\ SinceThen(i)' # {i}
  <2>1. Cardinality(SinceThen(i) \cup {L + 1}) = c + 1
    BY <1>2, <1>3, FS_AddElement
  <2> QED BY <1>1, <1>2, <1>3, <2>1
<1>5. Cardinality(Trying(k)') = Cardinality(Trying(k)) - 1
  <2>1. a \in Trying(k)
    BY <1>0 DEF Trying
  <2>2. Cardinality(Trying(k) \ {a}) = Cardinality(Trying(k)) - 1
    BY <1>2, <2>1, FS_RemoveElement
  <2> QED BY <1>1, <2>2
<1>6. Standing(i)
  <2>1. ASSUME NEW m \in SinceThen(i) PROVE ~tried[m].ok
    <3>1. m \in SinceThen(i)' /\ m \in 1..L
      BY <1>1, <1>2 DEF SinceThen
    <3> QED BY <1>1, <3>1 DEF Standing
  <2> QED BY <1>1, <2>1 DEF Standing
<1>7. PICK n \in Entries(k) :
        /\ Tells(failures[n], i)
        /\ \A m \in n + 1..Len(failures) : failures[m].key \in FailedSince(i)
  BY <1>0, <1>6 DEF LockInv, Remembered
<1>8. failures[n].last \in Nat /\ failures[n].count \in Nat /\ failures[n].last >= at
  <2>1. failures \in Seq(FailRecords) /\ n \in 1..Len(failures)
    BY DEF LockInv, SignInTypeOK, Entries
  <2>2. failures[n] \in FailRecords
    BY <2>1
  <2> QED BY <1>7, <2>2 DEF FailRecords, Tells
<1> DEFINE e == Recorded(k)
<1>9. PICK p \in Nat :
        /\ p = Len(failures') /\ p >= 1 /\ failures'[p] = e /\ e.key = k /\ e.last = signInTime
        /\ e.count = CountOf(k) /\ e.until = LockFor(CountOf(k))
  <2>1. failures' \in Seq(FailRecords) /\ Len(failures') >= 1 /\ failures'[Len(failures')] = e
    BY <1>0, FailOfMap
  <2>2. Len(failures') \in Nat
    BY <2>1
  <2> QED BY <2>1, <2>2 DEF Recorded
<1> HIDE DEF e, c, at, L
<1>10. ASSUME signInTime < at + LockBase PROVE CountOf(k) = failures[n].count + 1 /\ failures[n].count >= c
  <2>1. signInTime - failures[n].last < FailTtl
    BY <1>2, <1>8, <1>10, SignInAssumption
  <2>2. CountOf(k) = 1 + failures[n].count
    BY <2>1, CountIsKnown
  <2>3. failures[n].count >= c
    BY <1>7, <1>10 DEF Tells, c, at
  <2> QED BY <1>8, <2>2, <2>3
<1>11. ASSUME signInTime < at + LockBase, c + 1 >= LockAfter
       PROVE  /\ e.until >= at + LockBase
              /\ c + 1 + (Cardinality(Trying(k)) - 1) < LockAfter + Cardinality(Attempt)
  <2>1. CountOf(k) \in Nat /\ CountOf(k) >= LockAfter
    <3>1. CountOf(k) = failures[n].count + 1 /\ failures[n].count >= c
      BY <1>10, <1>11
    <3>2. LockAfter \in Nat
      BY SignInAssumption
    <3> DEFINE n0 == failures[n].count
               total == CountOf(k)
    <3>3. n0 \in Nat /\ total = n0 + 1 /\ n0 >= c /\ c \in Nat /\ c + 1 >= LockAfter
      BY <1>2, <1>8, <1>11, <3>1
    <3> HIDE DEF n0, total
    <3>4. total \in Nat /\ total >= LockAfter
      BY <3>2, <3>3
    <3> QED BY <3>4 DEF total
  <2>2. LockFor(CountOf(k)) \in Nat /\ LockFor(CountOf(k)) >= signInTime + LockBase
    BY <1>2, <2>1, LockForWaits
  <2>3. e.until >= at + LockBase
    BY <1>2, <1>9, <2>2, SignInAssumption
  <2>4. CASE c >= LockAfter
    <3>1. c + Cardinality(Trying(k)) < LockAfter + Cardinality(Attempt)
      BY <1>0, <1>7, <1>11, <2>4 DEF Tells, c, at
    <3> QED BY <1>2, <2>3, <3>1, SignInAssumption
  <2>5. CASE ~(c >= LockAfter)
    BY <1>2, <1>11, <2>3, <2>5, SignInAssumption
  <2> QED BY <2>4, <2>5
<1>12. Tells(failures[p], i)'
  <2>1. e.last >= at
    BY <1>2, <1>9
  <2>2. signInTime < at + LockBase => e.count >= c + 1
    BY <1>2, <1>8, <1>9, <1>10
  <2>3. tried'[i].key = k /\ tried'[i].at = at /\ tried'[i] = tried[i]
    BY <1>0, <1>1 DEF at
  <2>4. Trying(tried[i].key)' = Trying(k)'
    BY <2>3 DEF Trying
  <2>5. (signInTime < at + LockBase)' <=> signInTime < at + LockBase
    BY <1>1, <2>3 DEF at
  <2>6. failures[p]' = e
    BY <1>9
  <2>7. /\ failures[p]'.last >= tried'[i].at
        /\ SinceThen(i)' # {i}
        /\ signInTime' < tried'[i].at + LockBase =>
             /\ failures[p]'.count >= Cardinality(SinceThen(i)')
             /\ Cardinality(SinceThen(i)') >= LockAfter =>
                  /\ failures[p]'.until >= tried'[i].at + LockBase
                  /\ Cardinality(SinceThen(i)') + Cardinality(Trying(tried[i].key)') < LockAfter + Cardinality(Attempt)
    BY <1>1, <1>4, <1>5, <1>11, <2>1, <2>2, <2>3, <2>4, <2>6
  <2> QED BY <2>7 DEF Tells
<1>13. p \in Entries(tried[i].key)'
  BY <1>0, <1>1, <1>9 DEF Entries
<1>14. \A m \in p + 1..Len(failures') : failures'[m].key \in FailedSince(i)'
  <2>1. p + 1..Len(failures') = {}
    BY <1>9
  <2> QED BY <2>1
<1> QED BY <1>12, <1>13, <1>14 DEF Remembered

LEMMA WrongRemembers == ASSUME LockInv, NEW a \in Attempt, WrongPassword(a) PROVE LockInv'
<1>1. hashing[a] # NoAccount /\ failures' = Fail(hashing[a]) /\ Answered(a, FALSE) /\ FALSE \in BOOLEAN
  BY DEF WrongPassword
<1>2. /\ hashing[a] \in Account /\ signInTime' = signInTime
      /\ hashing' \in [Attempt -> Account \cup {NoAccount}]
      /\ tried' \in Seq(TryRecords) /\ Len(tried') = Len(tried) + 1
      /\ tried'[Len(tried) + 1] = [key |-> hashing[a], ok |-> FALSE, at |-> signInTime]
      /\ \A i \in 1..Len(tried) : tried'[i] = tried[i]
      /\ \A i \in 1..Len(tried) :
           /\ SinceThen(i)' = IF tried[i].key = hashing[a] THEN SinceThen(i) \cup {Len(tried) + 1}
                              ELSE SinceThen(i)
           /\ FailedSince(i)' = IF FALSE \/ tried[i].key = hashing[a] THEN FailedSince(i)
                                ELSE FailedSince(i) \cup {hashing[a]}
      /\ \A i : i = Len(tried) + 1 => SinceThen(i)' = {i}
      /\ \A q \in Account : Trying(q)' = Trying(q) \ {a}
  BY <1>1, AnswerAdds, Zenon
<1>3. PICK k \in Account : k = hashing[a]
  BY <1>2
<1> DEFINE L == Len(tried)
<1>4. /\ L \in Nat /\ signInTime \in Nat /\ hashing \in [Attempt -> Account \cup {NoAccount}]
      /\ tried'[L + 1].key = k /\ tried'[L + 1].at = signInTime
  BY <1>2, <1>3 DEF LockInv, SignInTypeOK
<1>5. /\ failures' \in Seq(FailRecords) /\ Len(failures') <= FailKeys /\ Len(failures') >= 1
      /\ failures'[Len(failures')] = Recorded(k)
      /\ \A m, n \in 1..Len(failures') : failures'[m].key = failures'[n].key => m = n
      /\ \A F : \A n \in 1..Len(failures) :
           /\ failures[n].key # k /\ k \in F
           /\ \A m \in n + 1..Len(failures) : failures[m].key \in F
           /\ IsFiniteSet(F) /\ Cardinality(F) < FailKeys
           => \E p \in 1..Len(failures') :
                /\ failures'[p] = failures[n]
                /\ \A q \in p + 1..Len(failures') : failures'[q].key \in F
  <2>1. failures' = Fail(k)
    BY <1>1, <1>3
  <2>2. /\ Fail(k) \in Seq(FailRecords) /\ Len(Fail(k)) <= FailKeys /\ Len(Fail(k)) >= 1
        /\ Fail(k)[Len(Fail(k))] = Recorded(k)
        /\ \A m, n \in 1..Len(Fail(k)) : Fail(k)[m].key = Fail(k)[n].key => m = n
        /\ \A F : \A n \in 1..Len(failures) :
             /\ failures[n].key # k /\ k \in F
             /\ \A m \in n + 1..Len(failures) : failures[m].key \in F
             /\ IsFiniteSet(F) /\ Cardinality(F) < FailKeys
             => \E p \in 1..Len(Fail(k)) :
                  /\ Fail(k)[p] = failures[n]
                  /\ \A q \in p + 1..Len(Fail(k)) : Fail(k)[q].key \in F
    BY FailOfMap, Zenon
  <2> DEFINE f == Fail(k)
  <2>3. failures' = f
    BY <2>1
  <2> HIDE DEF f
  <2> QED BY <2>2, <2>3 DEF f
<1>6. SignInTypeOK' /\ OneEntryEach'
  <2>1. SignInTypeOK'
    BY <1>1, <1>5, AnswerTypes, Zenon
  <2> QED BY <1>5, <2>1 DEF OneEntryEach
<1>7. ASSUME NEW i \in 1..Len(tried'), Standing(i)', i = L + 1 PROVE Remembered(i)'
  <2>1. PICK p \in Nat : p = Len(failures') /\ p >= 1 /\ failures'[p] = Recorded(k)
    BY <1>5
  <2>2. /\ Recorded(k).last = signInTime /\ Recorded(k).count = CountOf(k) /\ Recorded(k).key = k
        /\ Recorded(k).until = LockFor(CountOf(k))
    BY DEF Recorded
  <2>3. CountOf(k) \in Nat /\ CountOf(k) >= 1
    BY CountIsPositive
  <2>4. CountOf(k) >= LockAfter => LockFor(CountOf(k)) >= signInTime + LockBase
    BY <1>4, <2>3, LockForWaits
  <2>5. SinceThen(i)' = {i} /\ Cardinality({i}) = 1
    BY <1>2, <1>7, FS_Singleton
  <2>6. /\ Trying(k)' = Trying(k) \ {a} /\ Cardinality(Trying(k) \ {a}) \in Nat
        /\ Cardinality(Trying(k) \ {a}) + 1 <= Cardinality(Attempt) /\ Cardinality(Attempt) \in Nat
    <3>1. Trying(k)' = Trying(k) \ {a} /\ Trying(k) \ {a} \subseteq Attempt \ {a}
      BY <1>2 DEF Trying
    <3>2. IsFiniteSet(Attempt \ {a}) /\ Cardinality(Attempt \ {a}) = Cardinality(Attempt) - 1
      BY SignInAssumption, FS_RemoveElement
    <3>3. Cardinality(Attempt) \in Nat
      BY SignInAssumption, FS_CardinalityType
    <3>4. /\ IsFiniteSet(Trying(k) \ {a})
          /\ Cardinality(Trying(k) \ {a}) <= Cardinality(Attempt \ {a})
      BY <3>1, <3>2, FS_Subset
    <3>5. Cardinality(Trying(k) \ {a}) \in Nat
      BY <3>4, FS_CardinalityType
    <3> QED BY <3>1, <3>2, <3>3, <3>4, <3>5
  <2>7. tried'[i].key = k /\ tried'[i].at = signInTime
    BY <1>4, <1>7
  <2>8. Trying(tried[i].key)' = Trying(k)'
    BY <2>7 DEF Trying
  <2>9. Tells(failures[p], i)'
    <3>1. failures'[p].last = tried'[i].at
      BY <2>1, <2>2, <2>7
    <3>2. failures'[p].count >= Cardinality(SinceThen(i)')
      BY <2>1, <2>2, <2>3, <2>5
    <3>3. ASSUME Cardinality(SinceThen(i)') >= LockAfter
          PROVE  /\ failures'[p].until >= tried'[i].at + LockBase
                 /\ Cardinality(SinceThen(i)') + Cardinality(Trying(k)') < LockAfter + Cardinality(Attempt)
      <4>1. CountOf(k) >= LockAfter
        BY <2>3, <2>5, <3>3, SignInAssumption
      <4>2. failures'[p].until >= tried'[i].at + LockBase
        BY <2>1, <2>2, <2>4, <2>7, <4>1
      <4> QED BY <2>5, <2>6, <4>2, SignInAssumption
    <3>4. failures'[p].last >= tried'[i].at
      BY <1>4, <2>7, <3>1
    <3> QED BY <2>8, <3>1, <3>2, <3>3, <3>4 DEF Tells
  <2>10. p \in Entries(tried[i].key)'
    BY <2>1, <2>2, <2>7 DEF Entries
  <2>11. \A m \in p + 1..Len(failures') : failures'[m].key \in FailedSince(i)'
    <3>1. p + 1..Len(failures') = {}
      BY <2>1
    <3> QED BY <3>1
  <2> QED BY <2>9, <2>10, <2>11 DEF Remembered
<1>8. ASSUME NEW i \in 1..Len(tried'), Standing(i)', i # L + 1 PROVE Remembered(i)'
  <2>1. i \in 1..L
    BY <1>2, <1>4, <1>8
  <2>2. CASE tried[i].key = k
    BY <1>1, <1>3, <1>8, <2>1, <2>2, FailureTells
  <2>3. CASE tried[i].key # k
    <3>1. SinceThen(i)' = SinceThen(i) /\ FailedSince(i)' = FailedSince(i) \cup {k}
      BY <1>2, <1>3, <2>1, <2>3
    <3>2. IsFiniteSet(FailedSince(i)) /\ Cardinality(FailedSince(i)) \in Nat
      BY <2>1, CountsAreNatural
    <3>3. IsFiniteSet(FailedSince(i) \cup {k}) /\ Cardinality(FailedSince(i) \cup {k}) < FailKeys
      BY <1>8, <3>1, <3>2, FS_AddElement DEF Standing
    <3>4. Standing(i)
      <4>1. Cardinality(FailedSince(i)) <= Cardinality(FailedSince(i) \cup {k})
        BY <3>3, FS_Subset
      <4>2. Cardinality(FailedSince(i) \cup {k}) \in Nat
        BY <3>3, FS_CardinalityType
      <4>3. Cardinality(FailedSince(i)) < FailKeys
        BY <3>2, <3>3, <4>1, <4>2, SignInAssumption
      <4>4. ASSUME NEW m \in SinceThen(i) PROVE ~tried[m].ok
        <5>1. m \in SinceThen(i)' /\ m \in 1..L
          BY <1>4, <2>1, <3>1 DEF SinceThen
        <5> QED BY <1>2, <1>8, <5>1 DEF Standing
      <4> QED BY <4>3, <4>4 DEF Standing
    <3>5. PICK n \in Entries(tried[i].key) :
            /\ Tells(failures[n], i)
            /\ \A m \in n + 1..Len(failures) : failures[m].key \in FailedSince(i)
      BY <2>1, <3>4 DEF LockInv, Remembered
    <3>6. n \in 1..Len(failures) /\ failures[n].key # k
      BY <2>3, <3>5 DEF Entries
    <3> DEFINE F == FailedSince(i) \cup {k}
    <3>7. k \in F /\ \A m \in n + 1..Len(failures) : failures[m].key \in F
      BY <3>5
    <3> HIDE DEF F
    <3>8. PICK p \in 1..Len(failures') :
            /\ failures'[p] = failures[n]
            /\ \A q \in p + 1..Len(failures') : failures'[q].key \in F
      <4>1. IsFiniteSet(F) /\ Cardinality(F) < FailKeys
        BY <3>3 DEF F
      <4> QED BY <1>5, <3>6, <3>7, <4>1
    <3> HIDE DEF L
    <3> QED BY <1>1, <1>3, <1>8, <2>1, <2>3, <3>1, <3>5, <3>8, AnswerTells, Zenon DEF F, L
  <2> QED BY <2>2, <2>3
<1> QED BY <1>6, <1>7, <1>8 DEF LockInv

\* At an answer: those of a locked account that are counted were under way.
LastSpaced ==
  \A i \in 1..Len(tried) :
    /\ Standing(i)
    /\ Cardinality(SinceThen(i)) >= LockAfter + Cardinality(Attempt)
    => signInTime - tried[i].at >= LockBase

LEMMA LastIsSpaced == LockInv => LastSpaced
<1> SUFFICES ASSUME LockInv, NEW i \in 1..Len(tried), Standing(i),
                    Cardinality(SinceThen(i)) >= LockAfter + Cardinality(Attempt)
             PROVE  signInTime - tried[i].at >= LockBase
  BY DEF LastSpaced
<1>1. PICK n \in Entries(tried[i].key) : Tells(failures[n], i)
  BY DEF LockInv, Remembered
<1> DEFINE c == Cardinality(SinceThen(i))
           t == Cardinality(Trying(tried[i].key))
<1>2. /\ c \in Nat /\ t \in Nat /\ Cardinality(Attempt) \in Nat
      /\ tried[i] \in TryRecords /\ signInTime \in Nat
  BY CountsAreNatural DEF LockInv, SignInTypeOK
<1>3. tried[i].at \in Nat
  BY <1>2 DEF TryRecords
<1>4. signInTime < tried[i].at + LockBase => (c >= LockAfter => c + t < LockAfter + Cardinality(Attempt))
  BY <1>1 DEF Tells
<1>5. LockAfter \in Nat /\ LockBase \in Nat /\ c >= LockAfter + Cardinality(Attempt)
  BY SignInAssumption
<1> HIDE DEF c, t
<1> QED BY <1>2, <1>3, <1>4, <1>5

LEMMA AnswerIsSpaced ==
  ASSUME LockInv, LastSpaced', GuessesSpaced,
         NEW a \in Attempt, NEW ok \in BOOLEAN, hashing[a] # NoAccount, Answered(a, ok)
  PROVE  GuessesSpaced'
<1> DEFINE L == Len(tried)
<1>1. /\ L \in Nat /\ Len(tried') = L + 1 /\ \A i \in 1..L : tried'[i] = tried[i]
      /\ tried'[L + 1] = [key |-> hashing[a], ok |-> ok, at |-> signInTime]
      /\ signInTime' = signInTime
  BY AnswerAdds DEF LockInv, SignInTypeOK
<1>2. tried'[L + 1].at = signInTime
  BY <1>1
<1> HIDE DEF L
<1> SUFFICES ASSUME NEW k \in Account, NEW i \in 1..L + 1, NEW j \in 1..L + 1,
                    i < j, Wrong(k, i)', Wrong(k, j)',
                    \A n \in i..j : tried'[n].key = k => ~tried'[n].ok,
                    Cardinality(FailedBetween(k, i, j)') < FailKeys,
                    Cardinality({n \in i..j : tried'[n].key = k}) >= LockAfter + Cardinality(Attempt)
             PROVE  tried'[j].at - tried'[i].at >= LockBase
  BY <1>1 DEF GuessesSpaced
<1>3. i \in 1..L
  BY <1>1
<1>4. CASE j \in 1..L
  <2>1. i..j \subseteq 1..L
    BY <1>1, <1>3, <1>4
  <2>2. \A n \in i..j : tried'[n] = tried[n]
    BY <1>1, <2>1
  <2>3. Wrong(k, i) /\ Wrong(k, j) /\ tried'[i] = tried[i] /\ tried'[j] = tried[j]
    BY <1>1, <1>3, <1>4 DEF Wrong
  <2>4. FailedBetween(k, i, j)' = FailedBetween(k, i, j)
    BY <2>2 DEF FailedBetween
  <2>5. {n \in i..j : tried'[n].key = k} = {n \in i..j : tried[n].key = k}
    BY <2>2
  <2>6. \A n \in i..j : tried[n].key = k => ~tried[n].ok
    BY <2>2
  <2> QED BY <1>3, <1>4, <2>3, <2>4, <2>5, <2>6 DEF GuessesSpaced, L
<1>5. CASE j = L + 1
  <2>1. tried'[i].key = k /\ Len(tried') = j
    BY <1>1, <1>5 DEF Wrong
  <2>2. SinceThen(i)' = {n \in i..j : tried'[n].key = k}
    BY <2>1 DEF SinceThen
  <2>3. FailedSince(i)' = FailedBetween(k, i, j)'
    BY <2>1 DEF FailedSince, FailedBetween
  <2>4. Standing(i)'
    BY <2>2, <2>3 DEF Standing
  <2>5. signInTime' - tried'[i].at >= LockBase
    BY <1>1, <2>2, <2>4 DEF LastSpaced
  <2> QED BY <1>1, <1>2, <1>5, <2>5
<1> QED BY <1>1, <1>4, <1>5

-----------------------------------------------------------------------------
(* The theorems.                                                           *)

LEMMA GuessesStay ==
  ASSUME tried' = tried, GuessesSpaced
  PROVE  GuessesSpaced'
<1>1. \A k, i : Wrong(k, i)' <=> Wrong(k, i)
  BY DEF Wrong
<1>2. \A k, i, j : FailedBetween(k, i, j)' = FailedBetween(k, i, j)
  BY DEF FailedBetween
<1>3. ASSUME NEW k \in Account, NEW i \in 1..Len(tried'), NEW j \in 1..Len(tried'),
             i < j, Wrong(k, i)', Wrong(k, j)',
             \A n \in i..j : tried'[n].key = k => ~tried'[n].ok,
             Cardinality(FailedBetween(k, i, j)') < FailKeys,
             Cardinality({n \in i..j : tried'[n].key = k}) >= LockAfter + Cardinality(Attempt)
      PROVE  tried'[j].at - tried'[i].at >= LockBase
  <2>1. /\ i \in 1..Len(tried) /\ j \in 1..Len(tried) /\ Wrong(k, i) /\ Wrong(k, j)
        /\ \A n \in i..j : tried[n].key = k => ~tried[n].ok
        /\ {n \in i..j : tried[n].key = k} = {n \in i..j : tried'[n].key = k}
    BY <1>1, <1>3
  <2>2. /\ Cardinality(FailedBetween(k, i, j)) < FailKeys
        /\ Cardinality({n \in i..j : tried[n].key = k}) >= LockAfter + Cardinality(Attempt)
    BY <1>2, <1>3, <2>1, Zenon
  <2>3. tried[j].at - tried[i].at >= LockBase
    BY <1>3, <2>1, <2>2, Zenon DEF GuessesSpaced
  <2> QED BY <2>3
<1> QED BY <1>3, Zenon DEF GuessesSpaced

LEMMA LockInvIsInductive ==
  /\ SignInInit => LockInv /\ GuessesSpaced
  /\ LockInv /\ GuessesSpaced /\ [SignInNext]_signInVars => LockInv' /\ GuessesSpaced'
<1>1. ASSUME SignInInit PROVE LockInv /\ GuessesSpaced
  <2>1. 0 \in Nat /\ 0 <= FailKeys /\ <<>> \in Seq(FailRecords) /\ <<>> \in Seq(TryRecords)
    BY SignInAssumption
  <2>2. Len(failures) = 0 /\ Len(tried) = 0 /\ 1..0 = {}
    BY <1>1 DEF SignInInit
  <2>3. SignInTypeOK
    BY <1>1, <2>1, <2>2 DEF SignInInit, SignInTypeOK
  <2> QED BY <2>2, <2>3 DEF LockInv, OneEntryEach, GuessesSpaced
<1>2. ASSUME LockInv, GuessesSpaced, [SignInNext]_signInVars PROVE LockInv' /\ GuessesSpaced'
  <2>1. ASSUME NEW a \in Attempt, NEW k \in Account, Try(a, k) PROVE LockInv' /\ GuessesSpaced'
    <3>1. tried' = tried
      BY <2>1 DEF Try
    <3>2. LockInv'
      BY <1>2, <2>1, TryRemembers, Zenon
    <3>3. GuessesSpaced'
      BY <1>2, <3>1, GuessesStay, Zenon
    <3> QED BY <3>2, <3>3
  <2>2. ASSUME NEW a \in Attempt, WrongPassword(a) PROVE LockInv' /\ GuessesSpaced'
    <3>1. LockInv'
      BY <1>2, <2>2, WrongRemembers
    <3>2. LastSpaced'
      BY <3>1, LastIsSpaced, PTL
    <3>3. hashing[a] # NoAccount /\ Answered(a, FALSE) /\ FALSE \in BOOLEAN
      BY <2>2 DEF WrongPassword
    <3> QED BY <1>2, <3>1, <3>2, <3>3, AnswerIsSpaced, Zenon
  <2>3. ASSUME NEW a \in Attempt, RightPassword(a) PROVE LockInv' /\ GuessesSpaced'
    <3>1. LockInv'
      BY <1>2, <2>3, RightRemembers
    <3>2. LastSpaced'
      BY <3>1, LastIsSpaced, PTL
    <3>3. hashing[a] # NoAccount /\ Answered(a, TRUE) /\ TRUE \in BOOLEAN
      BY <2>3 DEF RightPassword
    <3> QED BY <1>2, <3>1, <3>2, <3>3, AnswerIsSpaced, Zenon
  <2>4. CASE SignInWait
    <3>1. tried' = tried
      BY <2>4 DEF SignInWait
    <3>2. LockInv'
      BY <1>2, <2>4, WaitRemembers, Zenon
    <3>3. GuessesSpaced'
      BY <1>2, <3>1, GuessesStay, Zenon
    <3> QED BY <3>2, <3>3
  <2>5. CASE UNCHANGED signInVars
    <3>1. signInTime' = signInTime /\ failures' = failures /\ hashing' = hashing /\ tried' = tried
      BY <2>5 DEF signInVars
    <3>2. SignInTypeOK' /\ OneEntryEach'
      BY <1>2, <3>1 DEF LockInv, SignInTypeOK, OneEntryEach
    <3>3. \A i : Standing(i)' = Standing(i) /\ FailedSince(i)' = FailedSince(i)
      BY <3>1 DEF Standing, SinceThen, FailedSince, FailedBetween
    <3>4. \A e, i : Tells(e, i)' = Tells(e, i)
      BY <3>1 DEF Tells, SinceThen, Trying
    <3>5. \A i : Remembered(i)' = Remembered(i)
      BY <3>1, <3>3, <3>4 DEF Remembered, Entries
    <3>6. GuessesSpaced'
      BY <1>2, <3>1, GuessesStay, Zenon
    <3> QED BY <1>2, <3>1, <3>2, <3>3, <3>5, <3>6 DEF LockInv
  <2> QED BY <1>2, <2>1, <2>2, <2>3, <2>4, <2>5 DEF SignInNext
<1> QED BY <1>1, <1>2

\* FailuresRemembered, for every number of accounts, attempts and places in the
\* Map: the last failure of an account is not lost to a neighbour's (auth.ts,
\* recordFailure).
THEOREM FailuresStay == SignInSpec => []FailuresRemembered
<1>1. LockInv => FailuresRemembered
  <2> SUFFICES ASSUME LockInv, NEW i \in 1..Len(tried), ~tried[i].ok,
                      \A n \in i + 1..Len(tried) : tried[n].key # tried[i].key,
                      Cardinality(FailedBetween(tried[i].key, i, Len(tried))) < FailKeys
               PROVE  \E n \in Entries(tried[i].key) : failures[n].last = tried[i].at
    BY DEF FailuresRemembered
  <2>1. Len(tried) \in Nat
    BY DEF LockInv, SignInTypeOK
  <2>2. SinceThen(i) = {i}
    BY <2>1 DEF SinceThen
  <2>3. Standing(i)
    BY <2>2 DEF Standing, FailedSince
  <2>4. PICK n \in Entries(tried[i].key) : Tells(failures[n], i)
    BY <2>3 DEF LockInv, Remembered
  <2> QED BY <2>2, <2>4 DEF Tells
<1> QED BY <1>1, LockInvIsInductive, PTL DEF SignInSpec

\* GuessesSpaced, for every number of accounts, attempts and failures that lock:
\* attempts that overlap do not get round the lock (auth.ts, loginLimit).
THEOREM LockSlowsGuessing == SignInSpec => []GuessesSpaced
BY LockInvIsInductive, PTL DEF SignInSpec
===============================================================================
