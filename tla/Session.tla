------------------------------- MODULE Session -------------------------------
(***************************************************************************)
(* The session as the tabs of one browser keep it (web/src/api/session.ts, *)
(* useSessionRenewal.ts) against the BFF's tokens (TokenStore).  The tabs  *)
(* share the cookie jar, not their module state; they tell each other of a *)
(* sign-in or a sign-out over a BroadcastChannel.  A request takes the     *)
(* cookie along when it is sent, is handled by the BFF later, and its      *)
(* answer, with the cookie it sets, lands later still: in any order with   *)
(* those of other requests.  Of a read and of a sign-in only the landing   *)
(* is apart: what the BFF makes of them depends on nothing in between.     *)
(*                                                                         *)
(* Abstracted: the time at which a recorded session falls due for renewal; *)
(* every guarded read is a read of /api/auth/me, which also records the    *)
(* session; a landing answer sets the cookie and resumes the code that     *)
(* awaits it in one step; whether a renewal names another user or role than *)
(* before, and tells the other tabs, is open.                              *)
(***************************************************************************)
EXTENDS TokenStore

CONSTANT Tab

VARIABLES
  jar,        \* the token in the browser's cookie
  page,       \* "app", "leaving" (location.href is set) or "login"
  ended,      \* signedOut of session.ts
  fresh,      \* session is recorded and not due for renewal: null is due at once
  stage,      \* logout(): "none", "waiting" for the renewal, "posting"
  owed,       \* pending.finally(postLogout) is registered
  inbox,      \* messages of the channel not yet delivered
  req,        \* the tab's requests, one of each kind
  closed,     \* ghost: a sign-out has completed and no sign-in was sent since
  unaware,    \* ghost: the tabs whose signedOut is off after a sign-out
  left        \* ghost: nothing is left to clear the cookie

tabVars == <<page, ended, fresh, stage, owed, inbox>>
ghosts == <<closed, unaware, left>>
vars == <<tokenVars, jar, tabVars, req, ghosts>>

\* "clear" is the POST of a logout that undoes a renewal.
Kinds == {"me", "refresh", "login", "logout", "clear"}
Messages == {"signed-in", "signed-out"}    \* "changed" does what "signed-in" does
Idle == [at |-> "idle", token |-> NoToken, ok |-> FALSE]
Requests == [at : {"idle", "bff", "back"}, token : Nat, ok : BOOLEAN]

TypeOK ==
  /\ TokenTypeOK
  /\ jar \in {NoToken} \cup Issued
  /\ page \in [Tab -> {"app", "leaving", "login"}]
  /\ ended \in [Tab -> BOOLEAN]
  /\ fresh \in [Tab -> BOOLEAN]
  /\ stage \in [Tab -> {"none", "waiting", "posting"}]
  /\ owed \in [Tab -> BOOLEAN]
  /\ inbox \in [Tab -> Seq(Messages)]
  /\ req \in [Tab -> [Kinds -> Requests]]
  /\ closed \in BOOLEAN
  /\ unaware \subseteq Tab
  /\ left \in BOOLEAN

\* One person: signs in or out in one tab at a time.
Free == \A s \in Tab : stage[s] = "none" /\ req[s]["login"] = Idle

Sent(token) == [at |-> "bff", token |-> token, ok |-> FALSE]
Answer(t, k, ok, token) == req' = [req EXCEPT ![t][k] = [at |-> "back", token |-> token, ok |-> ok]]
Set(f, t, v) == [f EXCEPT ![t] = v]
Announce(t, m) == inbox' = [s \in Tab |-> IF s = t THEN inbox[s] ELSE Append(inbox[s], m)]

\* A sign-out that the channel has still to tell the tab of.
Unheard(t) == \E i \in DOMAIN inbox[t] : inbox[t][i] = "signed-out"

\* signedOut is off again though a sign-out is under way or has completed.
Lift(t) ==
  unaware' = IF ended[t] /\ (closed \/ \E s \in Tab : stage[s] # "none")
             THEN unaware \cup {t} ELSE unaware
Mark(t) == unaware' = unaware \ {t}

\* The tokens the tab's POSTs of a logout are to clear.
Clearing(t) == {req[t][k].token : k \in {j \in {"logout", "clear"} : req[t][j] # Idle}}

\* The POSTs for these tokens will clear no cookie.
Lose(tokens) == left' = (left \/ (closed /\ jar \in tokens))

\* goToSignIn, but for the page that is there already.
\*
\* Fault: a page with a renewal out stays.
GoToSignIn_WhenIdle(t) == IF page[t] = "app" /\ req[t]["refresh"] = Idle THEN "leaving" ELSE page[t]

GoToSignIn(t) == IF page[t] = "app" THEN "leaving" ELSE page[t]

-----------------------------------------------------------------------------
(* What a tab starts.                                                      *)

\* A page of the portal is loaded in the tab.
Open(t) ==
  /\ page[t] = "login" /\ Free
  /\ page' = Set(page, t, "app")
  /\ ended' = Set(ended, t, FALSE)
  /\ unaware' = IF closed THEN unaware \cup {t} ELSE unaware \ {t}
  /\ fresh' = Set(fresh, t, FALSE)
  /\ owed' = Set(owed, t, FALSE)
  /\ inbox' = Set(inbox, t, <<>>)
  /\ req' = [req EXCEPT ![t] = [k \in Kinds |-> Idle]]
  /\ Lose(Clearing(t))
  /\ UNCHANGED <<tokenVars, jar, stage, closed>>

\* useAuth's probe, and any other read.  It may find its token ended by then.
Probe(t) ==
  /\ page[t] = "app" /\ req[t]["me"] = Idle
  /\ \E ok \in {Accepts(jar), FALSE} : Answer(t, "me", ok, NoToken)
  /\ UNCHANGED <<tokenVars, jar, tabVars, ghosts>>

\* Three quarters of what was left of the session, or all but an hour, are over.
FallDue(t) ==
  /\ fresh[t]
  /\ fresh' = Set(fresh, t, FALSE)
  /\ UNCHANGED <<tokenVars, jar, page, ended, stage, owed, inbox, req, ghosts>>

\* tick, renewSession, doRenew up to its fetch: also when no end is known, and on
\* a page that is on its way to sign-in.
Tick(t) ==
  /\ page[t] # "login" /\ ~ended[t] /\ ~fresh[t] /\ req[t]["refresh"] = Idle
  /\ req' = [req EXCEPT ![t]["refresh"] = Sent(jar)]
  /\ UNCHANGED <<tokenVars, jar, tabVars, ghosts>>

\* login() and what the BFF makes of it: a token, or a refusal.
Login(t) ==
  /\ page[t] = "login" /\ Free
  /\ \/ Issue /\ Answer(t, "login", TRUE, issued + 1)
     \/ UNCHANGED tokenVars /\ Answer(t, "login", FALSE, NoToken)
  /\ closed' = FALSE /\ unaware' = {} /\ left' = FALSE
  /\ UNCHANGED <<jar, tabVars>>

\* logout(), up to the renewal it waits for when there is one.
AwaitsRenewal(t) == req[t]["refresh"] # Idle

SignOut(t) ==
  /\ page[t] = "app" /\ Free
  /\ ended' = Set(ended, t, TRUE) /\ Mark(t)
  /\ fresh' = Set(fresh, t, FALSE)
  /\ IF AwaitsRenewal(t)
     THEN stage' = Set(stage, t, "waiting") /\ UNCHANGED <<inbox, req>>
     ELSE /\ stage' = Set(stage, t, "posting")
          /\ Announce(t, "signed-out")
          /\ req' = [req EXCEPT ![t]["logout"] = Sent(jar)]
  /\ UNCHANGED <<tokenVars, jar, page, owed, closed, left>>

-----------------------------------------------------------------------------
(* The BFF.                                                                *)

\* The guard, then a token for the same user.  The one presented stays good.
HandleRefresh(t) ==
  LET token == req[t]["refresh"].token IN
  /\ req[t]["refresh"].at = "bff"
  /\ IF Accepts(token)
     THEN Issue /\ Answer(t, "refresh", TRUE, issued + 1)
     ELSE UNCHANGED tokenVars /\ Answer(t, "refresh", FALSE, NoToken)
  /\ UNCHANGED <<jar, tabVars, ghosts>>

HandleLogout(t, k) ==
  /\ k \in {"logout", "clear"} /\ req[t][k].at = "bff"
  /\ SignOutToken(req[t][k].token)
  /\ Answer(t, k, TRUE, req[t][k].token)
  /\ UNCHANGED <<jar, tabVars, ghosts>>

BffSteps ==
  /\ Lapse \/ Restart
  /\ UNCHANGED <<jar, tabVars, req, ghosts>>

-----------------------------------------------------------------------------
(* What lands at a tab.                                                    *)

Landed(t, k) == req[t][k].at = "back"

\* recordSession
Record(t) ==
  /\ fresh' = Set(fresh, t, TRUE)
  /\ ended' = Set(ended, t, FALSE)

LandMe(t) ==
  /\ Landed(t, "me")
  /\ req' = [req EXCEPT ![t]["me"] = Idle]
  /\ IF req[t]["me"].ok
     THEN Record(t) /\ Lift(t) /\ UNCHANGED page
     ELSE /\ fresh' = Set(fresh, t, FALSE)
          /\ page' = Set(page, t, GoToSignIn(t))
          /\ UNCHANGED <<ended, unaware>>
  /\ UNCHANGED <<tokenVars, jar, stage, owed, inbox, closed, left>>

\* The renewal is over, and the browser's cookie is `cookie': a logout() that
\* waited goes on, and one owed since the channel told of a sign-out is posted.
\* After a sign-out nobody clears a cookie that comes to a tab that does not know
\* of it, or no more.
Settle(t, cookie, told) ==
  /\ jar' = cookie
  /\ req' = [req EXCEPT
               ![t]["refresh"] = Idle,
               ![t]["logout"] = IF stage[t] = "waiting" THEN Sent(cookie) ELSE @,
               ![t]["clear"] = IF owed[t] THEN Sent(cookie) ELSE @]
  /\ owed' = Set(owed, t, FALSE)
  /\ IF stage[t] = "waiting"
     THEN stage' = Set(stage, t, "posting") /\ Announce(t, "signed-out")
     ELSE /\ UNCHANGED stage
          /\ IF told THEN Announce(t, "signed-in") ELSE UNCHANGED inbox
  /\ left' = IF cookie = jar THEN left
             ELSE /\ closed /\ ~owed[t] /\ stage[t] # "waiting"
                  /\ Unheard(t) \/ t \in unaware
  /\ UNCHANGED closed

\* doRenew after its fetch: an answer that comes after a sign-out records
\* nothing, though the browser has taken its cookie.
LandRefresh(t) ==
  LET answer == req[t]["refresh"]
      cookie == IF answer.ok THEN answer.token ELSE jar IN
  /\ Landed(t, "refresh")
  /\ IF ended[t]
     THEN Settle(t, cookie, FALSE) /\ UNCHANGED <<page, ended, fresh, unaware>>
     ELSE IF ~answer.ok
     THEN /\ Settle(t, cookie, FALSE)
          /\ ended' = Set(ended, t, TRUE) /\ Mark(t)
          /\ fresh' = Set(fresh, t, FALSE)
          /\ page' = Set(page, t, GoToSignIn(t))
     ELSE /\ \E told \in BOOLEAN : Settle(t, cookie, told)
          /\ Record(t)
          /\ UNCHANGED <<page, unaware>>
  /\ UNCHANGED tokenVars

\* No answer within 30 s, or the request failed, or the answer was cut off after
\* the cookie it set: "failed", to be tried again.
\*
\* Fault: no timer.
RefreshFails_NoTimer(t) ==
  /\ req[t]["refresh"].at = "back"
  /\ Settle(t, jar, FALSE)
  /\ UNCHANGED <<tokenVars, page, ended, fresh, unaware>>

RefreshFails(t) ==
  /\ req[t]["refresh"] # Idle
  /\ \/ Settle(t, jar, FALSE)
     \/ req[t]["refresh"].ok /\ Settle(t, req[t]["refresh"].token, FALSE)
  /\ UNCHANGED <<tokenVars, page, ended, fresh, unaware>>

LandLogin(t) ==
  LET answer == req[t]["login"] IN
  /\ Landed(t, "login")
  /\ req' = [req EXCEPT ![t]["login"] = Idle]
  /\ IF answer.ok
     THEN /\ jar' = answer.token
          /\ Record(t) /\ Mark(t)
          /\ Announce(t, "signed-in")
          /\ page' = Set(page, t, "app")
     ELSE UNCHANGED <<jar, fresh, ended, unaware, inbox, page>>
  /\ UNCHANGED <<tokenVars, stage, owed, closed, left>>

\* signOut of Layout.tsx goes to /login within the page, whatever came of it; a
\* page that is on its way there already stays so.
AtSignIn(t) == IF page[t] = "leaving" THEN "leaving" ELSE "login"

LandLogout(t) ==
  /\ Landed(t, "logout")
  /\ jar' = NoToken
  /\ req' = [req EXCEPT ![t]["logout"] = Idle]
  /\ stage' = Set(stage, t, "none")
  /\ page' = Set(page, t, AtSignIn(t))
  /\ closed' = TRUE /\ left' = FALSE
  /\ UNCHANGED <<tokenVars, ended, fresh, owed, inbox, unaware>>

LogoutFails(t) ==
  /\ req[t]["logout"] # Idle
  /\ req' = [req EXCEPT ![t]["logout"] = Idle]
  /\ stage' = Set(stage, t, "none")
  /\ page' = Set(page, t, AtSignIn(t))
  /\ Lose({req[t]["logout"].token})
  /\ UNCHANGED <<tokenVars, jar, ended, fresh, owed, inbox, closed, unaware>>

LandClear(t) ==
  /\ Landed(t, "clear")
  /\ jar' = NoToken
  /\ req' = [req EXCEPT ![t]["clear"] = Idle]
  /\ left' = FALSE
  /\ UNCHANGED <<tokenVars, tabVars, closed, unaware>>

\* The POST that undoes a renewal fails, handled or not: nobody is told.
ClearFails(t) ==
  /\ req[t]["clear"] # Idle
  /\ req' = [req EXCEPT ![t]["clear"] = Idle]
  /\ Lose({req[t]["clear"].token})
  /\ UNCHANGED <<tokenVars, jar, tabVars, closed, unaware>>

\* The channel's listener.
\*
\* Fault: a renewal on its way is left alone.
Owes_Never(t) == owed[t]

Owes(t) == owed[t] \/ req[t]["refresh"] # Idle

Deliver(t) ==
  /\ inbox[t] # <<>>
  /\ inbox' = Set(inbox, t, Tail(inbox[t]))
  /\ IF Head(inbox[t]) = "signed-out"
     THEN /\ ended' = Set(ended, t, TRUE) /\ Mark(t)
          /\ fresh' = Set(fresh, t, FALSE)
          /\ owed' = Set(owed, t, Owes(t))
          /\ page' = Set(page, t, GoToSignIn(t))
     ELSE ended' = Set(ended, t, FALSE) /\ Lift(t) /\ UNCHANGED <<fresh, owed, page>>
  /\ UNCHANGED <<tokenVars, jar, stage, req, closed, left>>

\* The page is gone with its requests and its module state; /login is loaded.
Navigate(t) ==
  /\ page[t] = "leaving"
  /\ page' = Set(page, t, "login")
  /\ ended' = Set(ended, t, FALSE) /\ fresh' = Set(fresh, t, FALSE) /\ Mark(t)
  /\ stage' = Set(stage, t, "none") /\ owed' = Set(owed, t, FALSE)
  /\ inbox' = Set(inbox, t, <<>>)
  /\ req' = [req EXCEPT ![t] = [k \in Kinds |-> Idle]]
  /\ Lose(Clearing(t))
  /\ UNCHANGED <<tokenVars, jar, closed>>

-----------------------------------------------------------------------------
\* Every tab at the sign-in page, no cookie.
Init ==
  /\ TokenInit
  /\ jar = NoToken
  /\ page = [t \in Tab |-> "login"]
  /\ ended = [t \in Tab |-> FALSE] /\ fresh = [t \in Tab |-> FALSE]
  /\ stage = [t \in Tab |-> "none"] /\ owed = [t \in Tab |-> FALSE]
  /\ inbox = [t \in Tab |-> <<>>]
  /\ req = [t \in Tab |-> [k \in Kinds |-> Idle]]
  /\ closed = FALSE /\ unaware = {} /\ left = FALSE

Bff(t) == HandleRefresh(t) \/ \E k \in Kinds : HandleLogout(t, k)
Lands(t) == LandMe(t) \/ LandRefresh(t) \/ LandLogin(t) \/ LandLogout(t) \/ LandClear(t)
Fails(t) == RefreshFails(t) \/ LogoutFails(t) \/ ClearFails(t)

Next ==
  \/ BffSteps
  \/ \E t \in Tab :
       \/ Open(t) \/ Probe(t) \/ FallDue(t) \/ Tick(t) \/ Login(t) \/ SignOut(t)
       \/ Bff(t) \/ Lands(t) \/ Fails(t)
       \/ Deliver(t) \/ Navigate(t)

Spec == Init /\ [][Next]_vars

\* Messages are delivered and pages load; the BFF answers everything but, maybe,
\* a renewal, which is why that one has a timer; what is answered lands.
Fairness ==
  \A t \in Tab :
    /\ WF_vars(Deliver(t)) /\ WF_vars(Navigate(t))
    /\ \A k \in {"logout", "clear"} : WF_vars(HandleLogout(t, k))
    /\ WF_vars(LandMe(t)) /\ WF_vars(LandLogin(t)) /\ WF_vars(LandLogout(t))
    /\ WF_vars(LandRefresh(t)) /\ WF_vars(RefreshFails(t))

FairSpec == Spec /\ Fairness

-----------------------------------------------------------------------------
\* A renewal that lands after a sign-out does not undo it (session.ts,
\* `signedOut', `renewing'): once a sign-out has completed, and until the next
\* sign-in, the browser keeps a cookie only for as long as the POST that clears it
\* is under way.  But for those that session.ts leaves: that POST failed (:71,
\* Layout.tsx:53) or went with its page; or a renewal brought the cookie to a tab
\* that had still to hear of the sign-out, that was loaded after it, or whose
\* `signedOut' a late answer (:35) or word of another tab (:74) had taken off.
SignOutHolds ==
  closed /\ jar # NoToken /\ ~left =>
    \E t \in Tab : jar \in Clearing(t)

\* A tab that signs out is not held up for good, by a renewal that is never
\* answered or otherwise (doRenew's 30 s timer, the renewal logout() waits for).
\* `Whenever it signs out, it has done so later' is `again and again it does not'.
SignOutEnds == \A t \in Tab : []<>(stage[t] = "none")

\* After a sign-out every tab ends at the sign-in page or sees a sign-in
\* (goToSignIn, the channel's listener).
TabsFollow == []<>(~closed \/ \A t \in Tab : page[t] = "login")
=============================================================================
