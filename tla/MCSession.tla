------------------------------ MODULE MCSession ------------------------------
(***************************************************************************)
(* Instances for TLC of what must eventually happen: two tabs and the BFF  *)
(* over time, the gates, the stream's client and the polling hook.  `which' *)
(* says whose behaviour it is, and the variables of the others stay as     *)
(* they are.  Nothing is composed here.                                    *)
(***************************************************************************)
EXTENDS Session, SlotQueue, LiveClient, Polling

VARIABLE which

LiveInit ==
  /\ which \in {"tabs", "gates", "live", "poll"}
  /\ Init
  /\ PlacesInit
  /\ ClientInit /\ (which # "live" => ~shown /\ ~up)
  /\ PollInit /\ (which # "poll" => ~inView)

\* Bounds of the tabs, no part of what they do: a message arrives before anything
\* else happens, one tab reads at a time, and no page is loaded from a sign-out to
\* the next sign-in; a page that leaves begins no renewal, none falls due there or
\* in a tab that signs out, and none finds the role changed while a tab does.
Prompt ==
  /\ \A t \in Tab : inbox[t] # <<>> => \E s \in Tab : Len(inbox'[s]) < Len(inbox[s])
  /\ \A t \in Tab :
       /\ Probe(t) => \A s \in Tab : req[s]["me"] = Idle
       /\ Open(t) => ~closed
       /\ Tick(t) => page[t] = "app"
       /\ FallDue(t) => page[t] = "app" /\ stage[t] = "none"
       /\ LandRefresh(t) /\ ~ended[t] /\ inbox' # inbox => \A s \in Tab : stage[s] = "none"

Keep(w, v) == IF which = w THEN TRUE ELSE UNCHANGED v

\* Of the runs that are free always the same is started: a behaviour that starts
\* another is one of these renamed.
TheSameRun == \A r \in flying' \ flying : r = CHOOSE s \in Run : s \notin flying

LiveNext ==
  /\ UNCHANGED which
  /\ \/ which = "tabs" /\ Next /\ Prompt
     \/ which = "gates" /\ PlacesNext
     \/ which = "live" /\ ClientNext
     \/ which = "poll" /\ PollNext /\ TheSameRun
  /\ Keep("tabs", vars) /\ Keep("gates", placesVars)
  /\ Keep("live", clientVars) /\ Keep("poll", pollVars)

\* What is fair to one has nothing to do in a behaviour of another.
LiveSpec ==
  /\ LiveInit
  /\ [][LiveNext]_<<which, vars, placesVars, clientVars, pollVars>>
  /\ Fairness /\ PlacesFairness /\ ClientFairness /\ PollFairness
=============================================================================
