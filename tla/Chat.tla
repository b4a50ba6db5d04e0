-------------------------------- MODULE Chat --------------------------------
(***************************************************************************)
(* A question to the assistant, end to end: the Assistant page of one tab  *)
(* (Assistant.tsx, chatStream, chatStore.ts), the connection, the route    *)
(* (routes/chat.ts, streamAnswer) and the one place at the local model     *)
(* (SlotQueue), which somebody else wants too.                             *)
(*                                                                         *)
(* A text is how many pieces of it there are.  The text sent with `done'   *)
(* is the whole answer with its sign-off cut.  What a frame of `context'   *)
(* shows is left out; an answer of the limits or of a BFF that is down     *)
(* reads like a failed snapshot.                                           *)
(***************************************************************************)
EXTENDS Integers, Sequences, FiniteSets, SequencesExt

CONSTANTS
  Asked,        \* the questions of the tab, in turn
  Rival,        \* somebody else at the model
  Native,       \* Ollama's own API; else an OpenAI-compatible server
  MaxPieces     \* bound: pieces of an answer

ASSUME ChatAssumption ==
  /\ IsFiniteSet(Asked) /\ Rival \notin Asked /\ "nothing" \notin Asked
  /\ Native \in BOOLEAN /\ MaxPieces \in Nat

VARIABLES
  tab,        \* the tab: its page, session and sessionStorage
  route,      \* each question at the BFF
  wire,       \* each question's connection
  slotTaken, slotQueue, slotState     \* the model's place

slotOfChat == <<slotTaken, slotQueue, slotState>>
chatVars == <<tab, route, wire, slotOfChat>>

ModelSlot == INSTANCE SlotQueue WITH
  Request <- Asked \cup {Rival}, Limit <- 1, Patient <- {}, TryOnly <- {},
  taken <- slotTaken, queue <- slotQueue, state <- slotState

Quiet == "nothing"      \* pending is null
NoRoute == [at |-> "unused", aborted |-> FALSE, wrote |-> 0, finished |-> FALSE]
NoWire == [open |-> FALSE, frames |-> <<>>]

-----------------------------------------------------------------------------
(* The page.                                                               *)

\* saveConversation, the effect of every change of the messages.
\*
\* Fault: also when the session has ended.
Saved_Always(messages, t) == messages

Saved(messages, t) == IF t.ended THEN t.store ELSE messages

ShowMessages(t, messages) == [t EXCEPT !.messages = messages, !.store = Saved(messages, t)]

ReaderSays(q) == [of |-> q, by |-> "reader", got |-> 0, whole |-> TRUE, session |-> tab.session]
ModelReplies(q, got, whole) == [of |-> q, by |-> "model", got |-> got, whole |-> whole, session |-> tab.session]

\* send
SendQuestion(q) ==
  /\ tab.page /\ tab.asking = Quiet /\ route[q] = NoRoute /\ wire[q] = NoWire
  /\ tab' = [ShowMessages(tab, Append(tab.messages, ReaderSays(q))) EXCEPT !.asking = q, !.got = 0]
  /\ route' = [route EXCEPT ![q].at = "reading"]
  /\ wire' = [wire EXCEPT ![q].open = TRUE]
  /\ UNCHANGED slotOfChat

\* The finally of send: what arrived is kept, also of an answer that failed or
\* was stopped.
Settles(q, got, whole) ==
  tab' = [(IF whole \/ got > 0 THEN ShowMessages(tab, Append(tab.messages, ModelReplies(q, got, whole))) ELSE tab)
            EXCEPT !.asking = Quiet, !.got = 0]

\* chatStream, the next frame.  `done' brings the whole text; a body that ends
\* without it resolves all the same.
Receive(q) ==
  /\ tab.asking = q /\ wire[q].open /\ wire[q].frames # <<>>
  /\ LET frame == Head(wire[q].frames) IN
     /\ CASE frame = "token" -> tab' = [tab EXCEPT !.got = @ + 1]
          [] frame = "error" -> Settles(q, tab.got, FALSE)
          [] frame = "done" -> Settles(q, route[q].wrote, TRUE)
          [] frame = "end" -> Settles(q, tab.got, TRUE)
     /\ wire' = [wire EXCEPT ![q].frames = Tail(@), ![q].open = frame = "token"]
  /\ UNCHANGED <<route, slotOfChat>>

\* Stop, and a connection that breaks: read() rejects.
HangUp(q) == wire' = [wire EXCEPT ![q] = NoWire]

StopOrBreak(q) ==
  /\ tab.asking = q /\ wire[q].open
  /\ Settles(q, tab.got, FALSE) /\ HangUp(q)
  /\ UNCHANGED <<route, slotOfChat>>

\* Clear, a button only when nothing is pending.
ClearChat ==
  /\ tab.page /\ tab.asking = Quiet /\ tab.messages # <<>>
  /\ tab' = ShowMessages(tab, <<>>)
  /\ UNCHANGED <<route, wire, slotOfChat>>

\* Another page, and back: the state of this one is gone, the saved
\* conversation is read again.
Unshown(t) == [t EXCEPT !.page = FALSE, !.messages = <<>>, !.asking = Quiet, !.got = 0]

LeaveChat ==
  /\ tab.page /\ tab' = Unshown(tab)
  /\ IF tab.asking = Quiet THEN UNCHANGED wire ELSE HangUp(tab.asking)
  /\ UNCHANGED <<route, slotOfChat>>

VisitChat ==
  /\ ~tab.page /\ tab.signedIn
  /\ tab' = ShowMessages([tab EXCEPT !.page = TRUE], tab.store)
  /\ UNCHANGED <<route, wire, slotOfChat>>

\* clearConversation: signing out begins, or the session is found to be over.
\* The page stays until the sign-in page is there.
SessionEnds ==
  /\ tab.signedIn /\ ~tab.ended
  /\ tab' = [tab EXCEPT !.ended = TRUE, !.store = <<>>]
  /\ UNCHANGED <<route, wire, slotOfChat>>

\* The sign-in page: by the router after a sign-out, else loaded, and then the
\* module is a new one.
ToSignIn ==
  /\ tab.signedIn /\ tab.ended
  /\ \E loaded \in BOOLEAN : tab' = [Unshown(tab) EXCEPT !.signedIn = FALSE, !.ended = ~loaded]
  /\ IF tab.asking = Quiet THEN UNCHANGED wire ELSE HangUp(tab.asking)
  /\ UNCHANGED <<route, slotOfChat>>

\* startConversation
SignInAgain ==
  /\ ~tab.signedIn /\ tab.session = 1
  /\ tab' = [tab EXCEPT !.signedIn = TRUE, !.ended = FALSE, !.store = <<>>, !.session = 2]
  /\ UNCHANGED <<route, wire, slotOfChat>>

-----------------------------------------------------------------------------
(* The route.                                                              *)

\* send: nothing is written once the connection has closed.
Sends(q, frames) ==
  IF route[q].aborted \/ ~wire[q].open THEN UNCHANGED wire
  ELSE wire' = [wire EXCEPT ![q].frames = @ \o frames]

Over(q) == [route EXCEPT ![q].at = "over"]

\* The catch: a question nobody waits for fails without a word.
Fails(q) == route' = Over(q) /\ Sends(q, <<"error", "end">>)

\* The response's close event.
NoticeClosed(q) ==
  /\ route[q].at \in {"reading", "waiting", "writing"} /\ ~wire[q].open /\ ~route[q].aborted
  /\ route' = [route EXCEPT ![q].aborted = TRUE]
  /\ UNCHANGED <<tab, wire, slotOfChat>>

\* getSnapshot and buildFocus, then acquireModelSlot, or not.
ReadEstate(q) ==
  /\ route[q].at = "reading" /\ UNCHANGED tab
  /\ \/ /\ ~route[q].aborted
        /\ ModelSlot!Acquire(q) \/ ModelSlot!Queue(q)
        /\ route' = [route EXCEPT ![q].at = "waiting"] /\ UNCHANGED wire
     \/ Fails(q) /\ UNCHANGED slotOfChat

\* A reader who left, or the wait is over.
GiveUpWaiting(q) ==
  /\ route[q].at = "waiting" /\ UNCHANGED tab
  /\ ModelSlot!LeaveQueue(q) /\ Fails(q)

AskModel(q) ==
  /\ route[q].at = "waiting" /\ UNCHANGED <<tab, wire>>
  /\ ModelSlot!Resume(q)
  /\ route' = [route EXCEPT ![q].at = "writing"]

Piece(q) ==
  /\ route[q].at = "writing" /\ route[q].wrote < MaxPieces /\ ~route[q].aborted
  /\ route' = [route EXCEPT ![q].wrote = @ + 1]
  /\ Sends(q, <<"token">>)
  /\ UNCHANGED <<tab, slotOfChat>>

\* The model's stream ends with its last line (`done', `[DONE]'), or without.
\*
\* Fault: a native one without it is an answer too.
EndsWithout_Whole(q) == route' = Over(q) /\ Sends(q, <<"done", "end">>)

EndsWithout(q) ==
  IF Native THEN Fails(q)
  ELSE route' = Over(q) /\ Sends(q, <<"done", "end">>)

ModelEnds(q) ==
  /\ route[q].at = "writing" /\ ~route[q].aborted /\ UNCHANGED tab
  /\ ModelSlot!Release(q)
  /\ \/ /\ route' = [Over(q) EXCEPT ![q].finished = TRUE]
        /\ Sends(q, <<"done", "end">>)
     \/ EndsWithout(q)

\* The model cannot be reached, reports an error, or takes longer than
\* AI_TIMEOUT_MS; or the reader has left.
ModelFails(q) ==
  /\ route[q].at = "writing" /\ UNCHANGED tab
  /\ ModelSlot!Release(q) /\ Fails(q)

\* Somebody else's question or explanation.
RivalSteps ==
  /\ \/ ModelSlot!Acquire(Rival) \/ ModelSlot!Queue(Rival) \/ ModelSlot!Resume(Rival)
     \/ ModelSlot!LeaveQueue(Rival) \/ ModelSlot!Release(Rival)
  /\ UNCHANGED <<tab, route, wire>>

-----------------------------------------------------------------------------
ChatInit ==
  /\ tab = [page |-> TRUE, messages |-> <<>>, asking |-> Quiet, got |-> 0, store |-> <<>>,
            signedIn |-> TRUE, ended |-> FALSE, session |-> 1]
  /\ route = [q \in Asked |-> NoRoute]
  /\ wire = [q \in Asked |-> NoWire]
  /\ ModelSlot!PlacesInit

ChatNext ==
  \/ \E q \in Asked :
       \/ SendQuestion(q) \/ Receive(q) \/ StopOrBreak(q) \/ NoticeClosed(q)
       \/ ReadEstate(q) \/ GiveUpWaiting(q) \/ AskModel(q) \/ Piece(q)
       \/ ModelEnds(q) \/ ModelFails(q)
  \/ ClearChat \/ LeaveChat \/ VisitChat
  \/ SessionEnds \/ ToSignIn \/ SignInAgain
  \/ RivalSteps

ChatSpec == ChatInit /\ [][ChatNext]_chatVars

-----------------------------------------------------------------------------
\* "a cut-off answer is never taken for a whole one" (readOllamaStream, ai.ts):
\* what the page keeps without an error is all the model wrote, and the model
\* had finished, whoever stopped, left, broke off or timed out on the way.
AnswerWhole ==
  \A i \in 1..Len(tab.messages) :
    LET m == tab.messages[i] IN
    m.by = "model" /\ m.whole => route[m.of].finished /\ m.got = route[m.of].wrote

\* The next person at the tab reads nothing of the last one's conversation: none
\* is saved from the end of a session to the next sign-in, however late its
\* answers land, and what is shown and saved then is of the session there is.
ChatForgotten ==
  /\ tab.ended \/ ~tab.signedIn => tab.store = <<>>
  /\ \A i \in 1..Len(tab.store) : tab.store[i].session = tab.session
  /\ \A i \in 1..Len(tab.messages) : tab.messages[i].session = tab.session
=============================================================================
