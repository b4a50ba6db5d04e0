--------------------------- MODULE PageHooks_proofs ---------------------------
(***************************************************************************)
(* What the pages' hooks keep, for any number of sources, runs, keys, rows *)
(* and problems: useSSE.ts (LiveClient), useAsync.ts (Polling),            *)
(* useUrlState.ts (UrlState), Problems.tsx (SentRows) and                  *)
(* useChangeHighlight.ts (Highlight); and the assistant's chat with the    *)
(* route behind it (Chat).  Each is on its own here; only the module is    *)
(* shared.                                                                 *)
(***************************************************************************)
EXTENDS LiveClient, Polling, UrlState, SentRows, Highlight, Chat, FiniteSetTheorems, TLAPS

-----------------------------------------------------------------------------
(***************************************************************************)
(* The page's stream has one connection at most, and none unseen, for any  *)
(* number of EventSource objects.  What makes OneSource inductive: the     *)
(* source in use is not a closed one, and the reopening timer is armed     *)
(* only while the page is mounted and in view.                             *)
(***************************************************************************)

ClientTypeOK ==
  /\ mounted \in BOOLEAN /\ shown \in BOOLEAN /\ up \in BOOLEAN
  /\ es \in Source \cup {NoSource} /\ quiet \in Source \cup {NoSource}
  /\ status \in [Source -> {"connecting", "open", "dead", "closed"}]
  /\ retry \in BOOLEAN /\ connected \in BOOLEAN /\ haveList \in BOOLEAN

ClientInv ==
  /\ ClientTypeOK
  /\ OneSource
  /\ es # NoSource => status[es] # "closed"
  /\ retry => mounted /\ shown

\* A source opened where there was none is the only one.
LEMMA OpenIsTheOne ==
  ASSUME ClientInv, es = NoSource, OpenSource
  PROVE  /\ es' \in Source
         /\ status' \in [Source -> {"connecting", "open", "dead", "closed"}]
         /\ status'[es'] # "closed"
         /\ Live' = {es'}
         /\ haveList' = FALSE
<1>1. \A s \in Source : status[s] = "closed"
  BY SourceAssumption DEF ClientInv, OneSource, Live, NoSource
<1>2. PICK s \in Source : es' = s /\ status' = [status EXCEPT ![s] = "connecting"] /\ haveList' = FALSE
  BY DEF OpenSource, Put
<1> QED
  BY <1>1, <1>2 DEF ClientInv, ClientTypeOK, Live

\* A live source is the one in use, of a page that is looked at.
LEMMA LiveIsInUse ==
  ASSUME ClientInv, NEW s \in Source, status[s] # "closed"
  PROVE  s = es /\ mounted /\ shown /\ es # NoSource
BY SourceAssumption DEF ClientInv, OneSource, Live, NoSource

\* Closing the source in use leaves none live.
LEMMA LastOneClosed ==
  ASSUME ClientInv, status' = [status EXCEPT ![es] = "closed"]
  PROVE  Live' = {}
<1>1. ASSUME NEW s \in Source PROVE status'[s] = "closed"
  <2>1. CASE s = es BY <2>1 DEF ClientInv, ClientTypeOK
  <2>2. CASE s # es
    <3>1. status[s] = "closed" BY <2>2 DEF ClientInv, OneSource, Live
    <3> QED BY <2>2, <3>1 DEF ClientInv, ClientTypeOK
  <2> QED BY <2>1, <2>2
<1> QED BY <1>1 DEF Live

\* After close() nothing is live.
LEMMA ClosedAll ==
  ASSUME ClientInv, CloseAll
  PROVE  /\ es' = NoSource /\ quiet' = NoSource /\ retry' = FALSE
         /\ status' \in [Source -> {"connecting", "open", "dead", "closed"}]
         /\ Live' = {}
         /\ connected' = connected /\ haveList' = haveList
<1>1. ASSUME NEW s \in Source, s # es PROVE status[s] = "closed"
  BY <1>1 DEF ClientInv, OneSource, Live
<1>2. CASE es = NoSource
  <2>1. \A s \in Source : status[s] = "closed"
    BY <1>1, <1>2, SourceAssumption DEF NoSource
  <2>2. status' = status BY <1>2 DEF CloseAll, Close
  <2> QED BY <2>1, <2>2 DEF CloseAll, Live, ClientInv, ClientTypeOK
<1>3. CASE es # NoSource
  <2>1. status' = [status EXCEPT ![es] = "closed"] BY <1>3 DEF CloseAll, Close, Put
  <2>2. Live' = {} BY <2>1, LastOneClosed
  <2> QED BY <2>1, <2>2 DEF CloseAll, ClientInv, ClientTypeOK
<1> QED BY <1>2, <1>3

LEMMA ClientInvInit == ClientInit => ClientInv
BY SourceAssumption
   DEF ClientInit, ClientInv, ClientTypeOK, OneSource, Live, NoSource

LEMMA ClientInvStep ==
  ASSUME ClientInv, [ClientNext]_clientVars
  PROVE  ClientInv'
<1> USE DEF ClientInv, ClientTypeOK
<1>1. ASSUME NEW s \in Source, Opened(s) PROVE ClientInv'
  <2>1. status[s] # "closed" BY <1>1 DEF Opened
  <2>2. s = es /\ mounted /\ shown /\ es # NoSource BY <2>1, LiveIsInUse
  <2> QED BY <1>1, <2>2 DEF Opened, Put, OneSource, Live
<1>2. ASSUME NEW s \in Source, ListFrame(s) PROVE ClientInv'
  BY <1>2 DEF ListFrame, OneSource, Live
<1>3. ASSUME NEW s \in Source, ErrorFrame(s) PROVE ClientInv'
  BY <1>3 DEF ErrorFrame, OneSource, Live
<1>4. ASSUME NEW s \in Source, Drop(s) PROVE ClientInv'
  <2>1. s = es /\ mounted /\ shown /\ es # NoSource BY <1>4, LiveIsInUse DEF Drop, Broken, Live
  <2> QED BY <1>4, <2>1 DEF Drop, Put, OneSource, Live
<1>5. ASSUME NEW s \in Source, GiveUp(s) PROVE ClientInv'
  <2>1. s = es /\ mounted /\ shown /\ es # NoSource BY <1>5, LiveIsInUse DEF GiveUp, Broken, Live
  <2>2. es' = NoSource /\ retry' = TRUE BY <1>5, <2>1 DEF GiveUp, ReopenLater
  <2>3. status' = [status EXCEPT ![es] = "closed"] BY <1>5, <2>1 DEF GiveUp, Put
  <2>4. Live' = {} BY <2>3, LastOneClosed
  <2> QED BY <1>5, <2>1, <2>2, <2>3, <2>4 DEF GiveUp, OneSource
<1>6. ASSUME NEW s \in Source, Sever(s) PROVE ClientInv'
  <2>1. s = es /\ mounted /\ shown /\ es # NoSource BY <1>6, LiveIsInUse DEF Sever
  <2> QED BY <1>6, <2>1 DEF Sever, Put, OneSource, Live
<1>7. ASSUME QuietFires PROVE ClientInv'
  <2>1. CASE es = quiet
    <3>1. es \in Source /\ status[es] # "closed" /\ mounted /\ shown
      BY <1>7, <2>1, LiveIsInUse DEF QuietFires
    <3>2. /\ es' = NoSource /\ retry' = TRUE /\ quiet' = NoSource
          /\ status' = [status EXCEPT ![es] = "closed"]
          /\ UNCHANGED <<mounted, shown, up>>
          /\ haveList' = FALSE /\ connected' = FALSE
      BY <1>7, <2>1, <3>1, SourceAssumption DEF QuietFires, ReopenLater, Close, Put, NoSource
    <3>3. Live' = {} BY <3>2, LastOneClosed
    <3> QED BY <3>1, <3>2, <3>3 DEF OneSource
  <2>2. CASE es # quiet
    BY <1>7, <2>2 DEF QuietFires, OneSource, Live
  <2> QED BY <2>1, <2>2
<1>8. ASSUME RetryFires PROVE ClientInv'
  <2>1. CASE es = NoSource
    <3>1. OpenSource BY <1>8, <2>1 DEF RetryFires
    <3>2. mounted /\ shown BY <1>8 DEF RetryFires
    <3> QED BY <1>8, <2>1, <3>1, <3>2, OpenIsTheOne DEF RetryFires, OneSource
  <2>2. CASE es # NoSource
    BY <1>8, <2>2 DEF RetryFires, OneSource, Live
  <2> QED BY <2>1, <2>2
<1>9. ASSUME Turn PROVE ClientInv'
  BY <1>9 DEF Turn, hookVars, OneSource, Live
<1>10. ASSUME Hide PROVE ClientInv'
  <2>1. CASE mounted
    <3>1. CloseAll BY <1>10, <2>1 DEF Hide
    <3> QED BY <1>10, <3>1, ClosedAll DEF Hide, OneSource
  <2>2. CASE ~mounted
    BY <1>10, <2>2 DEF Hide, hookVars, OneSource, Live
  <2> QED BY <2>1, <2>2
<1>11. ASSUME Show PROVE ClientInv'
  <2>1. es = NoSource
    BY <1>11, LiveIsInUse DEF Show
  <2>2. CASE mounted
    <3>1. OpenSource /\ UNCHANGED <<retry, quiet, connected>> BY <1>11, <2>1, <2>2 DEF Show
    <3> QED BY <1>11, <2>1, <2>2, <3>1, OpenIsTheOne DEF Show, OneSource
  <2>3. CASE ~mounted
    BY <1>11, <2>3 DEF Show, hookVars, OneSource, Live
  <2> QED BY <2>2, <2>3
<1>12. ASSUME LoadPage PROVE ClientInv'
  <2>1. es = NoSource
    BY <1>12, LiveIsInUse DEF LoadPage
  <2>2. CASE shown
    <3>1. OpenSource BY <1>12, <2>2 DEF LoadPage
    <3> QED BY <1>12, <2>1, <2>2, <3>1, OpenIsTheOne DEF LoadPage, OneSource
  <2>3. CASE ~shown
    BY <1>12, <2>3 DEF LoadPage, OneSource, Live
  <2> QED BY <2>2, <2>3
<1>13. ASSUME LeavePage PROVE ClientInv'
  <2>1. CloseAll BY <1>13 DEF LeavePage
  <2> QED BY <1>13, <2>1, ClosedAll DEF LeavePage, OneSource
<1>14. CASE UNCHANGED clientVars
  BY <1>14 DEF clientVars, hookVars, OneSource, Live
<1> QED
  BY <1>1, <1>2, <1>3, <1>4, <1>5, <1>6, <1>7, <1>8, <1>9, <1>10, <1>11, <1>12, <1>13, <1>14
     DEF ClientNext

\* There is never a second connection, nor one nobody looks at, and a page in
\* view has one or the timer that opens it (useSSE.ts, open, close, reopenLater).
THEOREM OneConnection == ClientSpec => []OneSource
<1>1. ClientInv => OneSource BY DEF ClientInv
<1> QED BY <1>1, ClientInvInit, ClientInvStep, PTL DEF ClientSpec

-----------------------------------------------------------------------------
(***************************************************************************)
(* No late answer has the last word on a page, for any selections and any  *)
(* number of runs in flight.  What makes LastAskedShown inductive: the     *)
(* latest run is in flight, it was started with the dependencies the page  *)
(* shows unless a new commit has still to be acted on, and a component     *)
(* whose run is about to be dropped has gone.                              *)
(***************************************************************************)

PollTypeOK ==
  /\ live \in BOOLEAN /\ every \in BOOLEAN
  /\ current \in Run \cup {Nothing} /\ flying \subseteq Run
  /\ deps \in Selection \cup {Nothing}
  /\ wants \in [Run -> Selection \cup {Nothing}]
  /\ snap \in [data : Selection \cup {Nothing}, error : BOOLEAN, loading : BOOLEAN,
               stale : BOOLEAN]

PollInv ==
  /\ PollTypeOK
  /\ LastAskedShown
  /\ current # Nothing => current \in flying
  /\ live /\ attached = deps /\ current # Nothing => wants[current] = deps
  /\ dropping => ~live
  /\ deps = Nothing => ~live /\ attached = Nothing

\* A run just started is the latest one, in flight, for the latest commit.
LEMMA Started ==
  ASSUME PollInv, Start
  PROVE  /\ current' \in Run /\ current' # Nothing /\ current' \in flying'
         /\ flying' \subseteq Run
         /\ wants' \in [Run -> Selection \cup {Nothing}]
         /\ wants'[current'] = deps
BY PollAssumption DEF PollInv, PollTypeOK, Start, Nothing

LEMMA AwaitingKeepsType ==
  ASSUME PollInv, Awaiting
  PROVE  snap' \in [data : Selection \cup {Nothing}, error : BOOLEAN, loading : BOOLEAN,
                    stale : BOOLEAN]
BY DEF PollInv, PollTypeOK, Awaiting

\* attach and StrictMode's rehearsal end with a run for the latest commit.
LEMMA KeptOrStarted ==
  ASSUME PollInv,
         IF Keeps THEN timer' = FALSE /\ UNCHANGED <<current, flying, wants, snap>>
                  ELSE Start /\ Awaiting,
         live' = TRUE, dropping' = FALSE, attached' = deps, UNCHANGED <<deps, every>>,
         deps # Nothing
  PROVE  PollInv'
<1>1. /\ current' \in Run /\ current' # Nothing /\ current' \in flying'
      /\ flying' \subseteq Run
      /\ wants' \in [Run -> Selection \cup {Nothing}]
      /\ wants'[current'] = deps
  <2>1. CASE Keeps
    BY <2>1 DEF PollInv, PollTypeOK, Keeps
  <2>2. CASE ~Keeps
    BY <2>2, Started
  <2> QED BY <2>1, <2>2
<1>2. snap' \in [data : Selection \cup {Nothing}, error : BOOLEAN, loading : BOOLEAN,
                 stale : BOOLEAN]
  BY AwaitingKeepsType DEF PollInv, PollTypeOK
<1> QED BY <1>1, <1>2 DEF PollInv, PollTypeOK, LastAskedShown

\* A poll or a reload starts a run and leaves what is on screen alone.
LEMMA StartKeeps ==
  ASSUME PollInv, Start, UNCHANGED <<deps, every, attached, live, dropping, snap>>
  PROVE  PollInv'
BY Started DEF PollInv, PollTypeOK, LastAskedShown

LEMMA LandKeeps ==
  ASSUME PollInv, NEW r \in Run, NEW ok \in BOOLEAN, Land(r, ok)
  PROVE  PollInv'
<1>1. /\ r \in flying /\ flying' = flying \ {r}
      /\ UNCHANGED <<deps, every, attached, live, wants, dropping>>
  BY DEF Land
<1>2. CASE r # current
  BY <1>1, <1>2 DEF Land, PollInv, PollTypeOK, LastAskedShown
<1>3. CASE r = current
  <2>1. /\ current' = Nothing
        /\ snap' = IF ok
                   THEN [data |-> wants[r], error |-> FALSE, loading |-> FALSE, stale |-> FALSE]
                   ELSE [snap EXCEPT !.error = TRUE, !.loading = FALSE]
    BY <1>3 DEF Land
  <2>2. /\ snap' \in [data : Selection \cup {Nothing}, error : BOOLEAN, loading : BOOLEAN,
                      stale : BOOLEAN]
        /\ ~snap'.loading /\ (snap'.error \/ snap'.data = wants[r])
    BY <2>1 DEF PollInv, PollTypeOK
  <2>3. r # Nothing
    BY PollAssumption DEF Nothing
  <2>4. live /\ attached = deps => wants[r] = deps
    BY <1>3, <2>3 DEF PollInv
  <2> QED BY <1>1, <2>1, <2>2, <2>4 DEF PollInv, PollTypeOK, LastAskedShown
<1> QED BY <1>2, <1>3

LEMMA PollInvInit == PollInit => PollInv
<1> SUFFICES ASSUME PollInit PROVE PollInv
  OBVIOUS
<1>1. snap \in [data : Selection \cup {Nothing}, error : BOOLEAN, loading : BOOLEAN,
               stale : BOOLEAN]
  BY DEF PollInit
<1>2. wants \in [Run -> Selection \cup {Nothing}] /\ flying \subseteq Run
  BY DEF PollInit
<1>3. ~live /\ current = Nothing /\ ~dropping /\ deps = Nothing /\ attached = Nothing /\ ~every
  BY DEF PollInit
<1>4. live \in BOOLEAN /\ every \in BOOLEAN
  BY DEF PollInit
<1> QED BY <1>1, <1>2, <1>3, <1>4 DEF PollInv, PollTypeOK, LastAskedShown

LEMMA PollInvStep ==
  ASSUME PollInv, [PollNext]_pollVars
  PROVE  PollInv'
<1>1. ASSUME NEW d \in Selection, NEW e \in BOOLEAN, Commit(d, e) PROVE PollInv'
  <2>1. d = deps \/ ~live \/ attached # d
    BY <1>1 DEF Commit, PollInv
  <2>2. d # Nothing
    BY PollAssumption DEF Nothing
  <2> QED BY <1>1, <2>1, <2>2 DEF Commit, PollInv, PollTypeOK, LastAskedShown
<1>2. ASSUME Attach PROVE PollInv'
  <2>1. deps # Nothing
    BY <1>2 DEF Attach, PollInv
  <2> QED BY <1>2, <2>1, KeptOrStarted DEF Attach
<1>3. ASSUME Rehearse PROVE PollInv'
  <2>1. deps # Nothing
    BY <1>3 DEF Rehearse, PollInv
  <2> QED BY <1>3, <2>1, KeptOrStarted DEF Rehearse
<1>4. ASSUME TimerFires \/ Reload PROVE PollInv'
  BY <1>4, StartKeeps DEF TimerFires, Reload
<1>5. ASSUME NEW r \in Run, NEW ok \in BOOLEAN, Land(r, ok) PROVE PollInv'
  BY <1>5, LandKeeps
<1>6. ASSUME Reschedule PROVE PollInv'
  BY <1>6 DEF Reschedule, PollInv, PollTypeOK, LastAskedShown
<1>7. ASSUME Turned PROVE PollInv'
  BY <1>7 DEF Turned, PollInv, PollTypeOK, LastAskedShown
<1>8. ASSUME Unmount PROVE PollInv'
  BY <1>8 DEF Unmount, PollInv, PollTypeOK, LastAskedShown
<1>9. ASSUME Dropped PROVE PollInv'
  BY <1>9 DEF Dropped, PollInv, PollTypeOK, LastAskedShown
<1>10. CASE UNCHANGED pollVars
  BY <1>10 DEF pollVars, PollInv, PollTypeOK, LastAskedShown
<1> QED
  BY <1>1, <1>2, <1>3, <1>4, <1>5, <1>6, <1>7, <1>8, <1>9, <1>10 DEF PollNext

\* With nothing in flight the page shows what was selected last, or an error
\* (useAsync.ts, start).
THEOREM LateAnswersLose == PollSpec => []LastAskedShown
<1>1. PollInv => LastAskedShown BY DEF PollInv
<1> QED BY <1>1, PollInvInit, PollInvStep, PTL DEF PollSpec

-----------------------------------------------------------------------------
(* The page and its address agree, for any keys and values, when a link is *)
(* followed only once the page's own address is rendered.  What makes      *)
(* PageIsItsAddress inductive: a key that is being typed shows what its    *)
(* timer will write, a draft that has been written waits for a render of   *)
(* the very value it holds, and a page that is left has no drafts.         *)
(***************************************************************************)

Drafts == [Param -> Setting \cup {Fallback, NotSet}]
Addresses == [page : BOOLEAN, params : Readings]

UrlTypeOK ==
  /\ address \in Addresses /\ rendered \in Addresses
  /\ draft \in Drafts /\ typing \in Drafts /\ lastSet \in Drafts

\* What is typed is shown, was set last if anything was, and is of a typed key.
TypedIsShown ==
  \A k \in Param : typing[k] # NotSet =>
    k \in Typed /\ draft[k] = typing[k] /\ (lastSet[k] # NotSet => lastSet[k] = typing[k])

\* A draft that is written is what the address says, until a render drops it.
WrittenIsSaid ==
  \A k \in Param : typing[k] = NotSet /\ draft[k] # NotSet =>
    /\ address.page => draft[k] = address.params[k]
    /\ ~(rendered = address /\ rendered.page)

\* A page that is left has lost its state.
LeftIsEmpty == ~rendered.page => draft = Nowhere /\ typing = Nowhere

UrlInv == UrlTypeOK /\ TypedIsShown /\ WrittenIsSaid /\ LeftIsEmpty /\ PageIsItsAddress

LEMMA UrlValues ==
  /\ \A v \in Setting \cup {Fallback} : v # NotSet
  /\ Nowhere \in Drafts /\ \A k \in Param : Nowhere[k] = NotSet
BY UrlAssumption DEF Fallback, NotSet, Nowhere, Drafts

\* One key of an address.
LEMMA PatchedOne ==
  ASSUME UrlTypeOK, NEW k \in Param, NEW v \in Setting \cup {Fallback}
  PROVE  /\ Patched(k, v) \in Addresses
         /\ Patched(k, v).page = address.page
         /\ ~address.page => Patched(k, v) = address
         /\ address.page => Patched(k, v).params[k] = v
         /\ \A j \in Param \ {k} : Patched(k, v).params[j] = address.params[j]
BY DEF UrlTypeOK, Patched, Addresses, Readings

LEMMA HereIsAddress ==
  ASSUME NEW params \in Readings
  PROVE  Here(params) \in Addresses /\ Here(params).page
BY DEF Here, Addresses

LEMMA UrlInitial == UrlInit => UrlInv
<1> SUFFICES ASSUME UrlInit PROVE UrlInv OBVIOUS
<1>1. address \in Addresses /\ address.page
  <2>1. PICK params \in Readings : address = Here(params) BY DEF UrlInit
  <2> QED BY <2>1, HereIsAddress
<1> QED
  BY <1>1, UrlValues
  DEF UrlInit, UrlInv, UrlTypeOK, TypedIsShown, WrittenIsSaid, LeftIsEmpty, PageIsItsAddress,
      ValueShown, Readings, Addresses

\* Links and Back, with the page's own address rendered.
LEMMA FollowLinkKeeps ==
  ASSUME UrlInv, Hurried = FALSE, FollowLink
  PROVE  UrlInv'
<1>1. /\ rendered = address /\ rendered' = rendered /\ draft' = draft /\ typing' = typing
      /\ lastSet' = Nowhere /\ (address' = Elsewhere \/ (address' \in Addresses /\ address'.page))
  <2>1. CASE address' = Elsewhere BY <2>1 DEF FollowLink
  <2>2. ASSUME NEW params \in Readings, address' = Here(params)
        PROVE  address' \in Addresses /\ address'.page
    BY <2>2, HereIsAddress
  <2>3. address' = Elsewhere \/ \E params \in Readings : address' = Here(params)
    BY DEF FollowLink
  <2> QED BY <2>1, <2>2, <2>3 DEF FollowLink
<1>2. Elsewhere \in Addresses /\ ~Elsewhere.page
  BY DEF Elsewhere, Addresses, Plain, Readings
<1>3. \A k \in Param : typing[k] = NotSet => draft[k] = NotSet
  BY <1>1, UrlValues DEF UrlInv, WrittenIsSaid, LeftIsEmpty
<1>4. UrlTypeOK' BY <1>1, <1>2, UrlValues DEF UrlInv, UrlTypeOK
<1>5. TypedIsShown' BY <1>1, UrlValues DEF UrlInv, TypedIsShown
<1>6. WrittenIsSaid' BY <1>1, <1>3 DEF WrittenIsSaid
<1>7. LeftIsEmpty' BY <1>1 DEF UrlInv, LeftIsEmpty, Nowhere
<1>8. PageIsItsAddress'
  BY <1>1, <1>2, <1>3, UrlValues DEF PageIsItsAddress, ValueShown
<1> QED BY <1>4, <1>5, <1>6, <1>7, <1>8 DEF UrlInv

LEMMA RenderKeeps ==
  ASSUME UrlInv, Render
  PROVE  UrlInv'
<1>1. /\ rendered' = address /\ address' = address /\ lastSet' = lastSet
      /\ typing' = IF address.page THEN typing ELSE Nowhere
      /\ draft' = IF address.page THEN WithoutSaid(draft, typing, address.params) ELSE Nowhere
  BY DEF Render
<1>2. draft' \in Drafts /\ typing' \in Drafts
  BY <1>1, UrlValues DEF UrlInv, UrlTypeOK, WithoutSaid, Drafts
<1>3. ASSUME NEW k \in Param, address.page
      PROVE  /\ typing[k] = NotSet => draft'[k] = NotSet
             /\ typing[k] # NotSet => draft'[k] = draft[k]
  BY <1>1, <1>3 DEF WithoutSaid, UrlInv, WrittenIsSaid
<1>4. UrlTypeOK' BY <1>1, <1>2 DEF UrlInv, UrlTypeOK
<1>5. TypedIsShown' BY <1>1, <1>3, UrlValues DEF UrlInv, TypedIsShown
<1>6. WrittenIsSaid' BY <1>1, <1>3, UrlValues DEF WrittenIsSaid
<1>7. LeftIsEmpty' BY <1>1 DEF LeftIsEmpty, Nowhere
<1>8. PageIsItsAddress'
  BY <1>1, <1>3 DEF UrlInv, PageIsItsAddress, ValueShown, Elsewhere, Plain
<1> QED BY <1>4, <1>5, <1>6, <1>7, <1>8 DEF UrlInv

LEMMA WriteTypedKeeps ==
  ASSUME UrlInv, NEW k \in Param, WriteTyped(k)
  PROVE  UrlInv'
<1> DEFINE v == typing[k]
<1>1. /\ v # NotSet /\ address' = Patched(k, v) /\ typing' = [typing EXCEPT ![k] = NotSet]
      /\ draft' = WithoutSaid(draft, typing', rendered.params)
      /\ rendered' = rendered /\ lastSet' = lastSet
  BY DEF WriteTyped
<1>2. v \in Setting \cup {Fallback}
  BY <1>1 DEF UrlInv, UrlTypeOK, Drafts
<1>3. /\ address' \in Addresses /\ address'.page = address.page
      /\ ~address.page => address' = address
      /\ address.page => address'.params[k] = v
      /\ \A j \in Param \ {k} : address'.params[j] = address.params[j]
  BY <1>1, <1>2, PatchedOne DEF UrlInv
<1>4. /\ typing' \in Drafts /\ typing'[k] = NotSet
      /\ \A j \in Param \ {k} : typing'[j] = typing[j]
  BY <1>1 DEF UrlInv, UrlTypeOK, Drafts
<1>5. /\ draft' \in Drafts /\ draft[k] = v /\ (lastSet[k] # NotSet => lastSet[k] = v)
      /\ rendered.page
  BY <1>1, UrlValues
  DEF UrlInv, UrlTypeOK, TypedIsShown, LeftIsEmpty, WithoutSaid, Drafts
<1>6. ASSUME NEW j \in Param
      PROVE  /\ typing'[j] # NotSet => draft'[j] = draft[j]
             /\ draft'[j] # NotSet => draft'[j] = draft[j]
             /\ typing'[j] = NotSet /\ draft[j] = rendered.params[j] => draft'[j] = NotSet
  BY <1>1 DEF WithoutSaid
<1>7. ASSUME NEW j \in Param, typing'[j] = NotSet, draft'[j] # NotSet
      PROVE  /\ address'.page => draft'[j] = address'.params[j]
             /\ ~(rendered = address' /\ rendered.page)
  <2>1. draft'[j] = draft[j] /\ draft[j] # rendered.params[j] BY <1>6, <1>7
  <2>2. address'.page => draft[j] = address'.params[j]
    BY <1>3, <1>4, <1>5, <1>7, <2>1 DEF UrlInv, WrittenIsSaid
  <2> QED BY <2>1, <2>2
<1> HIDE DEF v
<1>8. UrlTypeOK' BY <1>1, <1>3, <1>4, <1>5 DEF UrlInv, UrlTypeOK
<1>9. TypedIsShown' BY <1>1, <1>4, <1>6 DEF UrlInv, TypedIsShown
<1>10. WrittenIsSaid' BY <1>1, <1>7 DEF WrittenIsSaid
<1>11. LeftIsEmpty' BY <1>1, <1>5 DEF LeftIsEmpty
<1>12. PageIsItsAddress'
  <2>1. rendered = address' /\ rendered.page =>
          \A j \in Param : typing'[j] = NotSet => draft'[j] = NotSet
    BY <1>7
  <2>2. address'.page => \A j \in Param :
          lastSet[j] # NotSet /\ typing'[j] = NotSet => address'.params[j] = lastSet[j]
    BY <1>3, <1>4, <1>5 DEF UrlInv, PageIsItsAddress
  <2>3. ~address'.page => address' = Elsewhere
    BY <1>3 DEF UrlInv, PageIsItsAddress
  <2> QED BY <1>1, <2>1, <2>2, <2>3 DEF PageIsItsAddress, ValueShown, Elsewhere, Plain
<1> QED BY <1>8, <1>9, <1>10, <1>11, <1>12 DEF UrlInv

LEMMA SetValueKeeps ==
  ASSUME UrlInv, NEW k \in Param, NEW v \in Setting \cup {Fallback}, SetValue(k, v)
  PROVE  UrlInv'
<1>1. /\ rendered' = rendered /\ rendered.page /\ lastSet' = [lastSet EXCEPT ![k] = v]
      /\ draft' = WithoutSaid([draft EXCEPT ![k] = v], typing', rendered.params)
      /\ v # NotSet
  BY UrlValues DEF SetValue
<1>2. /\ typing' \in Drafts
      /\ \A j \in Param \ {k} : typing'[j] = typing[j]
      /\ typing'[k] = IF k \in Typed THEN v ELSE NotSet
      /\ address' = IF k \in Typed THEN address ELSE Patched(k, v)
  <2>1. CASE k \in Typed
    BY <2>1 DEF SetValue, UrlInv, UrlTypeOK, Drafts
  <2>2. CASE k \notin Typed
    BY <2>2 DEF SetValue, UrlInv, UrlTypeOK, Drafts, TypedIsShown
  <2> QED BY <2>1, <2>2
<1>3. /\ address' \in Addresses /\ address'.page = address.page
      /\ ~address.page => address' = address
      /\ address.page /\ k \notin Typed => address'.params[k] = v
      /\ \A j \in Param \ {k} : address'.params[j] = address.params[j]
  <2>1. CASE k \in Typed BY <1>2, <2>1 DEF UrlInv, UrlTypeOK
  <2>2. CASE k \notin Typed BY <1>2, <2>2, PatchedOne DEF UrlInv
  <2> QED BY <2>1, <2>2
<1>4. /\ lastSet' \in Drafts /\ lastSet'[k] = v
      /\ \A j \in Param \ {k} : lastSet'[j] = lastSet[j]
  BY <1>1 DEF UrlInv, UrlTypeOK, Drafts
<1>5. /\ draft' \in Drafts
      /\ \A j \in Param \ {k} :
           /\ typing'[j] # NotSet => draft'[j] = draft[j]
           /\ draft'[j] # NotSet => draft'[j] = draft[j]
           /\ typing'[j] = NotSet /\ draft[j] = rendered.params[j] => draft'[j] = NotSet
      /\ k \in Typed => draft'[k] = v
      /\ draft'[k] # NotSet => draft'[k] = v
      /\ k \notin Typed /\ v = rendered.params[k] => draft'[k] = NotSet
  <2> DEFINE d == [draft EXCEPT ![k] = v]
  <2>1. d \in Drafts /\ d[k] = v /\ \A j \in Param \ {k} : d[j] = draft[j]
    BY DEF UrlInv, UrlTypeOK, Drafts
  <2>2. draft' = [j \in Param |-> IF typing'[j] = NotSet /\ d[j] = rendered.params[j] THEN NotSet ELSE d[j]]
    BY <1>1 DEF WithoutSaid
  <2> HIDE DEF d
  <2>3. draft' \in Drafts BY <2>1, <2>2 DEF Drafts
  <2> QED BY <1>1, <1>2, <2>1, <2>2, <2>3
<1>6. ASSUME NEW j \in Param, typing'[j] = NotSet, draft'[j] # NotSet
      PROVE  /\ address'.page => draft'[j] = address'.params[j]
             /\ ~(rendered = address' /\ rendered.page)
  <2>1. CASE j = k
    <3>1. k \notin Typed /\ draft'[k] = v /\ v # rendered.params[k]
      BY <1>1, <1>2, <1>5, <1>6, <2>1
    <3>2. address'.page => address'.params[k] = v BY <1>3, <3>1
    <3> QED BY <2>1, <3>1, <3>2
  <2>2. CASE j # k
    <3>1. typing[j] = NotSet /\ draft'[j] = draft[j] /\ draft[j] # rendered.params[j]
      BY <1>2, <1>5, <1>6, <2>2
    <3>2. address'.page => draft[j] = address'.params[j]
      BY <1>3, <1>6, <2>2, <3>1 DEF UrlInv, WrittenIsSaid
    <3> QED BY <3>1, <3>2
  <2> QED BY <2>1, <2>2
<1>7. UrlTypeOK' BY <1>1, <1>2, <1>3, <1>4, <1>5 DEF UrlInv, UrlTypeOK
<1>8. TypedIsShown'
  <2>1. \A j \in Param \ {k} : typing'[j] # NotSet =>
           j \in Typed /\ draft'[j] = typing'[j] /\ (lastSet'[j] # NotSet => lastSet'[j] = typing'[j])
    BY <1>2, <1>4, <1>5 DEF UrlInv, TypedIsShown
  <2>2. typing'[k] # NotSet => k \in Typed /\ draft'[k] = typing'[k] /\ lastSet'[k] = typing'[k]
    BY <1>2, <1>4, <1>5
  <2> QED BY <2>1, <2>2 DEF TypedIsShown
<1>9. WrittenIsSaid' BY <1>1, <1>6 DEF WrittenIsSaid
<1>10. LeftIsEmpty' BY <1>1 DEF LeftIsEmpty
<1>11. PageIsItsAddress'
  <2>1. rendered = address' /\ rendered.page =>
          \A j \in Param : typing'[j] = NotSet => draft'[j] = NotSet
    BY <1>6
  <2>2. address'.page => \A j \in Param :
          lastSet'[j] # NotSet /\ typing'[j] = NotSet => address'.params[j] = lastSet'[j]
    BY <1>1, <1>2, <1>3, <1>4 DEF UrlInv, PageIsItsAddress
  <2>3. ~address'.page => address' = Elsewhere
    BY <1>3 DEF UrlInv, PageIsItsAddress
  <2> QED BY <1>1, <2>1, <2>2, <2>3 DEF PageIsItsAddress, ValueShown, Elsewhere, Plain
<1> QED BY <1>7, <1>8, <1>9, <1>10, <1>11 DEF UrlInv

\* Once the address is rendered the page shows what it says, and what the reader
\* has set since the last link is in it (useUrlState.ts, useSearchPatch), for any
\* keys and values, debounced or not, when no link is followed between a write
\* and its render.
THEOREM AddressKept ==
  ASSUME Hurried = FALSE
  PROVE  UrlSpec => []PageIsItsAddress
<1>1. UrlInv /\ [UrlNext]_urlVars => UrlInv'
  <2> SUFFICES ASSUME UrlInv, [UrlNext]_urlVars PROVE UrlInv'
    OBVIOUS
  <2>1. CASE UNCHANGED urlVars
    BY <2>1
    DEF urlVars, UrlInv, UrlTypeOK, TypedIsShown, WrittenIsSaid, LeftIsEmpty, PageIsItsAddress,
        ValueShown, Elsewhere, Plain
  <2> QED
    BY <2>1, SetValueKeeps, WriteTypedKeeps, RenderKeeps, FollowLinkKeeps DEF UrlNext
<1>2. UrlInv => PageIsItsAddress BY DEF UrlInv
<1> QED BY <1>1, <1>2, UrlInitial, PTL DEF UrlSpec

-----------------------------------------------------------------------------
(* A row waits a whole minute for its last send, for any rows, sends and   *)
(* length of the minute.  What makes the step property hold: a problem has *)
(* one timer at most, the one last started, which has left what the row    *)
(* has not waited yet, and a row that waits has one.                       *)

SentTypeOK ==
  /\ sent \in [Row -> [acknowledge : BOOLEAN, close : BOOLEAN, late : BOOLEAN]]
  /\ latest \in [Row -> [of : Row \cup {"none"}, left : 0..WaitTicks]]
  /\ waited \in [Row -> 0..WaitTicks]
  /\ dialog.open => dialog.of \in Row

\* Every timer that runs is the last of its problem.
TimersAreLatest == \A t \in timers : t.of \in Row /\ latest[t.of] = t

\* A problem's last timer runs, from its last send on.
LatestRuns ==
  \A e \in Row : latest[e] # NoTimer =>
    latest[e] \in timers /\ latest[e].of = e /\ latest[e].left = WaitTicks - waited[e]

\* What is awaited and not given up has a timer.
AwaitedHasTimer == \A e \in Row : Awaited(e) /\ ~sent[e].late => latest[e] # NoTimer

SentInv == SentTypeOK /\ TimersAreLatest /\ LatestRuns /\ AwaitedHasTimer

LEMMA SentInitial == SentInit => SentInv
<1> SUFFICES ASSUME SentInit PROVE SentInv OBVIOUS
<1>1. 0 \in 0..WaitTicks BY SentAssumption
<1>2. SentTypeOK BY <1>1 DEF SentInit, SentTypeOK, NothingSent, NoTimer, Shut
<1> QED
  BY <1>2 DEF SentInit, SentInv, TimersAreLatest, LatestRuns, AwaitedHasTimer, Awaited

\* A new send of a row starts its minute again.
LEMMA OnSentKeeps ==
  ASSUME SentInv, NEW e \in Row, NEW acknowledge \in BOOLEAN, NEW close \in BOOLEAN,
         acknowledge \/ close, OnSent(e, acknowledge, close), dialog' = Shut
  PROVE  SentInv'
<1> DEFINE t == [of |-> e, left |-> WaitTicks]
           s == [acknowledge |-> acknowledge, close |-> close, late |-> FALSE]
<1>1. /\ sent' = [sent EXCEPT ![e] = s] /\ waited' = [waited EXCEPT ![e] = 0]
      /\ latest' = [latest EXCEPT ![e] = t]
  BY DEF OnSent, StartTimer
<1>2. /\ t \in [of : Row \cup {"none"}, left : 0..WaitTicks] /\ t.of = e /\ t.left = WaitTicks
      /\ t # NoTimer /\ s \in [acknowledge : BOOLEAN, close : BOOLEAN, late : BOOLEAN]
      /\ WaitTicks \in Nat /\ 0 \in 0..WaitTicks
  <2>1. WaitTicks \in Nat BY SentAssumption
  <2>2. t.of # "none" BY SentAssumption
  <2> QED BY <2>1, <2>2 DEF NoTimer
<1> HIDE DEF t, s
<1>3. latest'[e] = t BY <1>1 DEF SentInv, SentTypeOK
<1>4. timers' = (timers \ {latest[e]}) \cup {t}
  BY <1>3 DEF OnSent, StartTimer
<1>5. \A r \in Row \ {e} : sent'[r] = sent[r] /\ waited'[r] = waited[r] /\ latest'[r] = latest[r]
  BY <1>1 DEF SentInv, SentTypeOK
<1>6. waited'[e] = 0 BY <1>1 DEF SentInv, SentTypeOK
<1>7. SentTypeOK'
  <2>1. ~dialog'.open BY DEF Shut
  <2> QED BY <1>1, <1>2, <2>1 DEF SentInv, SentTypeOK
<1>8. TimersAreLatest'
  BY <1>2, <1>3, <1>4, <1>5 DEF SentInv, TimersAreLatest
<1>9. LatestRuns'
  <2>1. latest'[e] \in timers' /\ latest'[e].of = e /\ latest'[e].left = WaitTicks - waited'[e]
    BY <1>2, <1>3, <1>4, <1>6
  <2>2. ASSUME NEW r \in Row \ {e}, latest'[r] # NoTimer
        PROVE  latest'[r] \in timers' /\ latest'[r].of = r /\ latest'[r].left = WaitTicks - waited'[r]
    <3>1. latest[r] \in timers /\ latest[r].of = r /\ latest[r].left = WaitTicks - waited[r]
      BY <1>5, <2>2 DEF SentInv, LatestRuns
    <3>2. latest[r] # latest[e]
      BY <1>5, <2>2, <3>1 DEF SentInv, LatestRuns
    <3> QED BY <1>4, <1>5, <3>1, <3>2
  <2> QED BY <2>1, <2>2 DEF LatestRuns
<1>10. AwaitedHasTimer'
  BY <1>2, <1>3, <1>5 DEF SentInv, AwaitedHasTimer, Awaited
<1> QED BY <1>7, <1>8, <1>9, <1>10 DEF SentInv

\* closeNotApplied.
LEMMA LateIsSent ==
  ASSUME NEW s \in [acknowledge : BOOLEAN, close : BOOLEAN, late : BOOLEAN]
  PROVE  [s EXCEPT !.late = TRUE] \in [acknowledge : BOOLEAN, close : BOOLEAN, late : BOOLEAN]
OBVIOUS

LEMMA WaitIsOverKeeps ==
  ASSUME SentInv, NEW t \in timers, WaitIsOver(t)
  PROVE  SentInv' /\ t.of \in Row /\ waited[t.of] = WaitTicks
<1> DEFINE e == t.of
<1>1. /\ e \in Row /\ latest[e] = t /\ t.left = 0 /\ timers' = timers \ {t}
      /\ latest' = [latest EXCEPT ![e] = NoTimer] /\ waited' = waited /\ dialog' = dialog
  BY DEF WaitIsOver, SentInv, TimersAreLatest
<1>2. sent' = [sent EXCEPT ![e] = IF sent[e].close THEN [sent[e] EXCEPT !.late = TRUE] ELSE NothingSent]
  BY DEF WaitIsOver
<1> HIDE DEF e
<1>3. latest'[e] = NoTimer /\ \A r \in Row \ {e} : latest'[r] = latest[r] /\ sent'[r] = sent[r]
  BY <1>1, <1>2 DEF SentInv, SentTypeOK
<1>4. sent'[e] = NothingSent \/ sent'[e].late
  <2>1. sent[e] \in [acknowledge : BOOLEAN, close : BOOLEAN, late : BOOLEAN]
    BY <1>1 DEF SentInv, SentTypeOK
  <2>2. sent'[e] = IF sent[e].close THEN [sent[e] EXCEPT !.late = TRUE] ELSE NothingSent
    BY <1>1, <1>2 DEF SentInv, SentTypeOK
  <2> QED BY <2>1, <2>2
<1>5. SentTypeOK'
  <2>1. NoTimer \in [of : Row \cup {"none"}, left : 0..WaitTicks] BY SentAssumption DEF NoTimer
  <2>2. NothingSent \in [acknowledge : BOOLEAN, close : BOOLEAN, late : BOOLEAN] BY DEF NothingSent
  <2>3. [sent[e] EXCEPT !.late = TRUE] \in [acknowledge : BOOLEAN, close : BOOLEAN, late : BOOLEAN]
    <3>1. sent[e] \in [acknowledge : BOOLEAN, close : BOOLEAN, late : BOOLEAN]
      BY <1>1 DEF SentInv, SentTypeOK
    <3> QED BY <3>1, LateIsSent
  <2> QED BY <1>1, <1>2, <2>1, <2>2, <2>3 DEF SentInv, SentTypeOK
<1>6. TimersAreLatest'
  BY <1>1, <1>3 DEF SentInv, TimersAreLatest
<1>7. LatestRuns'
  <2>1. ASSUME NEW r \in Row, latest'[r] # NoTimer
        PROVE  latest'[r] \in timers' /\ latest'[r].of = r /\ latest'[r].left = WaitTicks - waited'[r]
    <3>1. r # e /\ latest'[r] = latest[r] BY <1>3, <2>1
    <3>2. latest[r] \in timers /\ latest[r].of = r /\ latest[r].left = WaitTicks - waited[r]
      BY <2>1, <3>1 DEF SentInv, LatestRuns
    <3>3. latest[r] # t BY <3>1, <3>2 DEF e
    <3> QED BY <1>1, <3>1, <3>2, <3>3
  <2> QED BY <2>1 DEF LatestRuns
<1>8. AwaitedHasTimer'
  BY <1>3, <1>4 DEF SentInv, AwaitedHasTimer, Awaited
<1>9. waited[e] = WaitTicks
  <2>1. t # NoTimer BY <1>1, SentAssumption DEF NoTimer, e
  <2>2. t.left = WaitTicks - waited[e] BY <1>1, <2>1 DEF SentInv, LatestRuns
  <2>3. waited[e] \in 0..WaitTicks BY <1>1 DEF SentInv, SentTypeOK
  <2> QED BY <1>1, <2>2, <2>3, SentAssumption
<1> QED BY <1>1, <1>5, <1>6, <1>7, <1>8, <1>9 DEF SentInv, e

LEMMA SentTickKeeps ==
  ASSUME SentInv, SentTick
  PROVE  SentInv'
<1>1. /\ \A t \in timers : t.left > 0
      /\ timers' = {Ticked(t) : t \in timers}
      /\ latest' = [e \in Row |-> IF latest[e] \in timers THEN Ticked(latest[e]) ELSE latest[e]]
      /\ waited' = [e \in Row |-> IF waited[e] < WaitTicks THEN waited[e] + 1 ELSE waited[e]]
      /\ UNCHANGED <<sent, dialog>>
  BY DEF SentTick
<1>2. ASSUME NEW e \in Row, latest[e] # NoTimer
      PROVE  /\ latest[e] \in timers /\ latest'[e] = Ticked(latest[e]) /\ latest'[e] \in timers'
             /\ latest'[e].of = e /\ latest'[e].left = WaitTicks - waited'[e]
             /\ latest'[e] \in [of : Row \cup {"none"}, left : 0..WaitTicks]
             /\ waited'[e] \in 0..WaitTicks
  <2>1. latest[e] \in timers /\ latest[e].of = e /\ latest[e].left = WaitTicks - waited[e]
    BY <1>2 DEF SentInv, LatestRuns
  <2>2. /\ latest[e] \in [of : Row \cup {"none"}, left : 0..WaitTicks]
        /\ waited[e] \in 0..WaitTicks /\ WaitTicks \in Nat
    BY SentAssumption DEF SentInv, SentTypeOK
  <2>3. latest[e].left > 0 BY <1>1, <2>1
  <2>4. waited'[e] = waited[e] + 1 BY <1>1, <2>1, <2>2, <2>3
  <2>5. Ticked(latest[e]).of = e /\ Ticked(latest[e]).left = latest[e].left - 1
        /\ Ticked(latest[e]) \in [of : Row \cup {"none"}, left : 0..WaitTicks]
    BY <2>1, <2>2, <2>3 DEF Ticked
  <2>6. latest'[e] = Ticked(latest[e]) /\ latest'[e] \in timers' BY <1>1, <2>1
  <2> QED BY <2>1, <2>2, <2>3, <2>4, <2>5, <2>6
<1>3. ASSUME NEW e \in Row, latest[e] = NoTimer
      PROVE  latest'[e] = NoTimer /\ waited'[e] \in 0..WaitTicks
  <2>1. latest[e] \notin timers
    <3> SUFFICES ASSUME NoTimer \in timers PROVE FALSE BY <1>3
    <3>1. NoTimer.of \in Row BY DEF SentInv, TimersAreLatest
    <3> QED BY <3>1, SentAssumption DEF NoTimer
  <2>2. waited[e] \in 0..WaitTicks /\ WaitTicks \in Nat BY SentAssumption DEF SentInv, SentTypeOK
  <2> QED BY <1>1, <1>3, <2>1, <2>2
<1>4. SentTypeOK'
  <2>1. \A e \in Row : latest'[e] \in [of : Row \cup {"none"}, left : 0..WaitTicks] /\ waited'[e] \in 0..WaitTicks
    BY <1>2, <1>3 DEF SentInv, SentTypeOK
  <2> QED BY <1>1, <2>1 DEF SentInv, SentTypeOK
<1>5. TimersAreLatest'
  <2>1. ASSUME NEW u \in timers' PROVE u.of \in Row /\ latest'[u.of] = u
    <3>1. PICK t \in timers : u = Ticked(t) BY <1>1
    <3>2. t.of \in Row /\ latest[t.of] = t BY DEF SentInv, TimersAreLatest
    <3>3. t \in [of : Row \cup {"none"}, left : 0..WaitTicks] BY <3>2 DEF SentInv, SentTypeOK
    <3>4. u.of = t.of BY <3>1, <3>3 DEF Ticked
    <3> QED BY <1>1, <3>1, <3>2, <3>4
  <2> QED BY <2>1 DEF TimersAreLatest
<1>6. LatestRuns' BY <1>2, <1>3 DEF LatestRuns
<1>7. AwaitedHasTimer'
  <2>1. \A e \in Row : latest[e] # NoTimer => latest'[e] # NoTimer
    BY <1>2, SentAssumption DEF NoTimer
  <2> QED BY <1>1, <2>1 DEF SentInv, AwaitedHasTimer, Awaited
<1> QED BY <1>4, <1>5, <1>6, <1>7 DEF SentInv

LEMMA ReadListKeeps ==
  ASSUME SentInv, ReadList
  PROVE  SentInv'
<1>1. /\ sent' = StillAwaited(sent, shownRows') /\ UNCHANGED <<dialog, timers, latest, waited>>
  BY DEF ReadList
<1>2. NothingSent \in [acknowledge : BOOLEAN, close : BOOLEAN, late : BOOLEAN] BY DEF NothingSent
<1>3. \A e \in Row : sent'[e] = sent[e] \/ sent'[e] = NothingSent
  BY <1>1 DEF StillAwaited
<1>4. SentTypeOK' BY <1>1, <1>2 DEF SentInv, SentTypeOK, StillAwaited
<1>5. TimersAreLatest' /\ LatestRuns'
  BY <1>1 DEF SentInv, TimersAreLatest, LatestRuns
<1>6. AwaitedHasTimer' BY <1>1, <1>3 DEF SentInv, AwaitedHasTimer, Awaited
<1> QED BY <1>4, <1>5, <1>6 DEF SentInv

\* A step that is of no send and no timer.
LEMMA SentUntouched ==
  ASSUME SentInv, UNCHANGED <<sent, timers, latest, waited>>, dialog'.open => dialog'.of \in Row
  PROVE  SentInv'
BY DEF SentInv, SentTypeOK, TimersAreLatest, LatestRuns, AwaitedHasTimer, Awaited

LEMMA SubmitCases ==
  ASSUME SentInv, Submit
  PROVE  \/ UNCHANGED <<dialog, sent, waited, timers, latest>>
         \/ dialog' = Shut /\ UNCHANGED <<sent, waited, timers, latest>>
         \/ \E acknowledge, close \in BOOLEAN :
              /\ acknowledge \/ close
              /\ dialog' = Shut /\ dialog.of \in Row /\ OnSent(dialog.of, acknowledge, close)
<1>1. dialog.of \in Row BY DEF Submit, SentInv, SentTypeOK
<1>2. PICK acknowledge, close \in BOOLEAN :
        \/ dialog' = Shut /\ OnSent(dialog.of, acknowledge /\ ~dialog.acknowledged, close)
        \/ UNCHANGED <<dialog, sent, waited, timers, latest>>
  BY DEF Submit
<1> DEFINE a == acknowledge /\ ~dialog.acknowledged
<1>3. CASE UNCHANGED <<dialog, sent, waited, timers, latest>>
  BY <1>3
<1>4. CASE dialog' = Shut /\ OnSent(dialog.of, a, close) /\ (a \/ close)
  <2>1. a \in BOOLEAN OBVIOUS
  <2> HIDE DEF a
  <2> QED BY <1>1, <1>4, <2>1
<1>5. CASE dialog' = Shut /\ OnSent(dialog.of, a, close) /\ ~(a \/ close)
  BY <1>5 DEF OnSent
<1> QED BY <1>2, <1>3, <1>4, <1>5

LEMMA SubmitKeeps ==
  ASSUME SentInv, Submit
  PROVE  SentInv'
<1>1. ~Shut.open BY DEF Shut
<1>2. CASE UNCHANGED <<dialog, sent, waited, timers, latest>>
  BY <1>2, SentUntouched DEF SentInv, SentTypeOK
<1>3. CASE dialog' = Shut /\ UNCHANGED <<sent, waited, timers, latest>>
  BY <1>1, <1>3, SentUntouched
<1>4. ASSUME NEW acknowledge \in BOOLEAN, NEW close \in BOOLEAN, acknowledge \/ close,
             dialog' = Shut, dialog.of \in Row, OnSent(dialog.of, acknowledge, close)
      PROVE  SentInv'
  BY <1>4, OnSentKeeps
<1> QED BY <1>2, <1>3, <1>4, SubmitCases

LEMMA SentStep ==
  ASSUME SentInv, [SentNext]_sentVars
  PROVE  SentInv'
<1>1. CASE UNCHANGED sentVars
  BY <1>1, SentUntouched DEF sentVars, SentInv, SentTypeOK
<1>2. ASSUME NEW e \in Row, ZabbixChanges(e) PROVE SentInv'
  BY <1>2, SentUntouched DEF ZabbixChanges, SentInv, SentTypeOK
<1>3. ASSUME NEW e \in Row, OpenDialog(e) PROVE SentInv'
  BY <1>3, SentUntouched DEF OpenDialog
<1>4. CASE CloseDialog
  BY <1>4, SentUntouched DEF CloseDialog, Shut
<1> QED
  BY <1>1, <1>2, <1>3, <1>4, ReadListKeeps, SubmitKeeps, SentTickKeeps, WaitIsOverKeeps DEF SentNext

\* "A new send starts a new minute: the earlier send's timer must not end this
\* wait early" (Problems.tsx, onSent, giveUp): whatever is sent again, fails, is
\* read or changes at Zabbix meanwhile, a row stops waiting only when the list
\* shows the change, the problem has left it, or the minute is over.
THEOREM MinuteIsWhole == SentSpec => MinuteKept
<1> DEFINE Kept(e) == Waiting(e) /\ ~Waiting(e)' =>
                        \/ Applied(shownRows'[e], sent[e]) \/ ~shownRows'[e].listed
                        \/ Awaited(e)' /\ Applied(shownRows[e], sent[e])'
                        \/ waited[e] = WaitTicks
<1>1. ASSUME SentInv, [SentNext]_sentVars, NEW e \in Row PROVE Kept(e)
  <2>1. ASSUME sent' = sent, shownRows' = shownRows PROVE Kept(e)
    BY <2>1 DEF Waiting, Awaited, Applied
  <2>2. CASE ReadList
    <3>1. sent'[e] = IF shownRows'[e].listed /\ ~Applied(shownRows'[e], sent[e]) THEN sent[e] ELSE NothingSent
      BY <2>2 DEF ReadList, StillAwaited
    <3> QED BY <3>1 DEF Waiting, Awaited, Applied
  <2>3. CASE Submit
    <3>1. CASE UNCHANGED sent BY <2>1, <2>3, <3>1 DEF Submit
    <3>2. ASSUME NEW acknowledge \in BOOLEAN, NEW close \in BOOLEAN, acknowledge \/ close,
                 dialog.of \in Row, OnSent(dialog.of, acknowledge, close)
          PROVE  Kept(e)
      <4>1. CASE e = dialog.of
        <5>1. sent'[e] = [acknowledge |-> acknowledge, close |-> close, late |-> FALSE]
          BY <1>1, <3>2, <4>1 DEF OnSent, SentInv, SentTypeOK
        <5>2. sent'[e] # NothingSent /\ ~sent'[e].late
          BY <3>2, <5>1 DEF NothingSent
        <5> QED BY <5>2 DEF Waiting, Awaited
      <4>2. CASE e # dialog.of
        <5>1. sent'[e] = sent[e] /\ shownRows' = shownRows
          BY <1>1, <2>3, <3>2, <4>2 DEF OnSent, Submit, SentInv, SentTypeOK
        <5> QED BY <5>1 DEF Waiting, Awaited, Applied
      <4> QED BY <4>1, <4>2
    <3> QED BY <1>1, <2>3, <3>1, <3>2, SubmitCases
  <2>4. ASSUME NEW t \in timers, WaitIsOver(t) PROVE Kept(e)
    <3>1. CASE e = t.of BY <1>1, <2>4, <3>1, WaitIsOverKeeps
    <3>2. CASE e # t.of
      <4>1. sent'[e] = sent[e] /\ shownRows' = shownRows
        BY <1>1, <2>4, <3>2 DEF WaitIsOver, SentInv, SentTypeOK
      <4> QED BY <4>1 DEF Waiting, Awaited, Applied
    <3> QED BY <3>1, <3>2
  <2> QED
    BY <1>1, <2>1, <2>2, <2>3, <2>4
    DEF SentNext, sentVars, ZabbixChanges, OpenDialog, CloseDialog, SentTick
<1>2. SentInv /\ [SentNext]_sentVars => [\A e \in Row : Kept(e)]_sentVars
  BY <1>1
<1>3. SentInv /\ [SentNext]_sentVars => SentInv'
  BY SentStep
<1> HIDE DEF Kept
<1>4. SentSpec => [][\A e \in Row : Kept(e)]_sentVars
  BY <1>2, <1>3, SentInitial, PTL DEF SentSpec
<1> QED BY <1>4 DEF MinuteKept, Kept

-----------------------------------------------------------------------------
(***************************************************************************)
(* The highlight.  Nothing marked Cleared ever waits off the screen: what  *)
(* is marked is where it would still have a row, and a list that takes the *)
(* row away takes the mark with it, in the same step.                      *)
(***************************************************************************)

HighlightTypeOK ==
  /\ list \in [loaded : BOOLEAN, open : SUBSET Problem, held : SUBSET Problem]
  /\ on \in BOOLEAN
  /\ DOMAIN gone \subseteq Problem

\* No marks without motion or a list; and each one in its place.
ClearedInPlace ==
  /\ ~on \/ ~list.loaded => DOMAIN gone = {}
  /\ \A p \in DOMAIN gone : p \notin list.open /\ StillPlaced(p, list.open)

HighlightInv == HighlightTypeOK /\ ClearedInPlace

\* What still has its place is on screen.
LEMMA PlacedIsOnScreen ==
  ASSUME NEW open \in SUBSET Problem, NEW cleared, NEW p \in cleared \ open, p \in Problem,
         StillPlaced(p, open)
  PROVE  p \in Rows(open, cleared)
<1> DEFINE before == Worse(p, open \cup {p})
<1>1. IsFiniteSet(before) /\ Cardinality(before) \in Nat /\ Cardinality(before) < LiveRows
  <2>1. IsFiniteSet(Problem) /\ before \subseteq Problem
    BY HighlightAssumption DEF Worse
  <2> QED BY <2>1, FS_Subset, FS_CardinalityType DEF StillPlaced, TopRows
<1>2. ASSUME NEW q \in Worse(p, open) PROVE Cardinality(Worse(q, open)) < LiveRows
  <2>1. Worse(q, open) \subseteq before
    <3> SUFFICES ASSUME NEW r \in open, r < q PROVE r < p
      BY DEF Worse
    <3>1. p \in Nat /\ q \in Nat /\ r \in Nat /\ q < p
      BY HighlightAssumption DEF Worse
    <3> QED BY <3>1
  <2>2. Cardinality(Worse(q, open)) \in Nat /\ Cardinality(Worse(q, open)) <= Cardinality(before)
    BY <1>1, <2>1, FS_Subset, FS_CardinalityType
  <2> QED BY <1>1, <2>2, HighlightAssumption
<1> QED BY <1>2 DEF Rows

LEMMA ClearedAreOnScreen ==
  ASSUME HighlightInv
  PROVE  \A p \in DOMAIN gone : p \in OnScreen
<1> SUFFICES ASSUME NEW p \in DOMAIN gone PROVE p \in OnScreen
  OBVIOUS
<1>1. list.open \in SUBSET Problem /\ p \in Problem /\ p \notin list.open /\ StillPlaced(p, list.open)
  BY DEF HighlightInv, HighlightTypeOK, ClearedInPlace
<1>2. p \in Rows(list.open, DOMAIN gone)
  BY <1>1, PlacedIsOnScreen
<1> QED BY <1>2 DEF OnScreen

LEMMA HighlightInitial == HighlightInit => HighlightInv
<1> SUFFICES ASSUME HighlightInit PROVE HighlightInv
  OBVIOUS
<1>1. DOMAIN gone = {} /\ on = FALSE
  BY DEF HighlightInit, NoMarks
<1>2. list \in [loaded : BOOLEAN, open : SUBSET Problem, held : SUBSET Problem]
  BY DEF HighlightInit, Unlisted
<1> QED BY <1>1, <1>2 DEF HighlightInv, HighlightTypeOK, ClearedInPlace

\* A new list: what is marked after it was on screen before.
LEMMA NewListKeeps ==
  ASSUME HighlightInv, NEW open \in SUBSET Problem, NEW held \in SUBSET Problem, NewList(open, held)
  PROVE  HighlightInv' /\ \A p \in DOMAIN gone' : p \in OnScreen
<1>1. list'.open = open /\ list'.loaded = TRUE /\ on' = on
      /\ list' \in [loaded : BOOLEAN, open : SUBSET Problem, held : SUBSET Problem]
  BY DEF NewList, Listed
<1>2. CASE ~list.loaded \/ ~on
  <2>1. gone' = gone /\ DOMAIN gone = {}
    BY <1>2 DEF NewList, HighlightInv, ClearedInPlace
  <2> QED BY <1>1, <2>1 DEF HighlightInv, HighlightTypeOK, ClearedInPlace
<1>3. CASE ~(~list.loaded \/ ~on)
  <2> DEFINE removed == {p \in TopRows(list.open) : p \notin open \cup held /\ StillPlaced(p, open)}
  <2>1. gone' = WithAll(Within(gone, KeptCleared(open)), removed)
    BY <1>3 DEF NewList
  <2>2. DOMAIN gone' = KeptCleared(open) \cup removed
    BY <2>1 DEF WithAll, Within
  <2>3. \A p \in DOMAIN gone' : p \in Problem /\ p \notin open /\ StillPlaced(p, open)
    BY <2>2 DEF KeptCleared, TopRows, HighlightInv, HighlightTypeOK
  <2>4. \A p \in KeptCleared(open) : p \in OnScreen
    BY ClearedAreOnScreen DEF KeptCleared
  <2>5. \A p \in removed : p \in OnScreen
    BY DEF OnScreen, Rows, TopRows
  <2>6. HighlightInv'
    BY <1>1, <1>3, <2>3 DEF HighlightInv, HighlightTypeOK, ClearedInPlace, StillPlaced
  <2> QED BY <2>2, <2>4, <2>5, <2>6
<1> QED BY <1>2, <1>3

\* Every step keeps the marks in place, and marks only what was on screen.
LEMMA HighlightStep ==
  ASSUME HighlightInv, [HighlightNext]_highlightVars
  PROVE  HighlightInv' /\ \A p \in DOMAIN gone' : p \in OnScreen
<1>1. CASE ListArrives
  BY <1>1, NewListKeeps DEF ListArrives
<1>2. CASE SwitchMotion
  <2>1. DOMAIN gone' = {} /\ list' = list /\ on' \in BOOLEAN
    BY <1>2 DEF SwitchMotion, NoMarks, HighlightInv, HighlightTypeOK
  <2> QED BY <2>1 DEF HighlightInv, HighlightTypeOK, ClearedInPlace
<1>3. CASE MarksAge
  <2>1. DOMAIN gone' \subseteq DOMAIN gone /\ list' = list /\ on' = on
    BY <1>3 DEF MarksAge, Left
  <2> QED BY <2>1, ClearedAreOnScreen DEF HighlightInv, HighlightTypeOK, ClearedInPlace, StillPlaced
<1>4. CASE UNCHANGED highlightVars
  BY <1>4, ClearedAreOnScreen
  DEF highlightVars, HighlightInv, HighlightTypeOK, ClearedInPlace, StillPlaced
<1> QED BY <1>1, <1>2, <1>3, <1>4 DEF HighlightNext

\* "A row must not vanish and come back later marked Cleared" (useChangeHighlight):
\* for any problems and any number of rows, whatever is marked Cleared was on
\* screen the moment before and is on screen.
THEOREM ClearedStayOnScreen == HighlightSpec => ClearedWereShown
<1> DEFINE Shown == \A p \in DOMAIN gone' \ list'.open : p \in OnScreen /\ p \in OnScreen'
<1>1. HighlightInv /\ [HighlightNext]_highlightVars => HighlightInv' /\ [Shown]_highlightVars
  <2> SUFFICES ASSUME HighlightInv, [HighlightNext]_highlightVars PROVE HighlightInv' /\ Shown
    OBVIOUS
  <2>1. HighlightInv' /\ \A p \in DOMAIN gone' : p \in OnScreen
    BY HighlightStep
  <2>2. (\A p \in DOMAIN gone : p \in OnScreen)'
    BY <2>1, ClearedAreOnScreen, PTL
  <2> QED BY <2>1, <2>2
<1> HIDE DEF Shown
<1>2. HighlightSpec => [][Shown]_highlightVars
  BY <1>1, HighlightInitial, PTL DEF HighlightSpec
<1> QED BY <1>2 DEF ClearedWereShown, Shown

-----------------------------------------------------------------------------
(***************************************************************************)
(* The chat.  Two facts, for any questions and answers of any length: what *)
(* is shown and saved is of the session there is, and an answer without an *)
(* error is a whole one.  The second is of Ollama's own API; of an         *)
(* OpenAI-compatible server it does not hold.  The arguments: the page is  *)
(* gone with the session and what is saved ends before it; and the frames  *)
(* of a connection end with `done' or `error' and `end', of which the page *)
(* reads the first and no more, so an answer it keeps is one whose stream  *)
(* had finished, and nothing is written after.                             *)
(***************************************************************************)

ChatMessages == [of : Asked, by : {"reader", "model"}, got : Nat, whole : BOOLEAN, session : {1, 2}]
Tabs == [page : BOOLEAN, messages : Seq(ChatMessages), asking : Asked \cup {Quiet}, got : Nat,
         store : Seq(ChatMessages), signedIn : BOOLEAN, ended : BOOLEAN, session : {1, 2}]
Frames == {"token", "done", "error", "end"}
Routes == [at : {"unused", "reading", "waiting", "writing", "over"}, aborted : BOOLEAN,
           wrote : Nat, finished : BOOLEAN]
Wires == [open : BOOLEAN, frames : Seq(Frames)]

\* The messages on the page and in sessionStorage.
Said(t) == {t.messages[i] : i \in 1..Len(t.messages)} \cup {t.store[i] : i \in 1..Len(t.store)}

TabShape(t) ==
  /\ ~t.signedIn => ~t.page
  /\ ~t.page => t.messages = <<>> /\ t.asking = Quiet
  /\ t.ended \/ ~t.signedIn => t.store = <<>>
  /\ \A m \in Said(t) : m.session = t.session

ChatTypeOK ==
  /\ route \in [Asked -> Routes]
  /\ wire \in [Asked -> Wires]

TabInv == tab \in Tabs /\ TabShape(tab)

\* A step of the tab, which says at most one thing more.
TabMoves(new) == tab' \in Tabs /\ TabShape(tab') /\ Said(tab') \subseteq Said(tab) \cup new

-----------------------------------------------------------------------------
(* The tab.                                                                *)

LEMMA TabInitial == ChatInit => TabInv
<1>1. <<>> \in Seq(ChatMessages) /\ Len(<<>>) = 0
  OBVIOUS
<1> QED BY <1>1 DEF ChatInit, TabInv, Tabs, TabShape, Said, Quiet

LEMMA Shows ==
  ASSUME NEW t \in Tabs, NEW ms \in Seq(ChatMessages)
  PROVE  /\ ShowMessages(t, ms) \in Tabs
         /\ ShowMessages(t, ms).messages = ms
         /\ ShowMessages(t, ms).store = IF t.ended THEN t.store ELSE ms
         /\ ShowMessages(t, ms).page = t.page /\ ShowMessages(t, ms).asking = t.asking
         /\ ShowMessages(t, ms).signedIn = t.signedIn /\ ShowMessages(t, ms).ended = t.ended
         /\ ShowMessages(t, ms).session = t.session
BY DEF ShowMessages, Saved, Tabs

LEMMA AppendSays ==
  ASSUME NEW ms \in Seq(ChatMessages), NEW m \in ChatMessages
  PROVE  /\ Append(ms, m) \in Seq(ChatMessages)
         /\ \A i \in 1..Len(Append(ms, m)) :
              Append(ms, m)[i] = m \/ (i \in 1..Len(ms) /\ Append(ms, m)[i] = ms[i])
OBVIOUS

\* A message more, by the page that is there.
LEMMA SaysMore ==
  ASSUME TabInv, tab.page, NEW m \in ChatMessages, m.session = tab.session,
         NEW a \in Asked \cup {Quiet}, NEW g \in Nat,
         tab' = [ShowMessages(tab, Append(tab.messages, m)) EXCEPT !.asking = a, !.got = g]
  PROVE  TabMoves({m})
<1> DEFINE ms == Append(tab.messages, m)
<1>1. tab \in Tabs /\ tab.messages \in Seq(ChatMessages) /\ TabShape(tab)
  BY DEF TabInv, Tabs
<1>2. ms \in Seq(ChatMessages)
      /\ \A i \in 1..Len(ms) : ms[i] = m \/ (i \in 1..Len(tab.messages) /\ ms[i] = tab.messages[i])
  BY <1>1, AppendSays
<1> HIDE DEF ms
<1>3. tab' = [ShowMessages(tab, ms) EXCEPT !.asking = a, !.got = g]
  BY DEF ms
<1>4. /\ tab' \in Tabs /\ tab'.messages = ms /\ tab'.store = IF tab.ended THEN tab.store ELSE ms
      /\ tab'.page = tab.page /\ tab'.signedIn = tab.signedIn /\ tab'.ended = tab.ended
      /\ tab'.session = tab.session
  <2> DEFINE u == ShowMessages(tab, ms)
  <2>1. u \in Tabs /\ u.messages = ms /\ u.store = (IF tab.ended THEN tab.store ELSE ms)
        /\ u.page = tab.page /\ u.signedIn = tab.signedIn /\ u.ended = tab.ended /\ u.session = tab.session
    BY <1>1, <1>2, Shows
  <2>2. tab' = [u EXCEPT !.asking = a, !.got = g]
    BY <1>3
  <2> HIDE DEF u
  <2> QED BY <2>1, <2>2 DEF Tabs
<1>5. Said(tab') \subseteq Said(tab) \cup {m}
  BY <1>2, <1>4 DEF Said
<1>6. \A n \in Said(tab') : n.session = tab'.session
  BY <1>1, <1>4, <1>5 DEF TabShape
<1>7. tab.signedIn
  BY <1>1 DEF TabShape
<1>8. TabShape(tab')
  BY <1>1, <1>4, <1>6, <1>7 DEF TabShape
<1> QED BY <1>4, <1>5, <1>8 DEF TabMoves

LEMMA SendSays ==
  ASSUME TabInv, NEW q \in Asked, SendQuestion(q)
  PROVE  TabMoves({ReaderSays(q)})
<1>1. ReaderSays(q) \in ChatMessages /\ ReaderSays(q).session = tab.session
  BY DEF ReaderSays, ChatMessages, TabInv, Tabs
<1> QED BY <1>1, SaysMore DEF SendQuestion

LEMMA SettlesSays ==
  ASSUME TabInv, NEW q \in Asked, tab.asking = q, NEW got \in Nat, NEW whole \in BOOLEAN,
         Settles(q, got, whole)
  PROVE  TabMoves({ModelReplies(q, got, whole)})
<1>1. ModelReplies(q, got, whole) \in ChatMessages /\ ModelReplies(q, got, whole).session = tab.session
  BY DEF ModelReplies, ChatMessages, TabInv, Tabs
<1>2. tab.page /\ tab.signedIn /\ tab \in Tabs
  BY ChatAssumption DEF TabInv, TabShape, Tabs, Quiet
<1>3. CASE whole \/ got > 0
  BY <1>1, <1>2, <1>3, SaysMore DEF Settles
<1>4. CASE ~(whole \/ got > 0)
  <2>1. tab' = [tab EXCEPT !.asking = Quiet, !.got = 0]
    BY <1>4 DEF Settles
  <2>2. /\ tab' \in Tabs /\ tab'.messages = tab.messages /\ tab'.store = tab.store
        /\ tab'.page = tab.page /\ tab'.signedIn = tab.signedIn /\ tab'.ended = tab.ended
        /\ tab'.session = tab.session
    BY <1>2, <2>1 DEF Tabs
  <2>3. Said(tab') = Said(tab)
    BY <2>2 DEF Said
  <2> QED BY <1>2, <2>2, <2>3 DEF TabMoves, TabShape, TabInv
<1> QED BY <1>3, <1>4

\* What the page does on its own adds nothing.
LEMMA PageSteps ==
  ASSUME TabInv, ClearChat \/ LeaveChat \/ VisitChat \/ SessionEnds \/ ToSignIn \/ SignInAgain
  PROVE  TabMoves({})
<1>1. tab \in Tabs /\ TabShape(tab)
  BY DEF TabInv
<1>2. <<>> \in Seq(ChatMessages) /\ Len(<<>>) = 0
  OBVIOUS
<1>3. \A t : t.messages = <<>> /\ t.store = <<>> => Said(t) = {}
  BY <1>2 DEF Said
<1>4. CASE ClearChat
  <2>1. /\ tab' \in Tabs /\ tab'.messages = <<>> /\ tab'.store = (IF tab.ended THEN tab.store ELSE <<>>)
        /\ tab'.page = tab.page /\ tab'.signedIn = tab.signedIn /\ tab'.ended = tab.ended
    BY <1>1, <1>2, <1>4, Shows DEF ClearChat
  <2>2. tab'.store = <<>> /\ tab'.asking = tab.asking
    BY <1>1, <1>2, <1>4, <2>1, Shows DEF ClearChat, TabShape
  <2>3. Said(tab') = {}
    BY <1>3, <2>1, <2>2
  <2> QED BY <1>1, <2>1, <2>2, <2>3 DEF TabMoves, TabShape
<1>5. CASE LeaveChat
  <2>1. /\ tab' \in Tabs /\ tab'.messages = <<>> /\ tab'.store = tab.store /\ tab'.asking = Quiet
        /\ tab'.page = FALSE /\ tab'.signedIn = tab.signedIn /\ tab'.ended = tab.ended
        /\ tab'.session = tab.session
    BY <1>1, <1>2, <1>5 DEF LeaveChat, Unshown, Tabs
  <2>2. Said(tab') \subseteq Said(tab)
    BY <1>2, <2>1 DEF Said
  <2> QED BY <1>1, <2>1, <2>2 DEF TabMoves, TabShape
<1>6. CASE VisitChat
  <2> DEFINE t == [tab EXCEPT !.page = TRUE]
  <2>1. /\ t \in Tabs /\ t.page /\ t.messages = tab.messages /\ t.store = tab.store /\ t.asking = tab.asking
        /\ t.signedIn = tab.signedIn /\ t.ended = tab.ended /\ t.session = tab.session
    BY <1>1 DEF Tabs
  <2>2. tab' = ShowMessages(t, tab.store) /\ tab.store \in Seq(ChatMessages)
    BY <1>1, <1>6 DEF VisitChat, Tabs
  <2> HIDE DEF t
  <2>3. /\ tab' \in Tabs /\ tab'.messages = tab.store /\ tab'.store = tab.store
        /\ tab'.page /\ tab'.signedIn = tab.signedIn /\ tab'.ended = tab.ended /\ tab'.session = tab.session
    BY <2>1, <2>2, Shows
  <2>4. Said(tab') \subseteq Said(tab)
    BY <2>3 DEF Said
  <2>5. tab.signedIn
    BY <1>6 DEF VisitChat
  <2> QED BY <1>1, <2>3, <2>4, <2>5 DEF TabMoves, TabShape
<1>7. CASE SessionEnds
  <2>1. /\ tab' \in Tabs /\ tab'.messages = tab.messages /\ tab'.store = <<>> /\ tab'.asking = tab.asking
        /\ tab'.page = tab.page /\ tab'.signedIn = tab.signedIn /\ tab'.session = tab.session
    BY <1>1, <1>2, <1>7 DEF SessionEnds, Tabs
  <2>2. Said(tab') \subseteq Said(tab)
    BY <1>2, <2>1 DEF Said
  <2> QED BY <1>1, <2>1, <2>2 DEF TabMoves, TabShape
<1>8. CASE ToSignIn
  <2>1. /\ tab' \in Tabs /\ tab'.messages = <<>> /\ tab'.store = tab.store /\ tab'.asking = Quiet
        /\ tab'.page = FALSE /\ tab'.signedIn = FALSE
    <3>1. PICK loaded \in BOOLEAN : tab' = [Unshown(tab) EXCEPT !.signedIn = FALSE, !.ended = ~loaded]
      BY <1>8 DEF ToSignIn
    <3>2. /\ Unshown(tab) \in Tabs /\ Unshown(tab).messages = <<>> /\ Unshown(tab).store = tab.store
          /\ Unshown(tab).asking = Quiet /\ Unshown(tab).page = FALSE
      BY <1>1, <1>2 DEF Unshown, Tabs
    <3> QED BY <3>1, <3>2 DEF Tabs
  <2>2. tab'.store = <<>>
    BY <1>1, <1>8, <2>1 DEF ToSignIn, TabShape
  <2>3. Said(tab') = {}
    BY <1>3, <2>1, <2>2
  <2> QED BY <2>1, <2>2, <2>3 DEF TabMoves, TabShape
<1>9. CASE SignInAgain
  <2>1. /\ tab' \in Tabs /\ tab'.messages = tab.messages /\ tab'.store = <<>> /\ tab'.asking = tab.asking
        /\ tab'.page = tab.page /\ tab'.signedIn = TRUE /\ tab'.ended = FALSE
    BY <1>1, <1>2, <1>9 DEF SignInAgain, Tabs
  <2>2. ~tab.page /\ tab.messages = <<>> /\ tab.asking = Quiet
    BY <1>1, <1>9 DEF SignInAgain, TabShape
  <2>3. Said(tab') = {}
    BY <1>3, <2>1, <2>2
  <2> QED BY <2>1, <2>2, <2>3 DEF TabMoves, TabShape
<1> QED BY <1>4, <1>5, <1>6, <1>7, <1>8, <1>9

LEMMA SameTab == TabInv /\ UNCHANGED tab => TabMoves({})
BY DEF TabInv, TabMoves, TabShape, Said

\* A frame that arrives: a piece of text, or the end of the answer.
LEMMA ReceiveSays ==
  ASSUME ChatTypeOK, TabInv, NEW q \in Asked, Receive(q)
  PROVE  \/ TabMoves({})
         \/ Head(wire[q].frames) = "error" /\ TabMoves({ModelReplies(q, tab.got, FALSE)})
         \/ Head(wire[q].frames) = "done" /\ TabMoves({ModelReplies(q, route[q].wrote, TRUE)})
         \/ Head(wire[q].frames) = "end" /\ TabMoves({ModelReplies(q, tab.got, TRUE)})
<1> DEFINE frame == Head(wire[q].frames)
<1>1. wire[q].frames \in Seq(Frames) /\ wire[q].frames # <<>> /\ frame \in Frames
  BY DEF Receive, ChatTypeOK, Wires
<1>2. tab.asking = q /\ tab.got \in Nat /\ route[q].wrote \in Nat /\ tab \in Tabs
  BY DEF Receive, ChatTypeOK, Routes, TabInv, Tabs
<1>3. CASE frame = "token"
  <2>1. tab' = [tab EXCEPT !.got = tab.got + 1]
    BY <1>3 DEF Receive
  <2>2. /\ tab' \in Tabs /\ tab'.messages = tab.messages /\ tab'.store = tab.store
        /\ tab'.asking = tab.asking /\ tab'.page = tab.page /\ tab'.signedIn = tab.signedIn
        /\ tab'.ended = tab.ended /\ tab'.session = tab.session
    BY <1>2, <2>1 DEF Tabs
  <2>3. Said(tab') = Said(tab)
    BY <2>2 DEF Said
  <2> QED BY <2>2, <2>3 DEF TabMoves, TabShape, TabInv
<1>4. CASE frame = "error"
  <2>1. Settles(q, tab.got, FALSE)
    BY <1>4 DEF Receive
  <2> QED BY <1>2, <1>4, <2>1, SettlesSays
<1>5. CASE frame = "done"
  <2>1. Settles(q, route[q].wrote, TRUE)
    BY <1>5 DEF Receive
  <2> QED BY <1>2, <1>5, <2>1, SettlesSays
<1>6. CASE frame = "end"
  <2>1. Settles(q, tab.got, TRUE)
    BY <1>6 DEF Receive
  <2> QED BY <1>2, <1>6, <2>1, SettlesSays
<1> QED BY <1>1, <1>3, <1>4, <1>5, <1>6 DEF Frames

-----------------------------------------------------------------------------
(* The frames of a connection.                                             *)

\* `end' comes after `done' or `error', and `done' when the stream finished.
WellFramed(frames, finished) ==
  \A i \in 1..Len(frames) :
    /\ frames[i] = "end" => i > 1 /\ frames[i - 1] \in {"done", "error"}
    /\ frames[i] = "done" => finished

LEMMA FramesAppend ==
  ASSUME NEW frames \in Seq(Frames), NEW finished \in BOOLEAN, WellFramed(frames, finished)
  PROVE  /\ WellFramed(frames \o <<"token">>, finished)
         /\ WellFramed(frames \o <<"error", "end">>, finished)
         /\ finished => WellFramed(frames \o <<"done", "end">>, finished)
<1> DEFINE n == Len(frames)
<1>1. ASSUME NEW x \in Frames, NEW y \in Frames
      PROVE  LET s == frames \o <<x, y>> IN
             /\ s \in Seq(Frames) /\ Len(s) = n + 2 /\ s[n + 1] = x /\ s[n + 2] = y
             /\ \A i \in 1..n : s[i] = frames[i]
  OBVIOUS
<1>2. ASSUME NEW x \in {"error", "done"}, x = "done" => finished
      PROVE  WellFramed(frames \o <<x, "end">>, finished)
  <2> DEFINE s == frames \o <<x, "end">>
  <2>1. /\ Len(s) = n + 2 /\ s[n + 1] = x /\ s[n + 2] = "end"
        /\ \A i \in 1..n : s[i] = frames[i]
    BY <1>1 DEF Frames
  <2>2. n \in Nat
    OBVIOUS
  <2> HIDE DEF s, n
  <2> SUFFICES ASSUME NEW i \in 1..(n + 2)
               PROVE  /\ s[i] = "end" => i > 1 /\ s[i - 1] \in {"done", "error"}
                      /\ s[i] = "done" => finished
    BY <2>1 DEF WellFramed, s
  <2>3. CASE i \in 1..n
    <3>1. s[i] = frames[i] /\ (i > 1 => s[i - 1] = frames[i - 1])
      BY <2>1, <2>2, <2>3
    <3> QED BY <2>3, <3>1 DEF WellFramed, n
  <2>4. CASE i = n + 1
    BY <1>2, <2>1, <2>4
  <2>5. CASE i = n + 2
    <3>1. i - 1 = n + 1 /\ i > 1
      BY <2>2, <2>5
    <3> QED BY <2>1, <2>5, <3>1
  <2> QED BY <2>2, <2>3, <2>4, <2>5
<1>3. WellFramed(frames \o <<"token">>, finished)
  <2> DEFINE s == frames \o <<"token">>
  <2>1. Len(s) = n + 1 /\ s[n + 1] = "token" /\ (\A i \in 1..n : s[i] = frames[i]) /\ n \in Nat
    OBVIOUS
  <2> HIDE DEF s, n
  <2> SUFFICES ASSUME NEW i \in 1..(n + 1)
               PROVE  /\ s[i] = "end" => i > 1 /\ s[i - 1] \in {"done", "error"}
                      /\ s[i] = "done" => finished
    BY <2>1 DEF WellFramed, s
  <2>3. CASE i \in 1..n
    <3>1. s[i] = frames[i] /\ (i > 1 => s[i - 1] = frames[i - 1])
      BY <2>1, <2>3
    <3> QED BY <2>3, <3>1 DEF WellFramed, n
  <2>4. CASE i = n + 1
    BY <2>1, <2>4
  <2> QED BY <2>1, <2>3, <2>4
<1> QED BY <1>2, <1>3

LEMMA FramesHead ==
  ASSUME NEW frames \in Seq(Frames), frames # <<>>, NEW finished \in BOOLEAN, WellFramed(frames, finished)
  PROVE  /\ Head(frames) # "end"
         /\ Head(frames) = "done" => finished
         /\ Head(frames) = "token" => WellFramed(Tail(frames), finished)
<1>1. 1 \in 1..Len(frames) /\ Head(frames) = frames[1]
  OBVIOUS
<1>2. Head(frames) # "end" /\ (Head(frames) = "done" => finished)
  BY <1>1 DEF WellFramed
<1>3. ASSUME Head(frames) = "token", NEW i \in 1..Len(Tail(frames))
      PROVE  /\ Tail(frames)[i] = "end" => i > 1 /\ Tail(frames)[i - 1] \in {"done", "error"}
             /\ Tail(frames)[i] = "done" => finished
  <2>1. /\ i + 1 \in 1..Len(frames) /\ Tail(frames)[i] = frames[i + 1]
        /\ i > 1 => Tail(frames)[i - 1] = frames[i]
        /\ (i + 1) - 1 = i
    OBVIOUS
  <2>2. i = 1 => frames[i] \notin {"done", "error"}
    BY <1>1, <1>3
  <2>3. frames[i + 1] = "end" => frames[i] \in {"done", "error"}
    BY <2>1 DEF WellFramed
  <2> QED BY <2>1, <2>2, <2>3 DEF WellFramed
<1> QED BY <1>2, <1>3 DEF WellFramed

-----------------------------------------------------------------------------
(* The routes.                                                             *)

\* What the page keeps without an error is all there is of it.
WholeIsWhole(m) ==
  Native /\ m.by = "model" /\ m.whole => route[m.of].finished /\ m.got = route[m.of].wrote

\* When `done' may be told: of an OpenAI-compatible server, whenever it stops.
Meant(q) == ~Native \/ route[q].finished

WireOK(w, finished) == w.open => WellFramed(w.frames, finished)

FramesInv ==
  \A q \in Asked :
    /\ route[q].finished => route[q].at = "over"
    /\ WireOK(wire[q], Meant(q))

AnswersInv ==
  /\ ChatTypeOK /\ TabInv /\ FramesInv
  /\ \A m \in Said(tab) : WholeIsWhole(m)

\* What is finished stays as it is.
RoutesMove ==
  /\ route' \in [Asked -> Routes]
  /\ \A q \in Asked :
       /\ route[q].finished => route'[q].finished /\ route'[q].wrote = route[q].wrote
       /\ route'[q].finished => route'[q].at = "over"

\* A route that is not over moves, and has not finished before.
LEMMA OneRouteMoves ==
  ASSUME ChatTypeOK, FramesInv, NEW q \in Asked, route[q].at # "over", NEW r \in Routes,
         r.finished => r.at = "over", route' = [route EXCEPT ![q] = r]
  PROVE  RoutesMove /\ route'[q] = r /\ \A p \in Asked \ {q} : route'[p] = route[p]
BY DEF ChatTypeOK, FramesInv, RoutesMove

LEMMA SameRoutes == ChatTypeOK /\ FramesInv /\ UNCHANGED route => RoutesMove
BY DEF ChatTypeOK, FramesInv, RoutesMove

\* What is told along a connection that is there.
LEMMA SendsKeeps ==
  ASSUME ChatTypeOK, FramesInv, RoutesMove, NEW q \in Asked, NEW frames,
         \/ frames = <<"token">>
         \/ frames = <<"error", "end">>
         \/ frames = <<"done", "end">> /\ Meant(q)',
         Sends(q, frames)
  PROVE  wire' \in [Asked -> Wires] /\ \A p \in Asked : WireOK(wire'[p], Meant(p)')
<1>1. ASSUME NEW p \in Asked PROVE WireOK(wire[p], Meant(p)')
  <2>1. WireOK(wire[p], Meant(p)) /\ (Meant(p) => Meant(p)')
    BY DEF FramesInv, RoutesMove, Meant
  <2> QED BY <2>1 DEF WireOK, WellFramed
<1>2. CASE wire' = wire
  BY <1>1, <1>2 DEF ChatTypeOK
<1>3. CASE wire' = [wire EXCEPT ![q].frames = @ \o frames]
  <2>1. wire \in [Asked -> Wires] /\ wire[q].frames \in Seq(Frames) /\ Meant(q)' \in BOOLEAN
    BY DEF ChatTypeOK, Wires, Meant
  <2>5. frames \in Seq(Frames)
    <3>1. <<"token">> \in Seq(Frames) /\ <<"error", "end">> \in Seq(Frames) /\ <<"done", "end">> \in Seq(Frames)
      BY DEF Frames
    <3> QED BY <3>1
  <2>2. wire[q].frames \o frames \in Seq(Frames)
    BY <2>1, <2>5
  <2>3. wire' \in [Asked -> Wires] /\ wire'[q].frames = wire[q].frames \o frames
        /\ \A p \in Asked \ {q} : wire'[p] = wire[p]
    BY <1>3, <2>1, <2>2 DEF Wires
  <2>4. ASSUME wire'[q].open PROVE WellFramed(wire'[q].frames, Meant(q)')
    <3>1. WellFramed(wire[q].frames, Meant(q)')
      BY <1>1, <1>3, <2>1, <2>4 DEF Wires, WireOK
    <3> QED BY <2>1, <2>3, <3>1, FramesAppend
  <2> QED BY <1>1, <2>3, <2>4 DEF WireOK
<1> QED BY <1>2, <1>3 DEF Sends

\* Whatever is said stays true, as what is finished stays.
LEMMA SaidStays ==
  ASSUME AnswersInv, RoutesMove, NEW new, TabMoves(new), \A m \in new : WholeIsWhole(m)',
         wire' \in [Asked -> Wires], \A p \in Asked : WireOK(wire'[p], Meant(p)')
  PROVE  AnswersInv'
<1>1. ASSUME NEW m \in Said(tab) PROVE WholeIsWhole(m)'
  <2>1. tab.messages \in Seq(ChatMessages) /\ tab.store \in Seq(ChatMessages)
    BY DEF AnswersInv, TabInv, Tabs
  <2>2. m \in ChatMessages
    BY <2>1 DEF Said
  <2> QED BY <2>2 DEF AnswersInv, ChatMessages, WholeIsWhole, RoutesMove
<1>2. \A m \in Said(tab') : WholeIsWhole(m)'
  BY <1>1 DEF TabMoves
<1> QED BY <1>2 DEF AnswersInv, ChatTypeOK, TabInv, FramesInv, TabMoves, RoutesMove

\* A connection that is hung up, or as it was.
LEMMA WiresHangUp ==
  ASSUME ChatTypeOK, FramesInv, RoutesMove,
         UNCHANGED wire \/ (\E q \in Asked : HangUp(q)) \/ (\E q \in Asked : wire[q] = NoWire /\ wire' = [wire EXCEPT ![q].open = TRUE])
  PROVE  wire' \in [Asked -> Wires] /\ \A p \in Asked : WireOK(wire'[p], Meant(p)')
<1>1. ASSUME NEW p \in Asked PROVE WireOK(wire[p], Meant(p)')
  <2>1. WireOK(wire[p], Meant(p)) /\ (Meant(p) => Meant(p)')
    BY DEF FramesInv, RoutesMove, Meant
  <2> QED BY <2>1 DEF WireOK, WellFramed
<1>2. \A fin : WellFramed(<<>>, fin)
  BY DEF WellFramed
<1>3. wire \in [Asked -> Wires] /\ <<>> \in Seq(Frames)
  BY DEF ChatTypeOK
<1>4. CASE UNCHANGED wire
  BY <1>1, <1>3, <1>4
<1>5. ASSUME NEW q \in Asked, HangUp(q)
      PROVE  wire' \in [Asked -> Wires] /\ \A p \in Asked : WireOK(wire'[p], Meant(p)')
  <2>1. wire' \in [Asked -> Wires] /\ wire'[q].frames = <<>> /\ \A p \in Asked \ {q} : wire'[p] = wire[p]
    BY <1>3, <1>5 DEF HangUp, NoWire, Wires
  <2> QED BY <1>1, <1>2, <2>1 DEF WireOK
<1>6. ASSUME NEW q \in Asked, wire[q] = NoWire, wire' = [wire EXCEPT ![q].open = TRUE]
      PROVE  wire' \in [Asked -> Wires] /\ \A p \in Asked : WireOK(wire'[p], Meant(p)')
  <2>1. wire[q].frames = <<>>
    <3>1. NoWire.frames = <<>>
      BY DEF NoWire
    <3> QED BY <1>6, <3>1
  <2>2. wire' \in [Asked -> Wires] /\ wire'[q].frames = <<>> /\ \A p \in Asked \ {q} : wire'[p] = wire[p]
    BY <1>3, <1>6, <2>1 DEF Wires
  <2> QED BY <1>1, <1>2, <2>2 DEF WireOK
<1> QED BY <1>4, <1>5, <1>6

LEMMA FailsKeeps ==
  ASSUME AnswersInv, NEW q \in Asked, route[q].at # "over", Fails(q), UNCHANGED tab
  PROVE  AnswersInv'
<1>1. route' = [route EXCEPT ![q] = [route[q] EXCEPT !.at = "over"]] /\ [route[q] EXCEPT !.at = "over"] \in Routes
  BY DEF Fails, Over, AnswersInv, ChatTypeOK, Routes
<1>2. RoutesMove
  BY <1>1, OneRouteMoves DEF AnswersInv, Routes, ChatTypeOK
<1>3. wire' \in [Asked -> Wires] /\ \A p \in Asked : WireOK(wire'[p], Meant(p)')
  BY <1>2, SendsKeeps DEF Fails, AnswersInv
<1> QED BY <1>2, <1>3, SaidStays, SameTab DEF AnswersInv

\* A route that goes on, and says nothing but pieces of its answer.
LEMMA RouteGoesOn ==
  ASSUME AnswersInv, NEW q \in Asked, route[q].at # "over", NEW r \in Routes, ~r.finished,
         route' = [route EXCEPT ![q] = r], UNCHANGED tab, UNCHANGED wire \/ Sends(q, <<"token">>)
  PROVE  AnswersInv'
<1>1. RoutesMove
  BY OneRouteMoves DEF AnswersInv
<1>2. wire' \in [Asked -> Wires] /\ \A p \in Asked : WireOK(wire'[p], Meant(p)')
  BY <1>1, SendsKeeps, WiresHangUp DEF AnswersInv
<1> QED BY <1>1, <1>2, SaidStays, SameTab DEF AnswersInv

LEMMA NotFinished ==
  ASSUME AnswersInv, NEW q \in Asked, route[q].at # "over"
  PROVE  ~route[q].finished /\ route[q] \in Routes
BY DEF AnswersInv, FramesInv, ChatTypeOK, Routes

LEMMA RouteSteps ==
  ASSUME AnswersInv, NEW q \in Asked,
         \/ NoticeClosed(q) \/ ReadEstate(q) \/ GiveUpWaiting(q) \/ AskModel(q)
         \/ Piece(q) \/ ModelEnds(q) \/ ModelFails(q)
  PROVE  AnswersInv'
<1>0. route \in [Asked -> Routes] /\ (route[q].at # "over" => ~route[q].finished)
  BY NotFinished DEF AnswersInv, ChatTypeOK
<1>1. CASE NoticeClosed(q)
  <2> DEFINE r == [route[q] EXCEPT !.aborted = TRUE]
  <2>1. r \in Routes /\ ~r.finished /\ route' = [route EXCEPT ![q] = r] /\ route[q].at # "over"
    BY <1>0, <1>1 DEF NoticeClosed, Routes
  <2> HIDE DEF r
  <2> QED BY <1>1, <2>1, RouteGoesOn DEF NoticeClosed
<1>2. CASE ReadEstate(q)
  <2>1. CASE Fails(q)
    BY <1>2, <2>1, FailsKeeps DEF ReadEstate
  <2>2. CASE ~Fails(q)
    <3> DEFINE r == [route[q] EXCEPT !.at = "waiting"]
    <3>1. r \in Routes /\ ~r.finished /\ route' = [route EXCEPT ![q] = r] /\ route[q].at # "over"
      BY <1>0, <1>2, <2>2 DEF ReadEstate, Routes
    <3> HIDE DEF r
    <3> QED BY <1>2, <2>2, <3>1, RouteGoesOn DEF ReadEstate
  <2> QED BY <2>1, <2>2
<1>3. CASE GiveUpWaiting(q)
  BY <1>3, FailsKeeps DEF GiveUpWaiting
<1>4. CASE AskModel(q)
  <2> DEFINE r == [route[q] EXCEPT !.at = "writing"]
  <2>1. r \in Routes /\ ~r.finished /\ route' = [route EXCEPT ![q] = r] /\ route[q].at # "over"
    BY <1>0, <1>4 DEF AskModel, Routes
  <2> HIDE DEF r
  <2> QED BY <1>4, <2>1, RouteGoesOn DEF AskModel
<1>5. CASE Piece(q)
  <2> DEFINE r == [route[q] EXCEPT !.wrote = @ + 1]
  <2>1. r \in Routes /\ ~r.finished /\ route' = [route EXCEPT ![q] = r] /\ route[q].at # "over"
    BY <1>0, <1>5 DEF Piece, Routes
  <2> HIDE DEF r
  <2> QED BY <1>5, <2>1, RouteGoesOn DEF Piece
<1>6. CASE ModelEnds(q)
  <2>1. CASE Fails(q)
    BY <1>6, <2>1, FailsKeeps DEF ModelEnds
  <2>2. ASSUME NEW r \in Routes, r.at = "over", Native => r.finished, route' = [route EXCEPT ![q] = r],
               Sends(q, <<"done", "end">>)
        PROVE  AnswersInv'
    <3>1. route[q].at # "over" /\ UNCHANGED tab
      BY <1>6 DEF ModelEnds
    <3>2. RoutesMove /\ route'[q] = r
      BY <2>2, <3>1, OneRouteMoves DEF AnswersInv
    <3>3. Meant(q)'
      BY <2>2, <3>2, ChatAssumption DEF Meant
    <3>4. wire' \in [Asked -> Wires] /\ \A p \in Asked : WireOK(wire'[p], Meant(p)')
      BY <2>2, <3>2, <3>3, SendsKeeps DEF AnswersInv
    <3> QED BY <3>1, <3>2, <3>4, SaidStays, SameTab DEF AnswersInv
  <2>3. CASE route' = [Over(q) EXCEPT ![q].finished = TRUE] /\ Sends(q, <<"done", "end">>)
    <3> DEFINE r == [route[q] EXCEPT !.at = "over", !.finished = TRUE]
    <3>1. r \in Routes /\ r.at = "over" /\ r.finished /\ route' = [route EXCEPT ![q] = r]
      BY <1>0, <2>3 DEF Over, Routes
    <3> HIDE DEF r
    <3> QED BY <2>2, <2>3, <3>1
  <2>4. CASE ~Native /\ route' = Over(q) /\ Sends(q, <<"done", "end">>)
    <3> DEFINE r == [route[q] EXCEPT !.at = "over"]
    <3>1. r \in Routes /\ r.at = "over" /\ route' = [route EXCEPT ![q] = r]
      BY <1>0, <2>4 DEF Over, Routes
    <3> HIDE DEF r
    <3> QED BY <2>2, <2>4, <3>1
  <2> QED BY <1>6, <2>1, <2>3, <2>4 DEF ModelEnds, EndsWithout
<1>7. CASE ModelFails(q)
  BY <1>7, FailsKeeps DEF ModelFails
<1> QED BY <1>1, <1>2, <1>3, <1>4, <1>5, <1>6, <1>7

-----------------------------------------------------------------------------
(* The page.                                                               *)

LEMMA SendQuestionKeeps == ASSUME AnswersInv, NEW q \in Asked, SendQuestion(q) PROVE AnswersInv'
<1> DEFINE r == [route[q] EXCEPT !.at = "reading"]
<1>1. r \in Routes /\ ~r.finished /\ route' = [route EXCEPT ![q] = r] /\ route[q].at # "over"
  <2>1. route[q] = NoRoute /\ route \in [Asked -> Routes] /\ route' = [route EXCEPT ![q].at = "reading"]
    BY DEF SendQuestion, AnswersInv, ChatTypeOK
  <2>2. route[q] \in Routes /\ route[q].at = "unused" /\ ~route[q].finished
    <3>1. NoRoute.at = "unused" /\ NoRoute.finished = FALSE
      BY DEF NoRoute
    <3> QED BY <2>1, <3>1
  <2> QED BY <2>1, <2>2 DEF Routes
<1> HIDE DEF r
<1>2. RoutesMove
  BY <1>1, OneRouteMoves DEF AnswersInv
<1>3. wire[q] = NoWire /\ wire' = [wire EXCEPT ![q].open = TRUE]
  BY DEF SendQuestion
<1>4. wire' \in [Asked -> Wires] /\ \A p \in Asked : WireOK(wire'[p], Meant(p)')
  BY <1>2, <1>3, WiresHangUp DEF AnswersInv
<1>5. (\A m \in {ReaderSays(q)} : WholeIsWhole(m)') /\ TabMoves({ReaderSays(q)})
  BY SendSays DEF WholeIsWhole, ReaderSays, AnswersInv
<1> QED BY <1>2, <1>4, <1>5, SaidStays

LEMMA ReceiveKeeps == ASSUME AnswersInv, NEW q \in Asked, Receive(q) PROVE AnswersInv'
<1> DEFINE frames == wire[q].frames
           frame == Head(frames)
<1>1. /\ wire \in [Asked -> Wires] /\ route \in [Asked -> Routes] /\ route' = route
      /\ frames \in Seq(Frames) /\ frames # <<>> /\ WellFramed(frames, Meant(q))
      /\ Meant(q) \in BOOLEAN /\ \A p \in Asked : Meant(p)' = Meant(p)
  BY DEF Receive, AnswersInv, ChatTypeOK, FramesInv, WireOK, Wires, Meant
<1>2. RoutesMove
  BY SameRoutes DEF AnswersInv, Receive
<1>3. /\ frame # "end"
      /\ frame = "done" => Meant(q)
      /\ frame = "token" => WellFramed(Tail(frames), Meant(q))
  BY <1>1, FramesHead
<1>4. PICK new : TabMoves(new) /\ \A m \in new : WholeIsWhole(m)'
  <2>1. CASE TabMoves({})
    BY <2>1
  <2>2. CASE frame = "error" /\ TabMoves({ModelReplies(q, tab.got, FALSE)})
    BY <2>2 DEF WholeIsWhole, ModelReplies
  <2>3. CASE frame = "done" /\ TabMoves({ModelReplies(q, route[q].wrote, TRUE)})
    BY <1>1, <1>3, <2>3 DEF WholeIsWhole, ModelReplies, Meant
  <2> QED BY <1>3, <2>1, <2>2, <2>3, ReceiveSays DEF AnswersInv
<1>5. wire' \in [Asked -> Wires] /\ \A p \in Asked : WireOK(wire'[p], Meant(p)')
  <2>1. wire' = [wire EXCEPT ![q].frames = Tail(@), ![q].open = (frame = "token")]
    BY DEF Receive
  <2>2. Tail(frames) \in Seq(Frames)
    BY <1>1
  <2>3. /\ wire' \in [Asked -> Wires] /\ wire'[q].frames = Tail(frames)
        /\ wire'[q].open = (frame = "token")
        /\ \A p \in Asked \ {q} : wire'[p] = wire[p]
    BY <1>1, <2>1, <2>2 DEF Wires
  <2>4. WireOK(wire'[q], Meant(q)')
    BY <1>1, <1>3, <2>3 DEF WireOK
  <2>5. \A p \in Asked \ {q} : WireOK(wire'[p], Meant(p)')
    BY <1>1, <2>3 DEF AnswersInv, FramesInv
  <2> QED BY <2>3, <2>4, <2>5
<1> QED BY <1>2, <1>4, <1>5, SaidStays

LEMMA StopOrBreakKeeps == ASSUME AnswersInv, NEW q \in Asked, StopOrBreak(q) PROVE AnswersInv'
<1>1. RoutesMove
  BY SameRoutes DEF AnswersInv, StopOrBreak
<1>2. wire' \in [Asked -> Wires] /\ \A p \in Asked : WireOK(wire'[p], Meant(p)')
  BY <1>1, WiresHangUp DEF AnswersInv, StopOrBreak
<1>3. tab.got \in Nat
  BY DEF AnswersInv, TabInv, Tabs
<1>4. TabMoves({ModelReplies(q, tab.got, FALSE)})
  BY <1>3, SettlesSays DEF StopOrBreak, AnswersInv
<1>5. \A m \in {ModelReplies(q, tab.got, FALSE)} : WholeIsWhole(m)'
  BY DEF WholeIsWhole, ModelReplies
<1> QED BY <1>1, <1>2, <1>4, <1>5, SaidStays

LEMMA PageKeeps ==
  ASSUME AnswersInv, ClearChat \/ LeaveChat \/ VisitChat \/ SessionEnds \/ ToSignIn \/ SignInAgain
  PROVE  AnswersInv'
<1>1. UNCHANGED route /\ RoutesMove
  BY SameRoutes DEF AnswersInv, ClearChat, LeaveChat, VisitChat, SessionEnds, ToSignIn, SignInAgain
<1>2. UNCHANGED wire \/ \E q \in Asked : HangUp(q)
  BY DEF AnswersInv, TabInv, Tabs, ClearChat, LeaveChat, VisitChat, SessionEnds, ToSignIn, SignInAgain
<1>3. wire' \in [Asked -> Wires] /\ \A p \in Asked : WireOK(wire'[p], Meant(p)')
  BY <1>1, <1>2, WiresHangUp DEF AnswersInv
<1> QED BY <1>1, <1>3, PageSteps, SaidStays DEF AnswersInv

LEMMA AnswersInitial == ChatInit => AnswersInv
<1> SUFFICES ASSUME ChatInit PROVE AnswersInv
  OBVIOUS
<1>1. <<>> \in Seq(Frames) /\ Len(<<>>) = 0
  OBVIOUS
<1>2. ChatTypeOK
  BY <1>1 DEF ChatInit, ChatTypeOK, NoRoute, Routes, NoWire, Wires
<1>3. FramesInv
  BY DEF ChatInit, FramesInv, WireOK, NoRoute, NoWire
<1>4. Said(tab) = {}
  BY <1>1 DEF ChatInit, Said
<1> QED BY <1>2, <1>3, <1>4, TabInitial DEF AnswersInv

LEMMA AnswersStep == AnswersInv /\ [ChatNext]_chatVars => AnswersInv'
<1> SUFFICES ASSUME AnswersInv, [ChatNext]_chatVars PROVE AnswersInv'
  OBVIOUS
<1>1. ASSUME UNCHANGED <<tab, route, wire>> PROVE AnswersInv'
  BY <1>1 DEF AnswersInv, ChatTypeOK, TabInv, TabShape, Said, FramesInv, Meant, WholeIsWhole
<1> QED
  BY <1>1, SendQuestionKeeps, ReceiveKeeps, StopOrBreakKeeps, RouteSteps, PageKeeps
  DEF ChatNext, chatVars, RivalSteps

\* "A cut-off answer is never taken for a whole one" (readOllamaStream, ai.ts), of
\* Ollama's own API: for any questions and answers of any length, what the page
\* keeps without an error is all the model wrote, and it had finished.
THEOREM KeptAnswersAreWhole == ASSUME Native = TRUE PROVE ChatSpec => []AnswerWhole
<1>1. AnswersInv => AnswerWhole
  BY DEF AnswersInv, AnswerWhole, Said, WholeIsWhole
<1> QED BY <1>1, AnswersInitial, AnswersStep, PTL DEF ChatSpec

\* A conversation is of one session (clearConversation, startConversation): none is
\* saved from a session's end to the next sign-in, and what is shown and saved
\* then is of the session there is, of either kind of model.
THEOREM ConversationIsForgotten == ChatSpec => []ChatForgotten
<1>1. AnswersInv => ChatForgotten
  BY DEF AnswersInv, TabInv, TabShape, Said, ChatForgotten
<1> QED BY <1>1, AnswersInitial, AnswersStep, PTL DEF ChatSpec
===============================================================================
