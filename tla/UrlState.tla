------------------------------- MODULE UrlState -------------------------------
(***************************************************************************)
(* Page state kept in the query string (useUrlState.ts): several parameters*)
(* of one page, typed ones written once typing pauses, against the router, *)
(* which renders a new address in a transition, and links and Back, which  *)
(* change it under the page's hands.                                       *)
(***************************************************************************)
EXTENDS Integers

CONSTANTS
  Param,       \* the keys of the page's useUrlState calls
  Typed,       \* those with debounceMs
  Setting,     \* values that are not the fallback
  Hurried      \* links and Back are also followed while an address of the
               \* page's own is still to be rendered

ASSUME UrlAssumption == Typed \subseteq Param /\ "none" \notin Setting /\ Hurried \in BOOLEAN

VARIABLES
  address,     \* window.location
  rendered,    \* useLocation() of the last render
  draft,       \* `draft', by key
  typing,      \* `timer', by key, with what its write writes
  lastSet      \* ghost: what the reader has set since somebody else navigated

urlVars == <<address, rendered, draft, typing, lastSet>>

Fallback == "fallback"      \* left out of the address
NotSet == "none"
Nowhere == [k \in Param |-> NotSet]
Plain == [k \in Param |-> Fallback]
Readings == [Param -> Setting \cup {Fallback}]

Here(params) == [page |-> TRUE, params |-> params]
Elsewhere == [page |-> FALSE, params |-> Plain]

\* The value useUrlState returns.
ValueShown(k) == IF draft[k] = NotSet THEN rendered.params[k] ELSE draft[k]

-----------------------------------------------------------------------------
\* useSearchPatch: one key of the address as it is now, and only on the page
\* the hook belongs to.
\*
\* Fault: one key of the address as rendered.
Patched_Rendered(k, v) ==
  IF address.page THEN [address EXCEPT !.params = [rendered.params EXCEPT ![k] = v]] ELSE address

Patched(k, v) == IF address.page THEN [address EXCEPT !.params[k] = v] ELSE address

\* The effect that drops a draft once the address says the same and no write is
\* to come.
WithoutSaid(ds, ts, params) ==
  [k \in Param |-> IF ts[k] = NotSet /\ ds[k] = params[k] THEN NotSet ELSE ds[k]]

\* The setter.
SetValue(k, v) ==
  /\ rendered.page
  /\ lastSet' = [lastSet EXCEPT ![k] = v]
  /\ IF k \in Typed
     THEN typing' = [typing EXCEPT ![k] = v] /\ UNCHANGED address
     ELSE address' = Patched(k, v) /\ UNCHANGED typing
  /\ draft' = WithoutSaid([draft EXCEPT ![k] = v], typing', rendered.params)
  /\ UNCHANGED rendered

\* Typing has paused.
WriteTyped(k) ==
  /\ typing[k] # NotSet
  /\ address' = Patched(k, typing[k])
  /\ typing' = [typing EXCEPT ![k] = NotSet]
  /\ draft' = WithoutSaid(draft, typing', rendered.params)
  /\ UNCHANGED <<rendered, lastSet>>

\* A render with the address as it is now; a page that is left loses its state
\* and its timers.
Render ==
  /\ rendered # address
  /\ rendered' = address
  /\ typing' = IF address.page THEN typing ELSE Nowhere
  /\ draft' = IF address.page THEN WithoutSaid(draft, typing, address.params) ELSE Nowhere
  /\ UNCHANGED <<address, lastSet>>

\* A link, Back or Forward: another page, or this one with what that address
\* says.
FollowLink ==
  /\ Hurried \/ rendered = address
  /\ address' \in {Elsewhere} \cup {Here(params) : params \in Readings}
  /\ lastSet' = Nowhere
  /\ UNCHANGED <<rendered, draft, typing>>

-----------------------------------------------------------------------------
UrlInit ==
  /\ address \in {Here(params) : params \in Readings} /\ rendered = address
  /\ draft = Nowhere /\ typing = Nowhere /\ lastSet = Nowhere

UrlNext ==
  \/ \E k \in Param :
       WriteTyped(k) \/ \E v \in Setting \cup {Fallback} : SetValue(k, v)
  \/ Render \/ FollowLink

UrlSpec == UrlInit /\ [][UrlNext]_urlVars

-----------------------------------------------------------------------------
\* The page and its address agree, so that Back and a shared link restore what
\* was on screen: once the address is rendered and no typing is to be written,
\* every value on the page is the address's; and what the reader has set since
\* the last link stays in the address, whatever else was set in the same event,
\* before a render or while typing, and on no other page.
PageIsItsAddress ==
  /\ rendered = address /\ rendered.page =>
       \A k \in Param : typing[k] = NotSet => ValueShown(k) = address.params[k]
  /\ address.page =>
       \A k \in Param : lastSet[k] # NotSet /\ typing[k] = NotSet => address.params[k] = lastSet[k]
  /\ ~address.page => address = Elsewhere
=============================================================================
