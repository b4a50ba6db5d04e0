# TLA+ models of the HCML monitoring portal

The portal is a web page, a backend-for-frontend (BFF, `server/`) and a Zabbix
server behind it. Zabbix is slow and shared, so nearly everything the BFF keeps
between two requests exists to ask it less: a cache, one live stream for all
screens, gates in front of slow work. The one thing the portal writes is an
acknowledgement or a close, and the hard part of the system is that what an
operator has just done must not be hidden again by any of those. The models
start there, go on to who may read at all (sign-in, sessions), to what the page
does with what it is sent, and end with the figures: the SLI engine and the
reports, whose state is what they read, one request after another, from a Zabbix
that goes on changing.

Source lines below are relative to `src/server/src/` unless they say otherwise.

## 1. The system

JavaScript runs one macrotask at a time. Concurrency comes from `await`: between
two awaits nothing else runs, at an await anything may. An action of these models
is therefore the code between two awaits, and a promise's continuations are
actions of their own wherever another macrotask or continuation may come between.

| part | state it keeps | operations | talks to | hard behaviour |
|---|---|---|---|---|
| Cache (`core/cache.ts`) | `store` in LRU order, `heldBytes`, `pinnedBytes`, `inflight`, `holds` | `cached`, `invalidate` | every service; Zabbix through the fetch it is given | invalidation during a fetch, stale answers, fallback after an await, overlapping holds, eviction |
| Live stream (`services/stream.ts`, `routes/stream.ts`) | `clients`, `latest`, `lastSent`, `ticking`, read numbers | subscribe, remove, tick, refresh, drain, `notifyProblemsChanged`, token expiry | cache, sockets, write-back | overlapping reads, blocked sockets, screens that come and go during a read |
| Write-back (`routes/actions.ts`, `services/actions.ts`) | none of its own | `POST /api/actions/acknowledge` | Zabbix, cache, stream | Zabbix applies a close after it answered; keys that are not dropped |
| Gates (`core/gate.ts`, slots of `clients/ai.ts`) | `running`/`slotHeld`/`hostedActive`, three queues of resolvers | `run`, `acquireModelSlot`, `tryAcquireModelSlot`, `acquireHostedSlot`, releasers | slow reports, the model | hand-over, timeout and abort while queued, jobs that throw |
| AI limits (`clients/limits.ts`) | minute windows, tokens of the day | `take`, `refusal`, `record` | chat and explain routes | check before, charge after; table at its cap; midnight |
| Assistant (`services/assistant*.ts`, `services/chat.ts`, `routes/chat.ts`) | the frozen snapshot (a cache entry), last text the model read | snapshot, answer, prefill | cache, slots, limits, the page | a snapshot dropped and rebuilt concurrently; a question cancelled, timed out or cut short at every stage |
| Sign-in (`security/auth.ts`) | failures per account, signed-out tokens | login, refresh, logout, guard | web session | attempts in parallel with a slow hash, revocation lost on restart |
| Readiness, shutdown (`http/health.ts`, `http/shutdown.ts`) | last check, one flight; `closing` | get, warm; signals | Zabbix, model | abandoned probe; second signal |
| SLI engine (`sli/`) | none | event and trend slicing, replay, maintenance windows, coverage, hosts and WAN paths, service tree | Zabbix | Zabbix changes between the reads; edges of half-open intervals; full pages; sums and their order |
| Reports and queries (`services/*`, `domain/*`) | none but cache entries | availability, alert noise, graphs; capacity, inventory, links and others | cache, Zabbix | four reads at once, a recovery outside the window, an outage from before it; buckets and gaps |
| Exports (`export/`) | none | PDF, XLSX, ZIP | reports | - |
| Web session (`src/web/src/api/session.ts`) | cookie, `session`, `signedOut`, `renewing` | login, logout, renew, messages between tabs | sign-in | a renewal answered after a sign-out, several tabs |
| Web live data (`useSSE.ts`, `useAsync.ts`, `useUrlState.ts`) | connection, retry and watchdog timers; current run; drafts of the address | open, close, frames; run, poll; type, write, go back | stream, BFF, router | who reopens the stream; late answers; two writers of one address |
| Web pages (`src/web/src/features/`) | rows that wait for Zabbix, highlighted rows, the chat | send, look, clear; ask, stop | all of the above | marks that outlive or miss what they are about |
| Zabbix client, configuration, HTTP plumbing, deployment | - | - | - | no shared state |

What makes each correct, in one line: the cache never shows what was read before
an invalidation, never stampedes, stays in its budget and answers everyone; the
stream shows every screen that can take it the latest list and no older one
afterwards; the write-back is seen by whoever looks after it; a gate neither
leaks a place nor lets anyone jump the queue; a sign-out holds, in every tab and
against every answer still under way; the limits hold up to what is let in at
once; a page shows the answer to what was asked last; a report says what was so,
counted second by second, reading by reading and host by host.

## 2. Modules

### The BFF

| module | models | how it relates to the code |
|---|---|---|
| `TtlCache` | `core/cache.ts` | `Hit`, `ServeStale`, `Miss` are `cached()` up to its `await`; `FetchOk`/`FetchFail` are the async function of `begin()` with its `finally`; `ResumeOk`/`ResumeFailed` are the code after the `await`; `Invalidate` is `invalidate()`; `mem` is the store with its order and counters |
| `WriteBack` | `routes/actions.ts`, `services/actions.ts` over `TtlCache` | extends the cache: every cache action also says what the value shows; `SendWrite`, `Apply`, `WriteReplied`, `WriteFailed` are the handler and Zabbix |
| `LiveStream` | `services/stream.ts`, `routes/stream.ts` | `Sample`/`Fail` and `Land` are the two halves of `refresh()` around its `await`; `Tick`, `Subscribe`, `Leave` (`remove`), `Drain`, `EndStreamOf`, `WriteReturns` (`notifyProblemsChanged`) are the handlers of those names |
| `FairGate` | the promise of a gate | abstract: who is inside, who is in line |
| `SlotQueue` | `core/gate.ts`, the slots of `clients/ai.ts` | `taken` is `running`, `slotHeld` (limit 1) or `hostedActive`; `queue` is the list of resolvers; `LeaveQueue` is `leave()`; `TryOnly` requests are `tryAcquireModelSlot`'s, `Patient` ones (no timeout, no signal) `createGate`'s |
| `AiLimits` | `clients/limits.ts`, the guard of the routes | `used` is the day's account, `windows` the table of minutes; the call itself is in a place of `SlotQueue` between the guard and the charge |
| `Snapshot` | `getSnapshot`, `buildSnapshot` of `services/assistantSnapshot.ts` | each `await` of the build and of the comparison is a stage of the flight or of the question; the entry may be dropped by somebody else at any of them |
| `Chat` | `Assistant.tsx`, `chatStream`, `chatStore.ts`; `routes/chat.ts`, `streamAnswer`; the model place of `SlotQueue` | the page, the wire between (frames in order, cut anywhere), the route and the model in one module; `Native` says which of the two protocols the model speaks |
| `Readiness` | `http/health.ts` | one flight and the answer it leaves; calls at Zabbix are known by their age |
| `SignIn` | login of `security/auth.ts` | `failures` in insertion order; an attempt is `checking` between the look at the lock and the count |
| `MapEntries` | a JavaScript `Map` in insertion order | `KeptEntries` is what deleting leaves, for the failures of `SignIn`, the windows of `AiLimits` and the order of `TtlCache`'s store; also the `filter` of `Intervals` and of the events of `SliReplay` |
| `TokenStore` | the tokens of `security/auth.ts` | a token is its serial number; `signedOut` is the log of what was put in it and the positions still there |

### The page

| module | models | how it relates to the code |
|---|---|---|
| `Session` | `api/session.ts`, `useSessionRenewal.ts` over `TokenStore` | per tab `ended` (`signedOut`), `fresh` (`session`), `stage` of `logout()`; one cookie jar; requests that are handled by the BFF and land in the page at moments of their own; a `BroadcastChannel` per tab. Every request may fail: `RefreshFails`, `LogoutFails`, and `ClearFails` for the POST that undoes a renewal. `closed`, `unaware` and `left` are ghosts of the property |
| `LiveClient` | `useSSE.ts` | `es` and the status of every source opened so far, the retry and the watchdog timer, the visibility handler |
| `Polling` | `useAsync.ts` | a run is one call of the effect's `run()`; the commit that changes `deps` and the effect that follows it are apart |
| `UrlState` | `useUrlState.ts` | `draft`, `written`, the timer of each key, `window.location` and what the router has rendered of it. `Hurried` lets links and Back be followed before the last address was rendered |
| `Highlight` | `useChangeHighlight.ts`, `liveList.ts`, `Overview.tsx` | a step is a commit with its effects |
| `SentRows` | `Problems.tsx`, `AckDialog.tsx` | the map of what was sent, against Zabbix and a list that lags |

### Figures

Pure code, checked against definitions that count single seconds, events,
readings or hosts. What is asked, and what Zabbix has, is chosen first; the code
is one step for each request it waits for.

| module | models | how it relates to the code |
|---|---|---|
| `Intervals` | `sli/intervals.ts` | operators on sequences of pairs |
| `SliReplay` | `computeSli` of `sli/engine.ts` up to one trigger's intervals | `now` is fixed, then triggers, events, later events are read while the trigger goes on changing |
| `SliFigures` | coverage, hosts, `buildWanPaths` of `sli/engine.ts` | a percentage is its pair of seconds |
| `SliFetch` | `sli/events.ts` | halving until no page is full; trends cut by rows; the requests of a trend are a set, as several are sent at a time |
| `SliMaintenance` | `sli/maintenance.ts`, `sli/time.ts` | once, daily, weekly, monthly in a small calendar with the same rules and a constant offset from UTC |
| `ServiceTree` | `sli/tree.ts` | a problem is its severity, figures are `SliFigures`'; class, site and path of a host are any that its name can give, and a path is at the site of its first leg (`FirstLeg`), wherever the others are |
| `Incidents` | `services/incidents.ts`, `getAvailability`, `getNoise` | four reads at once and the look-ups after them, of a Zabbix that goes on; an id is trigger and number, one problem of a trigger is open at a time, severities do not change; acknowledgements and medians are left out |
| `GraphPoints` | `getGraph`, `shapeSeries` of `services/history.ts` | a reading is its clock, a point the set of readings it is made of and its weight |

### Composition, instances and proofs

`WriteBack` composes the write-back with the whole cache; `LiveStream` the stream
with the one cache entry it reads and with the write-back's reply; `AiLimits` and
`Chat` what they do with the places of `SlotQueue`; `Session` the tabs with the
tokens of `TokenStore`. `MCTtlCache`, `MCWriteBack` and `MCLiveStream` are
instances for TLC. `MCParts` holds fifteen parts, and `MCSession` four (the tabs
with the BFF, the gates, the stream's client, the polling hook), that share
nothing: a variable (`part`, `which`) says whose behaviour it is, and the
variables of the others stay as they are. So one run checks many small state
spaces one beside the other; nothing is multiplied and nothing composed. Names
that are alike (accounts, callers, attempts, runs, rows) are used there in one
order: a behaviour in another order is one of these renamed. Left out are steps
that lead nowhere: time before the first attempt, an attempt that `MaxTried` leaves
unanswered, a dialog of another row closed before the first send. `Prompt` of
`MCSession` bounds the tabs, which with every message and read at its slowest are too
many states for a run: a message arrives before anything else happens, one tab reads at
a time, no page is loaded between a sign-out and the next sign-in, a page that leaves
begins no renewal, none falls due in a tab that signs out, and none finds another role
or name while a tab does. `Session` itself has none of these bounds, and
`SignOutStays` is proved without them.

Proofs are in `Cache_proofs` (`TtlCache` and, on top of it, `WriteBack`),
`LiveStream_proofs`, `SlotQueue_proofs`, `Session_proofs` (tokens, tabs and
`SignIn`), `PageHooks_proofs` (`LiveClient`, `Polling`, `UrlState`, `SentRows`,
`Highlight` and `Chat`), `Services_proofs` (`AiLimits`, `Snapshot`, `Readiness`,
`ServiceTree`) and `Sli_proofs` (`Intervals`, `SliReplay`, `SliFigures`, `SliFetch`,
`SliMaintenance`, `Incidents`). In `PageHooks_proofs` and `Services_proofs` only the
module is shared: each section is about one component. `SequenceLemmas` says what
`RemoveAt` and `KeptEntries` do, which places a sequence has, how a set is listed and
how a loop over a list (`FoldLeft`) goes.

### Abstractions

* **Values.** A cached value is the number of times its key had been invalidated
  when the fetch that produced it began (`read`). A write is followed by
  `invalidate()`, so `read` behind the key's `epoch` is "read before the write".
  In `WriteBack` a value is whether it shows the write. In `LiveStream` a list is
  three counters: applied writes, other changes a fingerprint covers, changes of
  names only.
* **Sizes.** `approxBytes()` is any member of `Size`; only sums and caps matter.
* **Time.** A clock is there only where the code compares times. That of
  `TtlCache` counts units of `HOLD_TTL_MS` and stops at `MaxTime`. `LiveStream` counts fractions of a tick and keeps only ages, which
  stop growing once past everything they are compared with.
* **Frame and read numbers** (`frameIds`, `readsStarted`, `readsApplied`) are only
  compared, so a screen carries `current` and a read carries `late`.
* **When a fetch reads Zabbix.** In `WriteBack` at the moment it begins, the
  earliest and worst; in `LiveStream` at `Sample`, at any moment before it lands.
* **Stream reads.** Two refreshes may share one fetch in the code (the cache
  coalesces); here each samples on its own, which allows every order the code
  does and more. The 2 s ttl of a write's hold is left out of `LiveStream`, and
  so is `lastReadAt`, which only feeds the age a keep-alive reports. Ending all
  streams at shutdown is `Leave` for every screen.
* Gzip, message wording, logging and headers are left out.

## 3. Runs

| run | instance | shows |
|---|---|---|
| `cache_fresh` | 1 key with every option, 2 callers, 2 flights, 2 prefixes that match it, holds of 0, 1, 2, time to 3, 2 invalidations | `StoreIsCurrent`, `ReadYourWrites`, `OneLiveFetch`, `LeashHonoured`, `OneRefreshPerWindow`, `CallsAnswered` |
| `cache_caps` | 4 keys (2 pinned), sizes 1, 2, 3, 5, caps of 3 entries, 4 bytes, 3 pinned bytes, 1 caller, 1 flight | `WithinBudget`, `PinsOutlastFloods` |
| `writeback_ack` | a listed key and a report with stale window and fallback, 2 callers, 2 flights, an acknowledgement | `DroppedKeysShowWrite` |
| `writeback_devices` | the listed key and `devices` | **violated**: `ProblemKeysShowWrite` |
| `writeback_close` | one listed key, a close applied up to one unit after the reply | **violated**: `CloseShowsAfterHold` |
| `stream_deliver` | 3 screens of one owner, 2 admitted at once, 2 writes, 1 failed read, a tick per unit of time | `NotifiedScreensCurrent` |
| `stream_screen` | 1 screen, 2 units per tick, quiet limit 4, keep-alive 3, one change of each other kind, 1 failed read, fairness | `NameChangesTimely`, `NoTickLeavesQuiet`, `ScreensCatchUp` |
| `stream_joiner` | 2 screens, 1 write | **violated**: `LiveScreensCurrent` |
| `session_shared` | 2 tabs (`Prompt`), 2 tokens, a list of 1 signed-out token, restarts of the BFF, every request may fail; beside it 5 requests for 2 places, 2 patient, 1 that never waits; a page's stream with 3 sources; a polling hook with 2 selections and 3 runs | `SignOutHolds`, `SignedOutRefused`, `SignOutEnds`, `TabsFollow`; `KeepsGatePromise`, `WaitersServed`; `Reconnects`; `LastAskedShown`, `PollsGoOn` |
| `small_parts` | the fifteen parts of `MCParts` | the next table |
| `sli_opens` | the part `replay` | **violated**: `OpensAsItWas` |
| `rows_close` | `SentRows` with 1 row, 2 sends | **violated**: `CloseStaysSaid` |

In `session_shared`, `Reconnects` says that a page that stays in view while the BFF
stays up gets a live line for good; `LastAskedShown`, that with nothing in flight
what was selected last is shown, or failed; `PollsGoOn`, that polling goes on
whatever happened before.

| part of `small_parts` | bounds | property: what it says |
|---|---|---|
| sign-in | 3 accounts for a table of 2, 2 attempts at once, lock after 2, 4 answers, time to 2 | `GuessesSpaced`: more wrong passwords than lock an account and than can be under way take the lock's time, unless one was right or the cap dropped the account; `FailuresRemembered`: an account's last failure is remembered until a success or a table's worth of others |
| AI limits | 2 calls at once of 2 callers in 1 place, limits 2 (user), 3 (all), costs to 2, a table of 1 window | `BudgetHolds`: the day goes over by no more than what was let in together can cost; `MinuteHolds`: twice `PerMinute` calls of a caller take a window's time, unless a table's worth of others called |
| snapshot | 2 questions, 2 fingerprints of each kind | `SnapshotCurrent`: no question is answered from a snapshot older than what it saw itself, another's incomplete one excepted |
| readiness | the default times in seconds | `HealthBounded`: one call at Zabbix at most, abandoned ones counted, and no answer of `READY_STALE_MS` or more |
| chat | 2 questions, a rival for the model, 2 pieces | `AnswerWhole`: what is kept without an error is all the model wrote; `ChatForgotten`: the next person reads nothing of the last one's chat |
| wall | 4 problems for 2 rows, 1 tick | `ClearedWereShown`: what is marked Cleared was on screen the moment before |
| rows | 2 rows, 2 sends, 2 ticks | `MinuteKept`: a row waits until the list shows the change, the problem leaves it or a minute after the last send is over |
| url | 1 typed and 1 chosen parameter, 2 values | `PageIsItsAddress`: at rest the page shows its address, and what was set since the last link is in it |
| replay | 6 seconds, spans of 1, 2, 3; a window begins 3 back at most (`EventsKept`) | `ReplayExact`: the intervals are the seconds in problem, but for a trigger quiet up to `now` that changes before it is read (`ChangedUnseen`, the case of `sli_opens`) |
| figures | 6 lists, 4 sets of hours, per host | `FiguresExact`: seconds down, measured and under maintenance of a host, and of the path those down, are counted once each, whatever the order of the lists |
| fetch | 6 seconds with to 2 events, pages of 3; 4 items, 4 row limits | `ReadOnce`: every event and every row of the trends exactly once, or an error |
| maintenance | periods of each kind, 2 bounds, 2 ranges | `WindowsExact`: the windows are the seconds under maintenance |
| reports | 2 triggers on 1 or 2 hosts, 11 histories, the window open or past, one lookup | `ReportsExact`: downtime, counts and ages are those of the problems open in the window, whatever Zabbix does during the reads; a floor says so |
| graph | 4 windows of up to 24 clocks, 2, 3, 5 or 9 points, 3 delays, trends of up to 6 rows of 4 clocks, readings with holes of up to 23 | `GraphFaithful`: every kept reading in one point and weighed once, at most as many points as asked; a line goes over no more silence than three intervals, a bucket's width and the rest of a trend row; it breaks only over one longer than an interval |
| tree | 3 hosts of 9 kinds, among them legs of one path at two sites and at none, 3 lists of problems, a web check or none | `WholeEstateOnce`: every check once, and every host but the legs that are `Lost`, which are nowhere; the root's worst, list and counts are those of what the tree has |

`TypeOK` of the core modules is proved, so no run spends time on it; TLC found it
true first, as it did all that section 5 lists.

**Why these bounds are enough.** Keys interact only through eviction, so one key
carries every freshness question and four (two of each kind) every eviction one.
Two flights are a cancelled one and its successor, which is where the in-flight
record can go wrong; a third only repeats the second's part. Two callers are one
who began the flight and one who joined. Two prefixes are enough to overlap, two
invalidations to overlap in time. The ttl is longer than `HOLD_TTL_MS`, the hold
longer than that, and time passes the longest of ttl plus stale window, so every
comparison of `cached()` goes both ways. Two screens are one that has the frame
and one that does not; reads need no bound of their own, since a tick starts none
while one is out and each write starts one. Five requests for two places give
queues of three, and with them a middle to leave from. Two tabs are the one that
signs out and the one that is told; two tokens are the one signed out and the one
signed in after it. A table of failures or windows needs one key more than its
cap. Two overlapping attempts, calls, runs, questions or snapshots are the early
and the late one. The lists of the SLI parts hold intervals that are empty,
unsorted, overlapping, touching, apart, and across either edge of the window; the
calendar has weekdays and month days on both sides of a month's end; a page holds
fewer events than two seconds can bring. Of a graph, trend rows are up to 20 clocks
apart, which is five of their intervals, and buckets are narrower and wider than a row
and than an item's interval, so a gap is measured by each of the three and the line
between two points goes both ways; the longest silence that the property allows a line
to cross occurs, with buckets and with trend rows.

**Deadlock** is not checked: a bounded clock stops, a portal nobody uses does
nothing, and a report ends once it is made. That everyone who waits is served is
`CallsAnswered`, `ScreensCatchUp`, `WaitersServed`, `SignOutEnds`, `Reconnects`
and `PollsGoOn`.

**Fairness.** Only what the runtime gives. A fetch ends, because Zabbix calls have
a timeout (`clients/zabbix.ts`); a continuation of a settled promise runs, because
the microtask queue is drained; the interval timer fires while anyone listens; a
socket that is still open drains; a job behind a gate ends, because it is a call
with a timeout. A message of a channel is delivered, a page that is left loads, a
logout's POST is handled and its answer lands, a renewal ends by its 30 s timer. A
timer that is set fires, an effect of a commit runs, a request of a poll ends, an
`EventSource` that is opening is opened or refused. Nobody is assumed to call,
join, leave, write, sign in or out, or let time pass in the cache. `TtlCache`
states its fairness as `[]<>` formulas on the state, equivalent here to weak
fairness of settling and of resuming, since each is possible exactly while the
state says so and only its own step ends that. `SignOutEnds`, `TabsFollow` and
`WaitersServed` are written `[]<>P`: nobody stays for good signing out, left behind
or in line, which is the same as that whoever is so is not so later.

## 4. What the violated runs show

* **`writeback_devices`.** `GET /api/devices` is cached 30 s (`routes/devices.ts:6`)
  and carries each host's open-problem counts (`services/devices.ts:26,40` from
  `services/hosts.ts:49-73`). Its key is not in `STALE_AFTER_WRITE`
  (`services/actions.ts:88`), "Caches that show problem/acknowledgement state and
  go stale after a write". After a close that page is waited out, not dropped.
* **`writeback_close`.** A hold shortens the ttl of calls made during it
  (`core/cache.ts:151`), not the life of what they store. An entry fetched early in
  the hold, before Zabbix applied the close, and not read again until the hold is
  over, is then good for its full ttl. Entries whose ttl outlasts the 15 s hold
  (`stats`, 30 s) can show the closed problem that long. A key that is read all the
  time, as on an open page, is refetched during the hold and not affected.
* **`stream_joiner`.** The last screen leaves with its read under way; an operator
  acknowledges, and the notification finds no screen; a new screen joins and starts
  no read because `ticking` is still set (`services/stream.ts:297`); the old read
  lands and is broadcast to it. The list from before the write stays until the next
  tick.
* **`sli_opens`.** `now` is fixed before any read (`sli/engine.ts:527`) and bounds
  the search for later events (`:626`), but `trigger.get` (`:556`) answers later. A
  trigger quiet in the window that changes in between falls back to the value it has
  now (`:210`): a host that went down a second ago is counted down for the whole
  window, a closed month included.
* **`rows_close`.** `onSent` replaces the whole entry of a problem
  (`web/src/features/problems/Problems.tsx:145`). A late close is forgotten by the
  row once an acknowledgement alone is sent for it, where the comment (`:116-117`)
  says it stays until the problem shows resolved.

### Met on the way

Not properties of a run; each can be seen by setting a constant or reading the line.

* *Cache.* The ticker and the entry it reads have the same 5 s, so a tick can be
  answered with the list of the tick before. One pinned value larger than
  `MAX_PINNED_BYTES` evicts all older pins and then itself
  (`core/cache.ts:249-253`): `PinsOutlastFloods` excepts that case by name.
* *Sessions.* A cookie may stay after a completed sign-out, and `SignOutHolds` excepts
  each way by name (`left`). The POST that clears it failed: the sign-out's own, which
  the page reports to nobody (`Layout.tsx:53`), or that which undoes a renewal, whose
  failure is swallowed (`api/session.ts:71`); or it went with the page that sent it,
  as `goToSignIn` leaves the page at once (`:72`). Or a renewal brought the cookie to a
  tab that had not heard of the sign-out yet (`api/session.ts:14`, ADR-0010:114;
  Safari before 15.4 has no `BroadcastChannel` at all), that was loaded after it, or
  whose `signedOut` was off again: a late answer to a read records a session (`:35`),
  and a renewal that brings another role or name announces `changed` (`:133-136`),
  which a tab that hears it after `signed-out` takes for a sign-in (`:73-74`). The
  other way round, a POST that undoes a renewal takes the cookie of a sign-in made
  while it was under way; the next request of that page is refused and it goes to
  sign-in. A restart of the BFF forgets what was signed out (`security/auth.ts:294`):
  `SignedOutRefused` is about the sign-outs since.
* *AI limits.* The budget is looked at before the place is waited for, so
  `AI_MAX_CONCURRENT` does not bound the overshoot: every call that waits was let in.
* *Assistant.* A question that joined a build marked incomplete gets it without the
  comparison of fingerprints (`services/assistantSnapshot.ts:473`, cf. `:443-445`).
  From an OpenAI-compatible server, a stream that ends without `[DONE]` passes for a
  whole answer (`services/assistantAnswer.ts:59`; `AnswerWhole` fails with
  `Native = FALSE`). An empty reply leaves an empty bubble.
* *Readiness.* `HealthBounded` assumes `ZABBIX_TIMEOUT_MS` under 17 s; above it
  abandoned calls of two checks overlap.
* *Live data.* A `reload()` between a commit and the effect of its new dependencies
  can put the old selection's data under the new one, not marked stale
  (`useAsync.ts:9,39`). In `useUrlState`, a link or Back followed before the last
  address was rendered can leave a draft that never gives way (`Hurried = TRUE`
  violates `PageIsItsAddress`). In `useWallMode`, a `requestFullscreen` that resolves
  after leaving the wall keeps full screen with the wall off.
* *SLI engine.* `sli/engine.ts:48-49` describes the WAN path otherwise than
  `buildWanPaths` (`:823`, `:837`) computes it. `sli/time.ts:9` holds for zones
  without a clock change at local midnight; a maintenance start near 24 h moves on a
  day that is not 24 h long. `sli/tree.ts:184` says `partial` also for a service
  without a web check. A WAN leg whose name gives another site than its path's first
  leg, because its provider names one (`domain/naming.ts:52-59`), appears nowhere in the
  tree, and its problems with it: its site has no such path (`sli/tree.ts:218`), and as
  a leg of a path it is not loose (`:226`). The same goes for a leg with a site when the first
  leg has none (`sli/engine.ts:830`). `WholeEstateOnce` says that these, `Lost`, are the
  only hosts left out.
* *Reports.* The chronic flag takes `longest` of resolved incidents only
  (`services/noise.ts:92`, `AlertNoise.tsx:36`, against
  `docs/setup/21-alert-noise-flapping.md:33`). `services/incidents.ts:72-79` misses a
  long outage of a trigger with multiple events or a raised severity; one older than
  the look-back that ends while the reads run may be missed, as its comment says; a
  problem whose recovery event is lost counts to the window's end, or is missed when
  it began before. A report may call itself a floor with no more old outages than it
  looks up (`incidents.ts:280`): one that is resolved between two reads asks for a
  look-up too, because the recovery is read and the problem's event was read before.
  `FloorExplained` counts those with the old ones; without them TLC finds it violated.
* *Graphs.* The trend row of the hour in which an unaligned `from` falls is not
  drawn. `fetchHistory` takes a full page for the answer when less than 2 s are left
  to halve (`services/history.ts:81`). "3x the expected spacing" (`:104`) is measured
  between points, not readings: a trend row is drawn at the start of its hour and a
  bucket at its middle, so a line may cross a longer silence, by a bucket's width and
  the rest of an hour, or break over a shorter one. `GraphFaithful` says by how much.

## 5. Proofs

Checked by TLAPS for every value of the constants.

**Cache** (`Cache_proofs`, assuming only `CacheAssumption`). The properties are
not inductive alone: that a settled fetch stores a current value needs to know
that a live fetch began after its key's last invalidation, and that a joined
flight answers a caller needs to know when the caller joined. `CacheInv` adds

* `Registered`: what `inflight` holds for a key is a running, live flight of that key,
* `LiveIsCurrent`: a live flight read at the key's present epoch,
* `WaitersAreServed`: a caller's flight is its key's and at least as new as the call,

and gives `TypeCorrect`, `StoreStaysCurrent`, `WritesAreRead` and `NoStampede`.
Eviction enters these only through `EvictEntries`: it takes entries away. `LeashKept`
adds that `holds` covers each key at least as long as any hold put on it
(`HoldsCover`, where `Math.max` of `core/cache.ts:296` is needed) and that a call
remembers that it was held. `RefreshedOnce` adds that an entry whose refresh was
begun is marked.

`CapsHold` and `PinsStay` are about the budget, for any number of entries of any size.
The invariant is that the counters are the true sums and the order lists each stored
key once (`Counted`), and that no cap is passed (`Capped`); every helper of the store is
shown to keep the first, and `evict()` to establish the second whatever it is handed.
`BytesAreCounted` says that the sum `BytesOf` works out entry by entry is the number of
bytes counted one by one; so what sums do when entries come and go is what sizes of
finite sets do. A pin goes only by the first loop, which takes none while the pins fit,
or by the second, whose line has all that is not pinned in front of the pins.

**Write-back** (`Cache_proofs`). `AcknowledgementShows`: whoever calls for a listed
key after the reply sees the acknowledgement. It is assumed that Zabbix has applied it
when it answers (`ApplyDelay = {0}`; a close is applied later, which is what
`writeback_close` is about). `WriteInv` adds, from the reply on, that what the store
holds of the listed keys and what their live fetches have read shows the write
(`StoreShows`, `LiveSees`), and that a later caller's flight is such a one
(`LateCallersSee`). It is built on `CacheInv`: that a cancelled fetch stores nothing,
and that a caller's flight is at least as new as the call, come from there.

**Live stream** (`LiveStream_proofs`, assuming only `StreamAssumption`; `KeptAlive`
also that `KEEPALIVE_MS` is not zero). Every safety property of the passing runs is
proved, and two that only the proofs state, in four parts that build on type
correctness.

* What screens show (`ScreenInv`): a drain sends only to a screen that is not
  `current`, so `CurrentShowLatest` says that the others show the latest frame, and
  that before the first frame nobody shows anything (`ScreensShowLatest`).
* What the hub remembers (`HubInv`, `HubAgrees`): `FrameTracksReads` with the converse that every
  applied read left a frame.
* Writes (`WriteInv`): after a write, for each screen that was there, either what was
  found last is up to date and every out-of-date read is already late
  (`WriteIsSeen`), or some read that will be applied is up to date together with all
  that started after it (`WriteIsOnItsWay`). The forced read establishes the second;
  applying reads turns it into the first; with no read left only the first can hold.
  That the entry dropped by `invalidate()` comes back only with up-to-date lists is
  `CopyUpToDate`. The argument does not use that the forced read is always sent: an
  unsent list has the fingerprint of the frame that is shown.
* The ticker (`TickerInv`): it has one read at a time, if that one was overtaken then
  what overtook it was sent, and a change held back has a tick's time left before
  `MAX_QUIET_MS`, less what has passed of the tick.

**Gates** (`SlotQueue_proofs`, assuming a finite set of requests and a limit of at
least one). The four invariants of `SlotInv`, of which `NoPlaceLeaks`,
`QueueCorrect` and `NoneWaitsForNothing` follow, are inductive together: the counter may go down
only because it counts the holders, the head of the queue may be let in only
because the queue is the waiters, a newcomer may enter only because nobody waits
while a place is free. `GateKept` is the refinement: each step of `SlotQueue` is a
step of `FairGate` or a stutter, and there a newcomer enters only an empty line.

**Sessions** (`Session_proofs`, assuming `TokenAssumption`). On its own, the token
store goes on refusing what was signed out, unless a cap's worth of others followed
it (`RefusedForGood`): `GoneForReason` says that a token put in `signedOut` is there,
or has ended, or that as many were put in after it, and it is inductive because the
oldest entry is the one dropped. `PortalKeepsTokens` is a refinement: every step of
tabs and BFF is a step of `TokenSpec` or leaves the tokens alone. `PortalRefuses` puts
the two together, for any number of tabs.

`SignOutStays` is the sign-out itself, for any number of tabs, tokens and messages,
however slow they are and whichever request fails; it assumes nothing of the constants.
`SignOutHolds` alone is not inductive: that a renewal's cookie comes with a POST needs
to know what each tab knows. `SignOutInv` adds that from the moment a tab posts its
sign-out, every tab is at sign-in, knows of it, has still to hear of it or is one of
`unaware` (`Placed`), and that a renewal it has out is owed a POST, or is waited for by
the sign-out itself, or is that of a tab that does not know (`Accounted`); and that one
person signs in or out in one tab at a time (`OneAtATime`). A tab that knows begins no
renewal, hearing of the sign-out puts the POST in its debt (`Owes`), and a message on
its way goes on being there whatever the other tabs append. So a cookie that comes after
the sign-out comes with the POST that clears it, or is one that `left` stands for; and
that POST ends with the cookie, or fails, which `left` stands for too. That the token
is then refused at the BFF is `RefusedForGood`'s, up to its cap.

**AI limits** (`Services_proofs`). `BudgetKept`: a call is let in under the limit, so
what is used, plus the most that calls owing may still cost, never passes limit
minus one plus the most all calls can cost (`AiInv`); that the total is the sum over
the callers is counted token by token. That a call leaves its place once is taken
from `SlotQueue_proofs` through an `INSTANCE` of it. `MinuteLimitHolds`: a call of the
last minute is counted in its caller's window or in the one before it (`Counted`), so
twice `PerMinute` of them cannot fit. An open window is dropped only when more are open
than the table holds, each by a call of the minute before, which is what the property
excepts.

**Sign-in** (`Session_proofs`). `FailuresStay` and `LockSlowsGuessing` rest on one
invariant, `LockInv`. Of every account whose last failure is not excused (`Standing`),
the Map has the entry, with its time and count, and after it only accounts that
failed since (`Remembered`): the first entry goes only when there are a Map's worth of
these. From the failure that locks an account to the end of its lock no attempt begins,
so what is counted in that time was under way before.

**Assistant** (`Services_proofs`; the chat in `PageHooks_proofs`). `AnswersAreCurrent`: the caches a snapshot is built
from only grow newer, so a build begun after the question reads nothing older than the
question did, and a question waits for its own build alone once it asked for one.
`KeptAnswersAreWhole`: the frames of a connection end with one `done` or `error`, and
`done` is written only when the model has finished, after which nothing is written
(`FramesInv`). Assumed is `Native = TRUE`; of an OpenAI-compatible server the property
is false, as section 4 says. `ConversationIsForgotten` holds of both: what is shown and
saved is of the session there is, and what is saved ends before the session does.

**Readiness** (`Services_proofs`). `HealthIsBounded`: a call at Zabbix is the check's own
and as old as the check, or was given up, and then is `ReadyTimeout` older than the
answer kept of it (`CallIsKnown`); the next check begins `ReadyTtl` after that answer,
when a call so old has ended. `ReadinessAssumption` states what the default times are
to each other.

**SLI engine** (`Sli_proofs`). `ReplayIsExact`: the intervals of a trigger are the seconds
it was in problem, for every history, window and time of asking, one case apart: a
trigger that was quiet from the window's opening to `now` and changed before
`trigger.get` read it (`ChangedUnseen`), of which the theorem says nothing and
`sli_opens` shows that the intervals are wrong. The state is the same
from one event to the next (`SameBetween`), so what it was when the window opened is the
opposite of the first event in the window, or of the first one after it, and without
either is what the trigger shows (`OpensAsSaid`); up to each event, the intervals put out
and the one that is open hold the seconds in problem so far (`SoFar`), which is shown
along the loop. `SpanAssumption` is needed for the look on: the longest span must reach
from the window's end to now, as it does because a window may begin at most 400 days ago
(`EventsKept`; `sli/engine.ts:317,540`).
`FiguresAreExact`: a host's figures and the path's downtime are counts of seconds, for all lists of intervals, hour
marks, windows and limits. It rests on what `intervals.ts` computes, shown loop by loop:
`MergedStayApart`, `TotalIsCount`, `IntersectionIsExact`, `ComplementIsExact`. What a
loop has put out so far is apart and holds the seconds it should of what it has seen
(`JoinedTo`, `Walking`, `PassedTo`), and the lengths of intervals apart add up to how
many seconds they hold. A host that collected whenever another did lacks of the window
only its own maintenance, what was declared and the gaps (`NothingMissing`), so it is
not called partial. Assumed is that a mark of the trends is a whole hour's second and
that there are finitely many (`FigureAssumption`).
`WindowsStayExact`: the windows of a maintenance are the seconds of the range in which
it is active and one of its periods runs, whatever the periods, the range, the offset
and the lengths of day, week, month and year. A span that holds a second of the range
began on a day between `first` and `last` (`DaysLookedAt`, where `lo - period` and a
start within its day are needed), and `startsOn` is right about the day: that a quotient
leaves no remainder is that so many days or weeks have passed, and the week of the month
counts the weekday's days up to then (`WeekIsCounted`). `MaintenanceAssumption` says
what Zabbix takes for a timeperiod.

`ReportsStayExact`: the availability and the noise report, for any number of triggers,
outages, hosts and look-ups, whatever Zabbix does between the reads. `IncidentInv` says
of each answer that has come what is still true of it now (`AnswersHold`): its problems
are there, began when it says, and those it calls open are open or ended now
(`Faithful`); it has all that began in its window before now (`Covers`); an id that is
open and old is among those asked for (`WereOpen`); every recovery of the window up to
now is there, and each is of a problem (`Recovered`). A step of Zabbix keeps this,
because it only adds problems that begin now and ends open ones now (`GoesOn`); each
read establishes its own part. When the report is written, an outage of the window that
none of the answers has began before the look-back and has its recovery in the last
one, which is the trigger's first (`LongIsWanted`), so it is looked up or the report is
a floor; the rest is counting seconds, with the lemmas above (`HostRowIs`,
`TriggerRowIs`). `IncidentAssumption` says how the outages of a trigger follow each
other, and that the window ends before now or now.

`EveryReadOnce`: nothing of a history read in slices is lost or doubled, whatever the
history, the page limit and the cuts. A slice depends on those of shorter windows only
(`ShorterWindows`), so there is one for every window (`SlicesExist`) and each is right
(`SlicesAreRight`): the events of a window are those of its halves in their order
(`EventsOfHalves`), and a page that is not full is the window. For trends, which chunk
an item is in and which window a second is in are what a division says (`OneChunk`,
`OneWindow`), and a chunk's items by a window's hours fit because the smallest chunk
does: `FetchAssumption` has no fewer rows allowed than `TREND_MIN_ITEMS`, as
`TREND_MAX_ROWS` is (`sli/events.ts:58-66`).

`EstateStaysWhole` (in `Services_proofs`): the tree has every web check once and every
host once but those `Lost`, which it does not have, and its root shows what it would had
it seen every problem of the others, for any number of hosts, whatever class, site and
path their names give. By induction from the hosts up, a node `CountsAll` under it:
its counts are sizes of the sets of ids and of hosts in problem under it, its worst is
at least a severity when some problem under it is, and its list, which falls, has of
each severity or above as many as are open under it, or as many as it may show
(`GroupCovers`). Such counts say all that a falling list is (`SameNum`), sorting and
cutting keep them (`WorstOfIs`), and the lists of children that share no host add up to
the same (`ListsAddUp`): what a child cut off is more than its parent shows. That they
share none is where the names matter: a host has one class, one site and at most one
path, and a path one site, that of its first leg, so what is under a site's paths are
the legs of that site but those lost (`PathsAre`, `WanGrove`, `SiteCovers`,
`EstateCovers`). `TreeAssumption` says that hosts are places in a list, they and the web
checks finitely many, severities numbers, that a node shows one problem at least, and
that a host with a path is of class `wan-link`, since both are said of a name that begins
with `INET :` (`domain/naming.ts:91,125`).

**Page hooks** (`PageHooks_proofs`). `OneConnection`: a page never holds two live
connections, none when hidden or left, and has one or the timer that opens it when it
is looked at. `ClientInv` adds that the source in use is not closed and that the timer
is armed only in view. `LateAnswersLose`: `PollInv` adds that the
latest run is in flight and, once the effects have caught up with the commit, was
asked what the page wants. `AddressKept`: a key that is typed shows what its timer will
write, and a draft that was written waits for a render of the very value it holds;
assumed is `Hurried = FALSE`, without which section 4 has the counterexample.
`MinuteIsWhole`: a problem has one timer at most, of its last send, and it has left
what the row has not waited yet. `ClearedStayOnScreen`: what is marked Cleared is where
it still has a row, and a list that takes the row away takes the mark in the same step.

**Model-checked only.** Liveness (`CallsAnswered`, `ScreensCatchUp`,
`WaitersServed`, `SignOutEnds`, `TabsFollow`, `Reconnects`, `PollsGoOn`): fairness
and ENABLED are beyond the prover. Graphs (`GraphFaithful`): shaping is nested folds
over lists of records, and what each computes needs an induction over data of its own.
Every other property of a passing run is a theorem.

## 6. Not modelled

* **SLI engine**: web scenarios (their own items and steps), the last hour, which
  trends do not have yet, and the plain means of summary and groups.
* **Sign-in**: roles, the CSRF header, the user list, the password hash, and the
  plugin that limits requests a minute: each refuses or lets in by the request alone.
* **Assistant**: prompts, wording, what the context holds, prefill (it only warms
  the model, through the same place).
* **HTTP plumbing**: shutdown beyond ending all streams (a signal handler with one
  flag), headers of staleness (a copy of what `cached()` reports), error mapping,
  validation. **Zabbix client**: a request with a timeout; what it does is each
  caller's environment here.
* **Queries**: capacity, inventory, links, meters and hosts are one read and a
  mapping of its rows. **Exports** turn a report into PDF, XLSX and ZIP: layout.
* **Pages** other than those named: they show what the hooks give them.
* **Configuration** is read once; **deployment, tools, tests** and the generated
  `openapi.ts` do not run in the portal.

## 7. Running

    tlc -workers 2 -config MCTtlCache_fresh.cfg MCTtlCache.tla
    tlc -workers 2 -config MCSession_shared.cfg MCSession.tla
    tlc -workers 2 -config MCParts.cfg MCParts.tla
    tlapm Cache_proofs.tla
    tlapm Services_proofs.tla

Most runs take under a minute; `session_shared` and `small_parts` about two or three
with two workers. `PROJECT.json` lists the runs, the source lines each definition stands
for, the mutations of the code that each property catches, and the hazards.
