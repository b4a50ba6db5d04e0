------------------------------- MODULE TtlCache -------------------------------
(***************************************************************************)
(* The in-memory cache of the BFF (server/src/core/cache.ts): every read   *)
(* of Zabbix goes through cached(), every write drops what it made out of  *)
(* date with invalidate().  Callers are the requests (and the stream tick) *)
(* that await cached(); flights are the fetches under way.                 *)
(*                                                                         *)
(* Values are abstracted to what tells an old one from a new one: `read',  *)
(* the number of times the key had been invalidated when the fetch that    *)
(* produced the value began.  A write is followed by invalidate(), so a    *)
(* value whose `read' is behind the key's epoch may predate a write.       *)
(*                                                                         *)
(* JavaScript runs one macrotask at a time, so each action is the code     *)
(* between two awaits.  A caller resumes in a microtask of its own after   *)
(* its flight has settled, hence Resume is apart from FetchOk/FetchFail.   *)
(***************************************************************************)
EXTENDS Integers, Sequences, FiniteSets, FiniteSetsExt, Functions, MapEntries

CONSTANTS
  Key,             \* cache keys: 'problems', 'stats', 'sli:...', ...
  Prefix,          \* prefixes some caller passes to invalidate()
  Match,           \* Match[p]: the keys that start with prefix p
  EmptyPrefix,     \* the prefix '', which matches everything and clears holds
  Caller,          \* concurrent awaiting calls of cached()
  Flight,          \* identities of the in-flight records
  None,            \* no caller, no flight, no key
  Opt,             \* Opt[k]: the ttl and CacheOptions every call of k passes
  Size,            \* sizes approxBytes() can return for a fetched value
  MaxEntries, MaxBytes, MaxPinnedBytes,  \* MAX_ENTRIES, MAX_BYTES, MAX_PINNED_BYTES
  HoldTtl,         \* HOLD_TTL_MS
  HoldMs,          \* the holdMs values callers of invalidate() pass (0: none)
  MaxTime,         \* bound: the clock stops here
  MaxEpoch         \* bound: invalidations of one key

ASSUME CacheAssumption ==
  /\ Match \in [Prefix -> SUBSET Key]
  /\ EmptyPrefix \in Prefix => Match[EmptyPrefix] = Key
  /\ None \notin Key \cup Caller \cup Flight
  /\ Opt \in [Key -> [ttl: Nat, stale: Nat, onError: BOOLEAN, pin: BOOLEAN]]
  /\ Size \subseteq Nat
  /\ {MaxEntries, MaxBytes, MaxPinnedBytes, HoldTtl, MaxTime, MaxEpoch} \subseteq Nat
  /\ HoldMs \subseteq Nat

VARIABLES
  now,       \* Date.now()
  mem,       \* store with its LRU order and its two byte counters
  inflight,  \* key -> the flight registered for it
  holds,     \* invalidated prefix -> when its hold ends
  flight,    \* every flight that someone may still look at
  call,      \* every caller, idle or awaiting a flight
  epoch,     \* ghost: how often each key has been invalidated
  leash,     \* ghost: until when the latest-ending hold put on each key runs
  answer     \* ghost: the answer given last

vars == <<now, mem, inflight, holds, flight, call, epoch, leash, answer>>

\* `tries' is a ghost: background refreshes begun for this stored value.
Entry == [t: Nat, read: Nat, bytes: Nat, pinned: BOOLEAN, refreshing: BOOLEAN, tries: Nat]

FlightRecord ==
  [st: {"running", "ok", "failed"}, key: Key, cancelled: BOOLEAN, read: Nat]

IdleFlight == [st |-> "idle"]

CallRecord ==
  [st: {"waiting"}, key: Key, on: Flight, held: BOOLEAN, leashed: BOOLEAN, asked: Nat]

IdleCall == [st |-> "idle"]

AnswerRecord ==
  [how: {"hit", "stale", "fetched", "fallback", "error"},
   asked: Nat, read: Nat, age: Int, leashed: BOOLEAN]

NoAnswer == [how |-> "none"]

TypeOK ==
  /\ now \in Nat
  /\ DOMAIN mem.entry \subseteq Key
  /\ \A k \in DOMAIN mem.entry : mem.entry[k] \in Entry
  /\ DOMAIN inflight \subseteq Key
  /\ \A k \in DOMAIN inflight : inflight[k] \in Flight
  /\ DOMAIN holds \subseteq Prefix
  /\ \A p \in DOMAIN holds : holds[p] \in Nat
  /\ flight \in [Flight -> FlightRecord \cup {IdleFlight}]
  /\ call \in [Caller -> CallRecord \cup {IdleCall}]
  /\ epoch \in [Key -> Nat]
  /\ leash \in [Key -> Nat]
  /\ answer \in AnswerRecord \cup {NoAnswer}

-----------------------------------------------------------------------------
(* The store: a Map in least-recently-used order with its byte counters.   *)

Without(f, D) == Restrict(f, DOMAIN f \ D)

BytesOf(m, D) ==
  MapThenSumSet(LAMBDA k : m.entry[k].bytes, D \cap DOMAIN m.entry)

PinnedIn(m) == {k \in DOMAIN m.entry : m.entry[k].pinned}

\* The keys of D, least recently used first.
InOrder(m, D) == KeptEntries(m.order, {i \in 1..Len(m.order) : m.order[i] \in D})

\* discard(), for each key of D.
Discard(m, D) ==
  [entry |-> Without(m.entry, D),
   order |-> InOrder(m, DOMAIN m.entry \ D),
   bytes |-> m.bytes - BytesOf(m, D),
   pinnedBytes |-> m.pinnedBytes - BytesOf(m, D \cap PinnedIn(m))]

Foremost(line, n) == {line[i] : i \in 1..n}

\* The victims of one of evict()'s loops: the shortest front of the sequence
\* `line' whose length is in `enough', all of it when none is.
Victims(line, enough) == Foremost(line, Min(enough \cup {Len(line)}))

\* The lengths at which the loop over all entries stops.
WithinCaps(m, pins, line) ==
  {n \in 0..Len(line) :
     LET gone == pins \cup Foremost(line, n)
     IN  /\ Cardinality(DOMAIN m.entry \ gone) <= MaxEntries
         /\ m.bytes - BytesOf(m, gone) <= MaxBytes}

PinVictims(m) ==
  LET line == InOrder(m, PinnedIn(m))
  IN  Victims(line, {n \in 0..Len(line) :
                       m.pinnedBytes - BytesOf(m, Foremost(line, n)) <= MaxPinnedBytes})

\* Least recently used first: pins down to their own cap, then anything down to
\* the caps on all entries, unpinned before pinned.
\*
\* Fault: evict() takes the least recently used of all, pinned or not.
Evict_IgnoresPins(m) == Discard(m, Victims(m.order, WithinCaps(m, {}, m.order)))

OtherVictims(m, pins) ==
  LET rest == DOMAIN m.entry \ pins
      line == InOrder(m, rest \ PinnedIn(m)) \o InOrder(m, rest \cap PinnedIn(m))
  IN  Victims(line, WithinCaps(m, pins, line))

Evict(m) ==
  LET pins == PinVictims(m) IN Discard(m, pins \cup OtherVictims(m, pins))

Put(m, k, e) ==
  [entry |-> [x \in DOMAIN m.entry \cup {k} |-> IF x = k THEN e ELSE m.entry[x]],
   order |-> Append(m.order, k),
   bytes |-> m.bytes + e.bytes,
   pinnedBytes |-> m.pinnedBytes + (IF e.pinned THEN e.bytes ELSE 0)]

\* Fault: remember() does not discard the entry it replaces.
Remember_NoDiscard(m, k, e) ==
  Evict([Put(m, k, e) EXCEPT !.order = Append(InOrder(m, DOMAIN m.entry \ {k}), k)])

Remember(m, k, e) == Evict(Put(Discard(m, {k}), k, e))

\* A value too big for the whole budget is not stored, and what it would have
\* replaced goes as well.
Keep(m, k, e) == IF e.bytes > MaxBytes THEN Discard(m, {k}) ELSE Remember(m, k, e)

-----------------------------------------------------------------------------
(* What cached() works out on entry.                                       *)

LiveHolds == Restrict(holds, {p \in DOMAIN holds : holds[p] > now})

IsHeld(k) == \E p \in DOMAIN LiveHolds : k \in Match[p]

Ttl(k) == IF IsHeld(k) THEN Min({Opt[k].ttl, HoldTtl}) ELSE Opt[k].ttl

StaleMs(k) == IF IsHeld(k) THEN 0 ELSE Opt[k].stale

Age(k) == now - mem.entry[k].t

Fresh(k) == k \in DOMAIN mem.entry /\ Age(k) < Ttl(k)

Stale(k) == k \in DOMAIN mem.entry /\ ~Fresh(k) /\ Age(k) < Ttl(k) + StaleMs(k)

Answer(how, asked, read, age, leashed) ==
  answer' = [how |-> how, asked |-> asked, read |-> read, age |-> age, leashed |-> leashed]

FromStore(how, k, asked, leashed) ==
  Answer(how, asked, mem.entry[k].read, Age(k), leashed)

NewFlight(k) == [st |-> "running", key |-> k, cancelled |-> FALSE, read |-> epoch[k]]

\* begin(): the flight is registered before the fetch runs.
Begin(k, f) ==
  /\ flight[f] = IdleFlight
  /\ flight' = [flight EXCEPT ![f] = NewFlight(k)]
  /\ inflight' = [x \in DOMAIN inflight \cup {k} |-> IF x = k THEN f ELSE inflight[x]]

-----------------------------------------------------------------------------
(* cached(), up to its await.                                              *)

Hit(c, k) ==
  /\ call[c] = IdleCall
  /\ Fresh(k)
  /\ mem' = Remember(mem, k, mem.entry[k])
  /\ holds' = LiveHolds
  /\ FromStore("hit", k, epoch[k], now < leash[k])
  /\ UNCHANGED <<now, inflight, flight, call, epoch, leash>>

\* A background refresh starts unless this value already had one or a fetch
\* of the key is under way.
\*
\* Fault: only the in-flight map is looked at, so every failed refresh is retried.
StartsRefresh_Unflagged(k) == k \notin DOMAIN inflight

StartsRefresh(k) == ~mem.entry[k].refreshing /\ k \notin DOMAIN inflight

Refreshing(e) == [e EXCEPT !.refreshing = TRUE, !.tries = @ + 1]

ServeStale(c, k) ==
  /\ call[c] = IdleCall
  /\ Stale(k)
  /\ IF StartsRefresh(k)
     THEN /\ \E f \in Flight : Begin(k, f)
          /\ mem' = Remember(mem, k, Refreshing(mem.entry[k]))
     ELSE /\ mem' = Remember(mem, k, mem.entry[k])
          /\ UNCHANGED <<inflight, flight>>
  /\ holds' = LiveHolds
  /\ FromStore("stale", k, epoch[k], now < leash[k])
  /\ UNCHANGED <<now, call, epoch, leash>>

Await(c, k, f) ==
  call' = [call EXCEPT ![c] = [st |-> "waiting", key |-> k, on |-> f,
                               held |-> IsHeld(k), leashed |-> now < leash[k],
                               asked |-> epoch[k]]]

\* Coalesce with the registered flight, or begin one.
Miss(c, k) ==
  /\ call[c] = IdleCall
  /\ ~Fresh(k) /\ ~Stale(k)
  /\ \/ /\ k \in DOMAIN inflight
        /\ Await(c, k, inflight[k])
        /\ UNCHANGED <<inflight, flight>>
     \/ /\ k \notin DOMAIN inflight
        /\ \E f \in Flight : Begin(k, f) /\ Await(c, k, f)
  /\ holds' = LiveHolds
  /\ UNCHANGED <<now, mem, epoch, leash, answer>>

-----------------------------------------------------------------------------
(* The fetch settles; its callers resume.                                  *)

Waiters(f) == {c \in Caller : call[c] # IdleCall /\ call[c].on = f}

\* A settled flight is only remembered while somebody has yet to resume.
Settle(f, outcome) ==
  flight' = [flight EXCEPT ![f] = IF Waiters(f) = {} THEN IdleFlight
                                  ELSE [@ EXCEPT !.st = outcome]]

\* The finally block: only the flight's own record goes.
\*
\* Fault: the record is removed whoever owns it by now.
Deregister_Unowned(f) ==
  inflight' = Without(inflight, {flight[f].key})

Deregister(f) ==
  LET k == flight[f].key
  IN  inflight' = IF k \in DOMAIN inflight /\ inflight[k] = f
                  THEN Without(inflight, {k}) ELSE inflight

NewEntry(f, bytes) ==
  [t |-> now, read |-> flight[f].read, bytes |-> bytes,
   pinned |-> Opt[flight[f].key].pin, refreshing |-> FALSE, tries |-> 0]

FetchOk(f, bytes) ==
  /\ flight[f].st = "running"
  /\ mem' = IF flight[f].cancelled THEN mem
            ELSE Keep(mem, flight[f].key, NewEntry(f, bytes))
  /\ Deregister(f)
  /\ Settle(f, "ok")
  /\ UNCHANGED <<now, holds, call, epoch, leash, answer>>

FetchFail(f) ==
  /\ flight[f].st = "running"
  /\ Deregister(f)
  /\ Settle(f, "failed")
  /\ UNCHANGED <<now, mem, holds, call, epoch, leash, answer>>

\* The last caller to resume lets go of the flight.
Release(c) ==
  LET f == call[c].on
  IN  /\ call' = [call EXCEPT ![c] = IdleCall]
      /\ flight' = [flight EXCEPT ![f] = IF Waiters(f) = {c} THEN IdleFlight ELSE @]

ResumeOk(c) ==
  /\ call[c] # IdleCall
  /\ flight[call[c].on].st = "ok"
  /\ Answer("fetched", call[c].asked, flight[call[c].on].read, 0, call[c].leashed)
  /\ Release(c)
  /\ UNCHANGED <<now, mem, inflight, holds, epoch, leash>>

\* staleIfError: whatever the store still holds, unless the call was in a hold.
HasFallback(c) ==
  Opt[call[c].key].onError /\ ~call[c].held /\ call[c].key \in DOMAIN mem.entry

ResumeFailed(c) ==
  /\ call[c] # IdleCall
  /\ flight[call[c].on].st = "failed"
  /\ IF HasFallback(c)
     THEN /\ mem' = Remember(mem, call[c].key, mem.entry[call[c].key])
          /\ FromStore("fallback", call[c].key, call[c].asked, call[c].leashed)
     ELSE /\ Answer("error", call[c].asked, 0, 0, call[c].leashed)
          /\ UNCHANGED mem
  /\ Release(c)
  /\ UNCHANGED <<now, inflight, holds, epoch, leash>>

-----------------------------------------------------------------------------
(* invalidate(prefix, {holdMs}), and the clock.                            *)

\* Faults: the flights are not marked; they are aborted with callers still waiting.
Cancelled_Unmarked(D) == [f \in Flight |-> flight[f]]

Cancelled_Aborted(D) ==
  [f \in Flight |->
     IF \E k \in D \cap DOMAIN inflight : inflight[k] = f THEN IdleFlight ELSE flight[f]]

Cancelled(D) ==
  [f \in Flight |->
     IF \E k \in D \cap DOMAIN inflight : inflight[k] = f
     THEN [flight[f] EXCEPT !.cancelled = TRUE] ELSE flight[f]]

\* New callers do not find the flights of the keys D any more.
\* Fault: they do.
Unregistered_Not(D) == inflight

Unregistered(D) == Without(inflight, D)

\* Fault: a later, shorter invalidation ends a hold early.
HoldUntil_Latest(p, ms) == now + ms

HoldUntil(p, ms) ==
  IF p \in DOMAIN holds /\ p # EmptyPrefix /\ holds[p] > now + ms THEN holds[p] ELSE now + ms

NewHolds(p, ms) ==
  LET kept == IF p = EmptyPrefix THEN Without(holds, DOMAIN holds) ELSE holds
  IN  IF ms = 0 THEN kept
      ELSE [x \in DOMAIN kept \cup {p} |-> IF x = p THEN HoldUntil(p, ms) ELSE kept[x]]

Invalidate(p, ms) ==
  /\ \A k \in Match[p] : epoch[k] < MaxEpoch
  /\ mem' = Discard(mem, Match[p])
  /\ flight' = Cancelled(Match[p])
  /\ inflight' = Unregistered(Match[p])
  /\ holds' = NewHolds(p, ms)
  /\ epoch' = [k \in Key |-> IF k \in Match[p] THEN epoch[k] + 1 ELSE epoch[k]]
  /\ leash' = [k \in Key |-> LET old == IF p = EmptyPrefix THEN 0 ELSE leash[k]
                             IN  IF k \in Match[p] /\ ms > 0 /\ now + ms > old
                                 THEN now + ms ELSE old]
  /\ UNCHANGED <<now, call, answer>>

Tick ==
  /\ now < MaxTime
  /\ now' = now + 1
  /\ UNCHANGED <<mem, inflight, holds, flight, call, epoch, leash, answer>>

EmptyStore == [entry |-> [k \in {} |-> None], order |-> <<>>, bytes |-> 0, pinnedBytes |-> 0]

Init ==
  /\ now = 0
  /\ mem = EmptyStore
  /\ inflight = [k \in {} |-> None]
  /\ holds = [p \in {} |-> None]
  /\ flight = [f \in Flight |-> IdleFlight]
  /\ call = [c \in Caller |-> IdleCall]
  /\ epoch = [k \in Key |-> 0]
  /\ leash = [k \in Key |-> 0]
  /\ answer = NoAnswer

Next ==
  \/ \E c \in Caller, k \in Key : Hit(c, k)
  \/ \E c \in Caller, k \in Key : ServeStale(c, k)
  \/ \E c \in Caller, k \in Key : Miss(c, k)
  \/ \E f \in Flight, bytes \in Size : FetchOk(f, bytes)
  \/ \E f \in Flight : FetchFail(f)
  \/ \E c \in Caller : ResumeOk(c)
  \/ \E c \in Caller : ResumeFailed(c)
  \/ \E p \in Prefix, ms \in HoldMs : Invalidate(p, ms)
  \/ Tick

\* No fetch runs for ever (Zabbix calls are cut off by a timeout,
\* clients/zabbix.ts), and no caller of a settled one is left unresumed for ever
\* (the microtask queue).  Both are weak fairness, of settling and of resuming,
\* written out: each is possible exactly while the state says so, and only its
\* own step ends that.  Nobody has to call, invalidate, or let time pass.
Settled(c) == call[c] # IdleCall /\ flight[call[c].on].st \in {"ok", "failed"}

Fairness ==
  /\ \A f \in Flight : []<>(flight[f].st # "running")
  /\ \A c \in Caller : []<>~Settled(c)

Spec == Init /\ [][Next]_vars

FairSpec == Spec /\ Fairness

-----------------------------------------------------------------------------
(* Properties.                                                             *)

\* A value read before an invalidation of its key is never in the store again:
\* neither left there, nor put back by a fetch that was already under way
\* (`cancelled', and the check of it before keep()).
StoreIsCurrent ==
  \A k \in DOMAIN mem.entry : mem.entry[k].read = epoch[k]

\* Read your writes: whoever calls after an invalidation gets nothing that was
\* read before it, on any path (hit, stale answer, coalesced fetch, fallback
\* after an error), whatever fetches were under way when it happened.
ReadYourWrites ==
  answer.how \in {"hit", "stale", "fetched", "fallback"} => answer.read >= answer.asked

\* Concurrent misses never stampede Zabbix: of the fetches running for a key
\* at most one is live (not cancelled), and it is the registered one.
OneLiveFetch ==
  \A f \in Flight :
    flight[f].st = "running" /\ ~flight[f].cancelled
      => /\ flight[f].key \in DOMAIN inflight
         /\ inflight[flight[f].key] = f

\* While any hold put on a key runs, also one a later, shorter invalidation
\* overlapped, nobody who calls for the key is answered from a value HOLD_TTL_MS
\* or more old, from a stale one, or from what an error fell back on.
LeashHonoured ==
  answer # NoAnswer /\ answer.leashed =>
    /\ answer.how \notin {"stale", "fallback"}
    /\ answer.how = "hit" => answer.age < HoldTtl

\* The counters the eviction loops trust are the true sums, the LRU order
\* lists exactly the stored keys once each, and all three caps hold: after
\* hits, replacements, oversized values, evictions and invalidations.
WithinBudget ==
  /\ mem.bytes = BytesOf(mem, DOMAIN mem.entry)
  /\ mem.pinnedBytes = BytesOf(mem, PinnedIn(mem))
  /\ {mem.order[i] : i \in 1..Len(mem.order)} = DOMAIN mem.entry
  /\ Len(mem.order) = Cardinality(DOMAIN mem.entry)
  /\ Len(mem.order) <= MaxEntries
  /\ mem.bytes <= MaxBytes
  /\ mem.pinnedBytes <= MaxPinnedBytes

\* The flights that settle in a step, and the pins it drops that none of these
\* had fetched anew.
SettledNow == {f \in Flight : flight[f].st = "running" /\ flight'[f] # flight[f]}

PinsGone == PinnedIn(mem) \ (DOMAIN mem'.entry \cup {flight[f].key : f \in SettledNow})

\* A flood of ordinary keys cannot push out a pinned value: a step other than
\* invalidate() that drops pinned entries nobody refetched leaves no unpinned
\* entry behind, or had to, for keeping them would have overrun the pins' own
\* cap.  (A pin bigger than that cap takes the others with it and goes too.)
PinsOutlastFloods ==
  [][PinsGone # {} /\ epoch' = epoch =>
       \/ PinnedIn(mem') = DOMAIN mem'.entry
       \/ mem'.pinnedBytes + BytesOf(mem, PinsGone) > MaxPinnedBytes
       \/ \E f \in SettledNow : Opt[flight[f].key].pin /\ flight[f].key \notin DOMAIN mem'.entry
    ]_vars

\* One refresh per stale window: while a value stays stored, a background
\* refresh of it is begun at most once, even when that refresh fails, so a
\* struggling Zabbix is not asked again on every request.
OneRefreshPerWindow ==
  \A k \in DOMAIN mem.entry : mem.entry[k].tries <= 1

\* Every call of cached() is answered, also when its flight is cancelled,
\* fails, or was begun by somebody else.
CallsAnswered ==
  \A c \in Caller : call[c] # IdleCall ~> call[c] = IdleCall

=============================================================================
