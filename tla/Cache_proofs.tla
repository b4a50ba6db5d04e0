------------------------------ MODULE Cache_proofs ------------------------------
(***************************************************************************)
(* Why cached() and invalidate() never show what was read before a write,  *)
(* for any keys, prefixes, callers, flights, options, sizes and caps; and  *)
(* why an acknowledgement that was answered is on every screen that asks   *)
(* for a listed key from then on.                                          *)
(*                                                                         *)
(* The argument: a flight that is not cancelled is the registered one of   *)
(* its key and began after the key's last invalidation, so what it stores  *)
(* is current; whoever waits for a flight joined it after it had begun, so *)
(* the answer is at least as new as the call.  Of eviction that part needs *)
(* only that it takes entries away; what it takes, and that the counters   *)
(* it goes by are the true sums, comes after.                              *)
(***************************************************************************)
EXTENDS WriteBack, SequenceLemmas, TLAPS

-----------------------------------------------------------------------------
(* The store: what its helpers do to the entries.                          *)

\* discard() takes away the given keys and touches no other.
LEMMA DiscardEntries ==
  ASSUME NEW m, NEW D
  PROVE  /\ DOMAIN Discard(m, D).entry = DOMAIN m.entry \ D
         /\ \A x \in DOMAIN m.entry \ D : Discard(m, D).entry[x] = m.entry[x]
BY DEF Discard, Without, Restrict

\* evict() only takes entries away.
LEMMA EvictEntries ==
  ASSUME NEW m
  PROVE  /\ DOMAIN Evict(m).entry \subseteq DOMAIN m.entry
         /\ \A x \in DOMAIN Evict(m).entry : Evict(m).entry[x] = m.entry[x]
<1>1. PICK D : Evict(m) = Discard(m, D)
  BY DEF Evict
<1> QED BY <1>1, DiscardEntries

\* remember() puts one entry in, which eviction may take out again with others.
LEMMA RememberEntries ==
  ASSUME NEW m, NEW k, NEW e
  PROVE  /\ DOMAIN Remember(m, k, e).entry \subseteq DOMAIN m.entry \cup {k}
         /\ \A x \in DOMAIN Remember(m, k, e).entry :
              Remember(m, k, e).entry[x] = IF x = k THEN e ELSE m.entry[x]
<1> DEFINE d == Discard(m, {k})
           p == Put(d, k, e)
<1>1. /\ DOMAIN d.entry = DOMAIN m.entry \ {k}
      /\ \A x \in DOMAIN d.entry : d.entry[x] = m.entry[x]
  BY DiscardEntries
<1>2. /\ DOMAIN p.entry = DOMAIN d.entry \cup {k}
      /\ \A x \in DOMAIN p.entry : p.entry[x] = IF x = k THEN e ELSE d.entry[x]
  BY DEF Put
<1>3. /\ DOMAIN Evict(p).entry \subseteq DOMAIN p.entry
      /\ \A x \in DOMAIN Evict(p).entry : Evict(p).entry[x] = p.entry[x]
  BY EvictEntries
<1>4. Remember(m, k, e) = Evict(p)
  BY DEF Remember
<1> HIDE DEF d, p
<1> QED BY <1>1, <1>2, <1>3, <1>4

\* keep() is remember(), or a discard when the value is too big to store.
LEMMA KeepEntries ==
  ASSUME NEW m, NEW k, NEW e
  PROVE  /\ DOMAIN Keep(m, k, e).entry \subseteq DOMAIN m.entry \cup {k}
         /\ \A x \in DOMAIN Keep(m, k, e).entry :
              Keep(m, k, e).entry[x] = IF x = k THEN e ELSE m.entry[x]
BY DiscardEntries, RememberEntries DEF Keep

-----------------------------------------------------------------------------
(* The invariant.                                                          *)

\* A registered flight is a running, uncancelled fetch of its key.
Registered ==
  \A k \in DOMAIN inflight :
    /\ flight[inflight[k]].st = "running"
    /\ flight[inflight[k]].key = k
    /\ ~flight[inflight[k]].cancelled

\* What a live flight will store is current.
LiveIsCurrent ==
  \A f \in Flight :
    flight[f].st = "running" /\ ~flight[f].cancelled => flight[f].read = epoch[flight[f].key]

\* A waiting call is on a flight for its key that began no earlier than it could.
WaitersAreServed ==
  \A c \in Caller : call[c] # IdleCall =>
    /\ flight[call[c].on] # IdleFlight
    /\ flight[call[c].on].key = call[c].key
    /\ flight[call[c].on].read >= call[c].asked
    /\ call[c].asked <= epoch[call[c].key]

CacheInv ==
  /\ TypeOK
  /\ StoreIsCurrent
  /\ OneLiveFetch
  /\ ReadYourWrites
  /\ Registered
  /\ LiveIsCurrent
  /\ WaitersAreServed

\* A hold still running for a key is in the map, or a longer one is.
HoldsCover ==
  \A k \in Key : leash[k] > now =>
    \E p \in DOMAIN holds : k \in Match[p] /\ holds[p] >= leash[k]

\* A call made under a hold knows that it was.
CallsKnowHolds ==
  \A c \in Caller : call[c] # IdleCall /\ call[c].leashed => call[c].held

LeashInv == HoldsCover /\ CallsKnowHolds /\ LeashHonoured

\* A value whose refresh was begun is marked.
RefreshMarked ==
  \A k \in DOMAIN mem.entry : mem.entry[k].tries <= (IF mem.entry[k].refreshing THEN 1 ELSE 0)

-----------------------------------------------------------------------------
(* Parts of the steps that several actions share.                          *)

\* A current value put in leaves a current store.
LEMMA PutKeepsStore ==
  ASSUME TypeOK, StoreIsCurrent, NEW k \in Key, NEW e \in Entry, e.read = epoch[k],
         mem' = Remember(mem, k, e) \/ mem' = Keep(mem, k, e)
  PROVE  /\ DOMAIN mem'.entry \subseteq Key
         /\ \A x \in DOMAIN mem'.entry : mem'.entry[x] \in Entry
         /\ \A x \in DOMAIN mem'.entry : mem'.entry[x].read = epoch[x]
<1>1. /\ DOMAIN mem'.entry \subseteq DOMAIN mem.entry \cup {k}
      /\ \A x \in DOMAIN mem'.entry : mem'.entry[x] = IF x = k THEN e ELSE mem.entry[x]
  BY RememberEntries, KeepEntries
<1> QED BY <1>1 DEF TypeOK, StoreIsCurrent

\* isHeld() deletes ended holds and nothing else.
LEMMA HoldsType ==
  ASSUME TypeOK, holds' = LiveHolds
  PROVE  DOMAIN holds' \subseteq Prefix /\ \A p \in DOMAIN holds' : holds'[p] \in Nat
BY DEF TypeOK, LiveHolds, Restrict

\* Marking an entry as refreshed leaves an entry.
LEMMA RefreshingType ==
  ASSUME NEW e \in Entry
  PROVE  /\ Refreshing(e) \in Entry
         /\ Refreshing(e).read = e.read
         /\ Refreshing(e).refreshing
         /\ Refreshing(e).tries = e.tries + 1
<1> DEFINE d == [e EXCEPT !.refreshing = TRUE]
<1>1. d \in Entry /\ d.read = e.read /\ d.tries = e.tries /\ d.refreshing
  BY DEF Entry
<1>2. Refreshing(e) = [d EXCEPT !.tries = e.tries + 1]
  BY DEF Refreshing
<1>3. e.tries + 1 \in Nat
  BY DEF Entry
<1> HIDE DEF d
<1> QED BY <1>1, <1>2, <1>3 DEF Entry

\* A flight begun for a key without one is the key's only live flight.
LEMMA BeginKeeps ==
  ASSUME CacheInv, NEW k \in Key, NEW f \in Flight, k \notin DOMAIN inflight, Begin(k, f),
         epoch' = epoch
  PROVE  /\ flight' \in [Flight -> FlightRecord \cup {IdleFlight}]
         /\ DOMAIN inflight' \subseteq Key
         /\ \A x \in DOMAIN inflight' : inflight'[x] \in Flight
         /\ OneLiveFetch' /\ Registered' /\ LiveIsCurrent'
         /\ flight'[f] = NewFlight(k)
         /\ \A g \in Flight \ {f} : flight'[g] = flight[g]
<1> USE DEF CacheInv
<1>1. /\ flight[f] = IdleFlight
      /\ flight' = [flight EXCEPT ![f] = NewFlight(k)]
      /\ inflight' = [x \in DOMAIN inflight \cup {k} |-> IF x = k THEN f ELSE inflight[x]]
  BY DEF Begin
<1>2. /\ NewFlight(k) \in FlightRecord
      /\ NewFlight(k).st = "running" /\ NewFlight(k).key = k
      /\ ~NewFlight(k).cancelled /\ NewFlight(k).read = epoch[k]
  BY DEF NewFlight, FlightRecord, TypeOK
<1>3. /\ flight'[f] = NewFlight(k)
      /\ \A g \in Flight \ {f} : flight'[g] = flight[g]
  BY <1>1 DEF TypeOK
<1>4. flight' \in [Flight -> FlightRecord \cup {IdleFlight}]
  BY <1>1, <1>2 DEF TypeOK
<1>5. /\ DOMAIN inflight' = DOMAIN inflight \cup {k}
      /\ inflight'[k] = f
      /\ \A x \in DOMAIN inflight : inflight'[x] = inflight[x] /\ x # k
      /\ DOMAIN inflight \subseteq Key
      /\ \A x \in DOMAIN inflight : inflight[x] \in Flight
  BY <1>1 DEF TypeOK
<1>6. \A x \in DOMAIN inflight : inflight[x] # f
  BY <1>1 DEF Registered, IdleFlight
<1>7. Registered'
  BY <1>2, <1>3, <1>5, <1>6 DEF Registered
<1>8. OneLiveFetch'
  BY <1>2, <1>3, <1>5 DEF OneLiveFetch
<1>9. LiveIsCurrent'
  BY <1>2, <1>3 DEF LiveIsCurrent
<1> QED BY <1>3, <1>4, <1>5, <1>7, <1>8, <1>9

\* The begun flight was idle, so nobody waited for it.
LEMMA BeginKeepsWaiters ==
  ASSUME CacheInv, NEW k \in Key, NEW f \in Flight, k \notin DOMAIN inflight, Begin(k, f),
         NEW c \in Caller, call[c] # IdleCall
  PROVE  flight'[call[c].on] = flight[call[c].on]
BY DEF CacheInv, TypeOK, CallRecord, WaitersAreServed, Begin

-----------------------------------------------------------------------------
(* CacheInv is kept by every step.                                         *)

\* A hit only moves its entry to the front of the order.
LEMMA HitKeeps ==
  ASSUME CacheInv, NEW c \in Caller, NEW k \in Key, Hit(c, k)
  PROVE  CacheInv'
<1> USE DEF CacheInv
<1>1. /\ k \in DOMAIN mem.entry /\ mem.entry[k] \in Entry /\ mem.entry[k].read = epoch[k]
      /\ mem' = Remember(mem, k, mem.entry[k])
      /\ holds' = LiveHolds
      /\ FromStore("hit", k, epoch[k], now < leash[k])
      /\ UNCHANGED <<now, inflight, flight, call, epoch, leash>>
  BY DEF Hit, Fresh, TypeOK, StoreIsCurrent
<1>2. /\ DOMAIN mem'.entry \subseteq Key
      /\ \A x \in DOMAIN mem'.entry : mem'.entry[x] \in Entry
      /\ \A x \in DOMAIN mem'.entry : mem'.entry[x].read = epoch[x]
  BY <1>1, PutKeepsStore
<1>3. /\ answer' \in AnswerRecord
      /\ answer'.read = epoch[k] /\ answer'.asked = epoch[k]
  BY <1>1 DEF FromStore, Answer, AnswerRecord, TypeOK, Entry, Age
<1>4. TypeOK'
  BY <1>1, <1>2, <1>3, HoldsType DEF TypeOK
<1>5. ReadYourWrites'
  BY <1>1, <1>3 DEF ReadYourWrites, TypeOK
<1>6. StoreIsCurrent'
  BY <1>1, <1>2 DEF StoreIsCurrent
<1>7. OneLiveFetch' /\ Registered' /\ LiveIsCurrent' /\ WaitersAreServed'
  BY <1>1 DEF OneLiveFetch, Registered, LiveIsCurrent, WaitersAreServed
<1> QED BY <1>4, <1>5, <1>6, <1>7

\* A stale answer may begin a flight that nobody waits for.
LEMMA ServeStaleKeeps ==
  ASSUME CacheInv, NEW c \in Caller, NEW k \in Key, ServeStale(c, k)
  PROVE  CacheInv'
<1> USE DEF CacheInv
<1>1. /\ k \in DOMAIN mem.entry /\ mem.entry[k] \in Entry /\ mem.entry[k].read = epoch[k]
      /\ holds' = LiveHolds
      /\ FromStore("stale", k, epoch[k], now < leash[k])
      /\ UNCHANGED <<now, call, epoch, leash>>
  BY DEF ServeStale, Stale, TypeOK, StoreIsCurrent
<1>2. PICK e \in Entry : mem' = Remember(mem, k, e) /\ e.read = epoch[k]
  <2>1. CASE StartsRefresh(k)
    <3>1. mem' = Remember(mem, k, Refreshing(mem.entry[k]))
      BY <2>1 DEF ServeStale
    <3>2. Refreshing(mem.entry[k]) \in Entry /\ Refreshing(mem.entry[k]).read = epoch[k]
      BY <1>1, RefreshingType
    <3> QED BY <3>1, <3>2
  <2>2. CASE ~StartsRefresh(k)
    BY <1>1, <2>2 DEF ServeStale
  <2> QED BY <2>1, <2>2
<1>3. /\ DOMAIN mem'.entry \subseteq Key
      /\ \A x \in DOMAIN mem'.entry : mem'.entry[x] \in Entry
      /\ \A x \in DOMAIN mem'.entry : mem'.entry[x].read = epoch[x]
  BY <1>2, PutKeepsStore
<1>4. /\ answer' \in AnswerRecord
      /\ answer'.read = epoch[k] /\ answer'.asked = epoch[k]
  BY <1>1 DEF FromStore, Answer, AnswerRecord, TypeOK, Entry, Age
<1>5. /\ flight' \in [Flight -> FlightRecord \cup {IdleFlight}]
      /\ DOMAIN inflight' \subseteq Key
      /\ \A x \in DOMAIN inflight' : inflight'[x] \in Flight
      /\ OneLiveFetch' /\ Registered' /\ LiveIsCurrent'
      /\ \A d \in Caller : call[d] # IdleCall => flight'[call[d].on] = flight[call[d].on]
  <2>1. CASE StartsRefresh(k)
    <3>1. k \notin DOMAIN inflight
      BY <2>1 DEF StartsRefresh
    <3>2. PICK f \in Flight : Begin(k, f)
      BY <2>1 DEF ServeStale
    <3> QED BY <1>1, <3>1, <3>2, BeginKeeps, BeginKeepsWaiters
  <2>2. CASE ~StartsRefresh(k)
    <3>1. UNCHANGED <<inflight, flight>>
      BY <2>2 DEF ServeStale
    <3> QED BY <1>1, <3>1 DEF TypeOK, OneLiveFetch, Registered, LiveIsCurrent
  <2> QED BY <2>1, <2>2
<1>6. TypeOK'
  BY <1>1, <1>3, <1>4, <1>5, HoldsType DEF TypeOK
<1>7. ReadYourWrites'
  BY <1>1, <1>4 DEF ReadYourWrites, TypeOK
<1>8. StoreIsCurrent'
  BY <1>1, <1>3 DEF StoreIsCurrent
<1>9. WaitersAreServed'
  BY <1>1, <1>5 DEF WaitersAreServed
<1> QED BY <1>5, <1>6, <1>7, <1>8, <1>9

\* A miss joins the registered flight of its key, or begins it.
LEMMA MissKeeps ==
  ASSUME CacheInv, NEW c \in Caller, NEW k \in Key, Miss(c, k)
  PROVE  CacheInv'
<1> USE DEF CacheInv
<1>1. /\ call[c] = IdleCall
      /\ holds' = LiveHolds
      /\ UNCHANGED <<now, mem, epoch, leash, answer>>
  BY DEF Miss
<1>2. PICK f \in Flight :
        /\ Await(c, k, f)
        /\ \/ k \in DOMAIN inflight /\ f = inflight[k] /\ UNCHANGED <<inflight, flight>>
           \/ k \notin DOMAIN inflight /\ Begin(k, f)
  BY DEF Miss, TypeOK
<1> DEFINE w == [st |-> "waiting", key |-> k, on |-> f,
                 held |-> IsHeld(k), leashed |-> now < leash[k], asked |-> epoch[k]]
<1>3. w \in CallRecord /\ w.key = k /\ w.on = f /\ w.asked = epoch[k]
  BY DEF CallRecord, TypeOK, IsHeld
<1>4. call' = [call EXCEPT ![c] = w]
  BY <1>2 DEF Await
<1> HIDE DEF w
<1>5. /\ flight' \in [Flight -> FlightRecord \cup {IdleFlight}]
      /\ DOMAIN inflight' \subseteq Key
      /\ \A x \in DOMAIN inflight' : inflight'[x] \in Flight
      /\ OneLiveFetch' /\ Registered' /\ LiveIsCurrent'
      /\ \A d \in Caller : call[d] # IdleCall => flight'[call[d].on] = flight[call[d].on]
      /\ flight'[f].st = "running" /\ flight'[f].key = k /\ flight'[f].read = epoch[k]
  <2>1. CASE k \in DOMAIN inflight /\ f = inflight[k] /\ UNCHANGED <<inflight, flight>>
    BY <1>1, <2>1 DEF TypeOK, OneLiveFetch, Registered, LiveIsCurrent
  <2>2. CASE k \notin DOMAIN inflight /\ Begin(k, f)
    <3>1. flight'[f].st = "running" /\ flight'[f].key = k /\ flight'[f].read = epoch[k]
      <4>1. flight'[f] = NewFlight(k)
        BY <1>1, <2>2, BeginKeeps
      <4> QED BY <4>1 DEF NewFlight
    <3>2. \A d \in Caller : call[d] # IdleCall => flight'[call[d].on] = flight[call[d].on]
      BY <2>2, BeginKeepsWaiters
    <3> QED BY <1>1, <2>2, <3>1, <3>2, BeginKeeps
  <2> QED BY <1>2, <2>1, <2>2
<1>6. TypeOK'
  BY <1>1, <1>3, <1>4, <1>5, HoldsType DEF TypeOK
<1>7. WaitersAreServed'
  <2>1. flight'[f] # IdleFlight
    BY <1>5 DEF IdleFlight
  <2>2. epoch[k] \in Nat
    BY DEF TypeOK
  <2>3. call'[c] = w /\ \A d \in Caller \ {c} : call'[d] = call[d]
    BY <1>4 DEF TypeOK
  <2> QED BY <1>1, <1>3, <1>5, <2>1, <2>2, <2>3 DEF WaitersAreServed
<1>8. StoreIsCurrent' /\ ReadYourWrites'
  BY <1>1 DEF StoreIsCurrent, ReadYourWrites
<1> QED BY <1>5, <1>6, <1>7, <1>8

\* A settled fetch is registered no longer, and its callers still find it.
LEMMA SettleKeeps ==
  ASSUME CacheInv, NEW f \in Flight, NEW outcome \in {"ok", "failed"},
         flight[f].st = "running", Deregister(f), Settle(f, outcome),
         UNCHANGED <<call, epoch>>
  PROVE  /\ flight' \in [Flight -> FlightRecord \cup {IdleFlight}]
         /\ DOMAIN inflight' \subseteq Key
         /\ \A x \in DOMAIN inflight' : inflight'[x] \in Flight
         /\ OneLiveFetch' /\ Registered' /\ LiveIsCurrent' /\ WaitersAreServed'
<1> USE DEF CacheInv
<1>1. flight[f] \in FlightRecord
  BY DEF TypeOK, IdleFlight
<1> DEFINE done == [flight[f] EXCEPT !.st = outcome]
<1>2. /\ done \in FlightRecord /\ done.st = outcome
      /\ done.key = flight[f].key /\ done.read = flight[f].read
  BY <1>1 DEF FlightRecord
<1>3. flight' = [flight EXCEPT ![f] = IF Waiters(f) = {} THEN IdleFlight ELSE done]
  BY DEF Settle
<1> HIDE DEF done
<1>4. /\ flight'[f] = (IF Waiters(f) = {} THEN IdleFlight ELSE done)
      /\ \A g \in Flight \ {f} : flight'[g] = flight[g]
      /\ flight'[f].st # "running"
      /\ flight' \in [Flight -> FlightRecord \cup {IdleFlight}]
  BY <1>2, <1>3 DEF TypeOK, IdleFlight
<1>5. /\ DOMAIN inflight' \subseteq DOMAIN inflight
      /\ \A x \in DOMAIN inflight' : inflight'[x] = inflight[x] /\ inflight[x] # f
      /\ \A x \in DOMAIN inflight : inflight[x] # f => x \in DOMAIN inflight'
  <2> DEFINE k == flight[f].key
  <2>1. \A x \in DOMAIN inflight : inflight[x] = f => x = k
    BY DEF Registered
  <2>2. inflight' = IF k \in DOMAIN inflight /\ inflight[k] = f
                    THEN [x \in DOMAIN inflight \ {k} |-> inflight[x]] ELSE inflight
    BY DEF Deregister, Without, Restrict
  <2> HIDE DEF k
  <2> QED BY <2>1, <2>2
<1>6. DOMAIN inflight' \subseteq Key /\ \A x \in DOMAIN inflight' : inflight'[x] \in Flight
  BY <1>5 DEF TypeOK
<1>7. Registered'
  BY <1>4, <1>5, <1>6 DEF Registered
<1>8. OneLiveFetch'
  BY <1>4, <1>5 DEF OneLiveFetch
<1>9. LiveIsCurrent'
  BY <1>4 DEF LiveIsCurrent
<1>10. WaitersAreServed'
  <2> SUFFICES ASSUME NEW c \in Caller, call[c] # IdleCall
               PROVE  /\ flight'[call[c].on] # IdleFlight
                      /\ flight'[call[c].on].key = call[c].key
                      /\ flight'[call[c].on].read >= call[c].asked
                      /\ call[c].asked <= epoch[call[c].key]
    BY DEF WaitersAreServed
  <2>1. call[c].on \in Flight
    BY DEF TypeOK, CallRecord
  <2>2. CASE call[c].on = f
    <3>1. Waiters(f) # {}
      BY <2>2 DEF Waiters
    <3>2. flight'[f] = done /\ done # IdleFlight
      BY <1>2, <1>4, <3>1 DEF IdleFlight
    <3> QED BY <1>2, <2>2, <3>2 DEF WaitersAreServed
  <2>3. CASE call[c].on # f
    BY <1>4, <2>1, <2>3 DEF WaitersAreServed
  <2> QED BY <2>2, <2>3
<1> QED BY <1>4, <1>6, <1>7, <1>8, <1>9, <1>10

\* A fetch that ends well stores its value unless it was cancelled.
LEMMA FetchOkKeeps ==
  ASSUME CacheInv, NEW f \in Flight, NEW bytes \in Size, FetchOk(f, bytes)
  PROVE  CacheInv'
<1> USE DEF CacheInv
<1>1. /\ flight[f].st = "running"
      /\ Deregister(f) /\ Settle(f, "ok")
      /\ UNCHANGED <<now, holds, call, epoch, leash, answer>>
  BY DEF FetchOk
<1>2. flight[f] \in FlightRecord /\ flight[f].key \in Key
  BY <1>1 DEF TypeOK, IdleFlight, FlightRecord
<1>3. /\ flight' \in [Flight -> FlightRecord \cup {IdleFlight}]
      /\ DOMAIN inflight' \subseteq Key
      /\ \A x \in DOMAIN inflight' : inflight'[x] \in Flight
      /\ OneLiveFetch' /\ Registered' /\ LiveIsCurrent' /\ WaitersAreServed'
  BY <1>1, SettleKeeps
<1>4. /\ DOMAIN mem'.entry \subseteq Key
      /\ \A x \in DOMAIN mem'.entry : mem'.entry[x] \in Entry
      /\ \A x \in DOMAIN mem'.entry : mem'.entry[x].read = epoch[x]
  <2>1. CASE flight[f].cancelled
    <3>1. mem' = mem
      BY <2>1 DEF FetchOk
    <3> QED BY <3>1 DEF TypeOK, StoreIsCurrent
  <2>2. CASE ~flight[f].cancelled
    <3>1. NewEntry(f, bytes) \in Entry /\ NewEntry(f, bytes).read = flight[f].read
      BY <1>2, CacheAssumption DEF NewEntry, Entry, FlightRecord, TypeOK, CacheAssumption
    <3>2. flight[f].read = epoch[flight[f].key]
      BY <1>1, <2>2 DEF LiveIsCurrent
    <3>3. mem' = Keep(mem, flight[f].key, NewEntry(f, bytes))
      BY <2>2 DEF FetchOk
    <3> QED BY <1>2, <3>1, <3>2, <3>3, PutKeepsStore
  <2> QED BY <2>1, <2>2
<1>5. TypeOK'
  BY <1>1, <1>3, <1>4 DEF TypeOK
<1>6. StoreIsCurrent' /\ ReadYourWrites'
  BY <1>1, <1>4 DEF StoreIsCurrent, ReadYourWrites
<1> QED BY <1>3, <1>5, <1>6

\* A failed fetch stores nothing.
LEMMA FetchFailKeeps ==
  ASSUME CacheInv, NEW f \in Flight, FetchFail(f)
  PROVE  CacheInv'
<1> USE DEF CacheInv
<1>1. /\ flight[f].st = "running"
      /\ Deregister(f) /\ Settle(f, "failed")
      /\ UNCHANGED <<now, mem, holds, call, epoch, leash, answer>>
  BY DEF FetchFail
<1>2. /\ flight' \in [Flight -> FlightRecord \cup {IdleFlight}]
      /\ DOMAIN inflight' \subseteq Key
      /\ \A x \in DOMAIN inflight' : inflight'[x] \in Flight
      /\ OneLiveFetch' /\ Registered' /\ LiveIsCurrent' /\ WaitersAreServed'
  BY <1>1, SettleKeeps
<1>3. TypeOK'
  BY <1>1, <1>2 DEF TypeOK
<1>4. StoreIsCurrent' /\ ReadYourWrites'
  BY <1>1 DEF StoreIsCurrent, ReadYourWrites
<1> QED BY <1>2, <1>3, <1>4

\* A settled flight goes with the last of its callers.
LEMMA ReleaseKeeps ==
  ASSUME CacheInv, NEW c \in Caller, call[c] # IdleCall,
         flight[call[c].on].st # "running", Release(c), UNCHANGED <<inflight, epoch>>
  PROVE  /\ flight' \in [Flight -> FlightRecord \cup {IdleFlight}]
         /\ call' \in [Caller -> CallRecord \cup {IdleCall}]
         /\ OneLiveFetch' /\ Registered' /\ LiveIsCurrent' /\ WaitersAreServed'
<1> USE DEF CacheInv
<1> DEFINE f == call[c].on
<1>1. f \in Flight
  BY DEF TypeOK, CallRecord
<1>2. /\ call' = [call EXCEPT ![c] = IdleCall]
      /\ flight' = [flight EXCEPT ![f] = IF Waiters(f) = {c} THEN IdleFlight ELSE flight[f]]
      /\ flight[f].st # "running"
  BY DEF Release
<1> HIDE DEF f
<1>3. /\ flight'[f] = (IF Waiters(f) = {c} THEN IdleFlight ELSE flight[f])
      /\ \A g \in Flight \ {f} : flight'[g] = flight[g]
      /\ flight'[f].st # "running"
      /\ flight' \in [Flight -> FlightRecord \cup {IdleFlight}]
  BY <1>1, <1>2 DEF TypeOK, IdleFlight
<1>4. /\ call'[c] = IdleCall
      /\ \A d \in Caller \ {c} : call'[d] = call[d]
      /\ call' \in [Caller -> CallRecord \cup {IdleCall}]
  BY <1>2 DEF TypeOK
<1>5. Registered'
  BY <1>1, <1>2, <1>3 DEF Registered, TypeOK
<1>6. OneLiveFetch' /\ LiveIsCurrent'
  BY <1>3 DEF OneLiveFetch, LiveIsCurrent
<1>7. WaitersAreServed'
  <2> SUFFICES ASSUME NEW d \in Caller, call'[d] # IdleCall
               PROVE  /\ flight'[call'[d].on] # IdleFlight
                      /\ flight'[call'[d].on].key = call'[d].key
                      /\ flight'[call'[d].on].read >= call'[d].asked
                      /\ call'[d].asked <= epoch[call'[d].key]
    BY DEF WaitersAreServed
  <2>1. d # c /\ call'[d] = call[d] /\ call[d].on \in Flight
    BY <1>4 DEF TypeOK, CallRecord
  <2>2. flight'[call[d].on] = flight[call[d].on]
    <3>1. CASE call[d].on = f
      <4>1. Waiters(f) # {c}
        BY <2>1, <3>1 DEF Waiters
      <4> QED BY <1>3, <3>1, <4>1
    <3>2. CASE call[d].on # f
      BY <1>3, <2>1, <3>2
    <3> QED BY <3>1, <3>2
  <2> QED BY <2>1, <2>2 DEF WaitersAreServed
<1> QED BY <1>3, <1>4, <1>5, <1>6, <1>7

\* The answer of a flight is as new as the calls that wait for it.
LEMMA ResumeOkKeeps ==
  ASSUME CacheInv, NEW c \in Caller, ResumeOk(c)
  PROVE  CacheInv'
<1> USE DEF CacheInv
<1>1. /\ call[c] # IdleCall
      /\ flight[call[c].on].st = "ok"
      /\ Answer("fetched", call[c].asked, flight[call[c].on].read, 0, call[c].leashed)
      /\ Release(c)
      /\ UNCHANGED <<now, mem, inflight, holds, epoch, leash>>
  BY DEF ResumeOk
<1>2. /\ flight' \in [Flight -> FlightRecord \cup {IdleFlight}]
      /\ call' \in [Caller -> CallRecord \cup {IdleCall}]
      /\ OneLiveFetch' /\ Registered' /\ LiveIsCurrent' /\ WaitersAreServed'
  BY <1>1, ReleaseKeeps
<1>3. call[c] \in CallRecord /\ flight[call[c].on] \in FlightRecord
  BY <1>1 DEF TypeOK, CallRecord, IdleFlight
<1>4. answer' \in AnswerRecord /\ answer'.read >= answer'.asked
  BY <1>1, <1>3 DEF Answer, AnswerRecord, CallRecord, FlightRecord, WaitersAreServed
<1>5. TypeOK'
  BY <1>1, <1>2, <1>4 DEF TypeOK
<1>6. StoreIsCurrent' /\ ReadYourWrites'
  BY <1>1, <1>4 DEF StoreIsCurrent, ReadYourWrites
<1> QED BY <1>2, <1>5, <1>6

\* The fallback comes from the store, which is current.
LEMMA ResumeFailedKeeps ==
  ASSUME CacheInv, NEW c \in Caller, ResumeFailed(c)
  PROVE  CacheInv'
<1> USE DEF CacheInv
<1>1. /\ call[c] # IdleCall
      /\ flight[call[c].on].st = "failed"
      /\ Release(c)
      /\ UNCHANGED <<now, inflight, holds, epoch, leash>>
  BY DEF ResumeFailed
<1>2. /\ flight' \in [Flight -> FlightRecord \cup {IdleFlight}]
      /\ call' \in [Caller -> CallRecord \cup {IdleCall}]
      /\ OneLiveFetch' /\ Registered' /\ LiveIsCurrent' /\ WaitersAreServed'
  BY <1>1, ReleaseKeeps
<1>3. call[c] \in CallRecord
  BY <1>1 DEF TypeOK
<1>4. /\ DOMAIN mem'.entry \subseteq Key
      /\ \A x \in DOMAIN mem'.entry : mem'.entry[x] \in Entry
      /\ \A x \in DOMAIN mem'.entry : mem'.entry[x].read = epoch[x]
      /\ answer' \in AnswerRecord
      /\ answer'.how # "error" => answer'.read >= answer'.asked
  <2>1. CASE HasFallback(c)
    <3> DEFINE k == call[c].key
    <3>1. /\ k \in Key /\ k \in DOMAIN mem.entry /\ mem.entry[k] \in Entry
          /\ mem.entry[k].read = epoch[k]
      BY <1>3, <2>1 DEF HasFallback, CallRecord, TypeOK, StoreIsCurrent
    <3>2. /\ mem' = Remember(mem, k, mem.entry[k])
          /\ FromStore("fallback", k, call[c].asked, call[c].leashed)
      BY <2>1 DEF ResumeFailed
    <3>3. call[c].asked <= epoch[k]
      BY <1>1 DEF WaitersAreServed
    <3> HIDE DEF k
    <3>4. answer' \in AnswerRecord /\ answer'.read >= answer'.asked
      BY <1>3, <3>1, <3>2, <3>3 DEF FromStore, Answer, AnswerRecord, CallRecord, Entry, Age, TypeOK
    <3> QED BY <3>1, <3>2, <3>4, PutKeepsStore
  <2>2. CASE ~HasFallback(c)
    <3>1. /\ Answer("error", call[c].asked, 0, 0, call[c].leashed)
          /\ mem' = mem
      BY <2>2 DEF ResumeFailed
    <3>2. answer' \in AnswerRecord /\ answer'.how = "error"
      BY <1>3, <3>1 DEF Answer, AnswerRecord, CallRecord
    <3> QED BY <3>1, <3>2 DEF TypeOK, StoreIsCurrent
  <2> QED BY <2>1, <2>2
<1>5. TypeOK'
  BY <1>1, <1>2, <1>4 DEF TypeOK
<1>6. StoreIsCurrent' /\ ReadYourWrites'
  BY <1>1, <1>4 DEF StoreIsCurrent, ReadYourWrites
<1> QED BY <1>2, <1>5, <1>6

\* invalidate() drops, cancels and unregisters every value of the keys it outdates.
LEMMA InvalidateKeeps ==
  ASSUME CacheInv, NEW p \in Prefix, NEW ms \in Nat, Invalidate(p, ms)
  PROVE  CacheInv'
<1> USE DEF CacheInv
<1> DEFINE D == Match[p]
<1>1. D \subseteq Key /\ ms \in Nat
  BY CacheAssumption DEF CacheAssumption
<1>2. /\ mem' = Discard(mem, D)
      /\ flight' = Cancelled(D)
      /\ inflight' = Unregistered(D)
      /\ epoch' = [k \in Key |-> IF k \in D THEN epoch[k] + 1 ELSE epoch[k]]
      /\ holds' = NewHolds(p, ms)
      /\ UNCHANGED <<now, call, answer>>
  BY DEF Invalidate
<1>3. leash' \in [Key -> Nat]
  BY <1>1 DEF Invalidate, TypeOK
<1> HIDE DEF D
<1>4. /\ epoch' \in [Key -> Nat]
      /\ \A k \in Key : epoch'[k] >= epoch[k]
      /\ \A k \in Key \ D : epoch'[k] = epoch[k]
  BY <1>2 DEF TypeOK
<1>5. DOMAIN holds' \subseteq Prefix /\ \A q \in DOMAIN holds' : holds'[q] \in Nat
  <2> DEFINE kept == IF p = EmptyPrefix THEN Without(holds, DOMAIN holds) ELSE holds
  <2>1. DOMAIN kept \subseteq Prefix /\ \A q \in DOMAIN kept : kept[q] \in Nat
    BY DEF Without, Restrict, TypeOK
  <2>2. HoldUntil(p, ms) \in Nat
    BY <1>1 DEF HoldUntil, TypeOK
  <2>3. holds' = IF ms = 0 THEN kept
                 ELSE [q \in DOMAIN kept \cup {p} |-> IF q = p THEN HoldUntil(p, ms) ELSE kept[q]]
    BY <1>2 DEF NewHolds
  <2> HIDE DEF kept
  <2> QED BY <2>1, <2>2, <2>3
<1>6. /\ DOMAIN mem'.entry \subseteq DOMAIN mem.entry \ D
      /\ \A x \in DOMAIN mem'.entry : mem'.entry[x] = mem.entry[x]
  BY <1>2, DiscardEntries
<1>7. /\ DOMAIN inflight' = DOMAIN inflight \ D
      /\ \A x \in DOMAIN inflight' : inflight'[x] = inflight[x]
  BY <1>2 DEF Unregistered, Without, Restrict
<1> DEFINE Hit_(f) == \E k \in D \cap DOMAIN inflight : inflight[k] = f
<1>8. ASSUME NEW f \in Flight
      PROVE  /\ flight'[f] \in FlightRecord \cup {IdleFlight}
             /\ Hit_(f) => /\ flight'[f] # IdleFlight
                           /\ flight'[f].st = flight[f].st /\ flight'[f].key = flight[f].key
                           /\ flight'[f].read = flight[f].read /\ flight'[f].cancelled
             /\ ~Hit_(f) => flight'[f] = flight[f]
  <2>1. flight'[f] = IF Hit_(f) THEN [flight[f] EXCEPT !.cancelled = TRUE] ELSE flight[f]
    BY <1>2 DEF Cancelled
  <2>2. CASE Hit_(f)
    <3>1. flight[f] \in FlightRecord
      BY <2>2 DEF Registered, TypeOK, IdleFlight
    <3> QED BY <2>1, <2>2, <3>1 DEF FlightRecord, IdleFlight
  <2>3. CASE ~Hit_(f)
    BY <2>1, <2>3 DEF TypeOK
  <2> QED BY <2>2, <2>3
<1>9. flight' \in [Flight -> FlightRecord \cup {IdleFlight}]
  <2>1. flight' = [f \in Flight |-> flight'[f]]
    BY <1>2 DEF Cancelled
  <2> QED BY <1>8, <2>1
<1>10. \A k \in DOMAIN inflight' : ~Hit_(inflight[k])
  BY <1>7 DEF Registered
<1>11. \A f \in Flight : flight[f].st = "running" /\ ~flight[f].cancelled /\ ~Hit_(f)
         => flight[f].key \in DOMAIN inflight' /\ inflight[flight[f].key] = f
  BY <1>7 DEF OneLiveFetch
<1> HIDE DEF Hit_
<1>12. Registered'
  BY <1>7, <1>8, <1>10 DEF Registered, TypeOK
<1>13. OneLiveFetch'
  BY <1>7, <1>8, <1>11 DEF OneLiveFetch
<1>14. LiveIsCurrent'
  <2> SUFFICES ASSUME NEW f \in Flight, flight'[f].st = "running", ~flight'[f].cancelled
               PROVE  flight'[f].read = epoch'[flight'[f].key]
    BY DEF LiveIsCurrent
  <2>1. ~Hit_(f) /\ flight'[f] = flight[f]
    BY <1>8
  <2>2. flight[f].key \in Key \ D
    BY <1>7, <1>11, <2>1 DEF TypeOK
  <2> QED BY <1>4, <2>1, <2>2 DEF LiveIsCurrent
<1>15. WaitersAreServed'
  <2> SUFFICES ASSUME NEW c \in Caller, call[c] # IdleCall
               PROVE  /\ flight'[call[c].on] # IdleFlight
                      /\ flight'[call[c].on].key = call[c].key
                      /\ flight'[call[c].on].read >= call[c].asked
                      /\ call[c].asked <= epoch'[call[c].key]
    BY <1>2 DEF WaitersAreServed
  <2>1. /\ call[c].on \in Flight /\ call[c].key \in Key
        /\ call[c].asked \in Nat /\ epoch[call[c].key] \in Nat
    BY DEF TypeOK, CallRecord
  <2>2. call[c].asked <= epoch'[call[c].key]
    BY <1>4, <2>1 DEF WaitersAreServed
  <2> QED BY <1>8, <2>1, <2>2 DEF WaitersAreServed
<1>16. TypeOK'
  BY <1>2, <1>3, <1>4, <1>5, <1>6, <1>7, <1>9 DEF TypeOK
<1>17. StoreIsCurrent'
  BY <1>4, <1>6 DEF StoreIsCurrent, TypeOK
<1>18. ReadYourWrites'
  BY <1>2 DEF ReadYourWrites
<1> QED BY <1>12, <1>13, <1>14, <1>15, <1>16, <1>17, <1>18

\* Nothing but ages depends on the clock.
LEMMA TickKeeps == CacheInv /\ Tick => CacheInv'
BY DEF CacheInv, Tick, TypeOK, StoreIsCurrent, OneLiveFetch, ReadYourWrites,
       Registered, LiveIsCurrent, WaitersAreServed

\* The module's state when it is loaded.
LEMMA CacheInvInit == Init => CacheInv
<1> SUFFICES ASSUME Init PROVE CacheInv
  OBVIOUS
<1>1. DOMAIN mem.entry = {} /\ DOMAIN inflight = {} /\ DOMAIN holds = {}
  BY DEF Init, EmptyStore
<1>2. TypeOK
  BY <1>1 DEF Init, TypeOK
<1>3. OneLiveFetch /\ LiveIsCurrent
  BY DEF Init, OneLiveFetch, LiveIsCurrent, IdleFlight
<1>4. ReadYourWrites
  BY DEF Init, ReadYourWrites, NoAnswer
<1> QED BY <1>1, <1>2, <1>3, <1>4
        DEF CacheInv, StoreIsCurrent, Registered, WaitersAreServed, Init

\* Each macrotask and each continuation of cached() and invalidate().
LEMMA CacheInvStep == CacheInv /\ [Next]_vars => CacheInv'
<1> SUFFICES ASSUME CacheInv, [Next]_vars PROVE CacheInv'
  OBVIOUS
<1>1. CASE UNCHANGED vars
  BY <1>1 DEF vars, CacheInv, TypeOK, StoreIsCurrent, OneLiveFetch, ReadYourWrites,
              Registered, LiveIsCurrent, WaitersAreServed
<1>2. CASE Next
  <2>1. HoldMs \subseteq Nat
    BY CacheAssumption DEF CacheAssumption
  <2> QED
    BY <1>2, <2>1, HitKeeps, ServeStaleKeeps, MissKeeps, FetchOkKeeps, FetchFailKeeps,
       ResumeOkKeeps, ResumeFailedKeeps, InvalidateKeeps, TickKeeps DEF Next
<1> QED BY <1>1, <1>2

\* The invariant that carries the theorems on cached() and invalidate() below holds
\* in every state they can reach.
THEOREM CacheInvariant == Spec => []CacheInv
BY CacheInvInit, CacheInvStep, PTL DEF Spec

\* Entries, flights, callers, holds and answers are always what cached() and
\* invalidate() take them for.
THEOREM TypeCorrect == Spec => []TypeOK
BY CacheInvariant, PTL DEF CacheInv

\* A value read before an invalidation of its key never gets (back) into the store.
THEOREM StoreStaysCurrent == Spec => []StoreIsCurrent
BY CacheInvariant, PTL DEF CacheInv

\* Nobody who calls cached() after invalidate() is answered with what was read
\* before it, whatever fetches were under way.
THEOREM WritesAreRead == Spec => []ReadYourWrites
BY CacheInvariant, PTL DEF CacheInv

\* A key never has two live fetches: concurrent misses share one.
THEOREM NoStampede == Spec => []OneLiveFetch
BY CacheInvariant, PTL DEF CacheInv

-----------------------------------------------------------------------------
(* Holds: while one runs for a key, its calls are kept on the short leash. *)

\* Math.min of the ttl and HOLD_TTL_MS.
LEMMA MinOfTwo ==
  ASSUME NEW a \in Int, NEW b \in Int
  PROVE  Min({a, b}) \in {a, b} /\ Min({a, b}) <= a /\ Min({a, b}) <= b
<1>1. \E x \in {a, b} : \A y \in {a, b} : x <= y
  <2>1. CASE a <= b
    BY <2>1
  <2>2. CASE ~(a <= b)
    BY <2>2
  <2> QED BY <2>1, <2>2
<1> QED BY <1>1 DEF Min

\* What isHeld() finds is what the ghost says.
LEMMA LeashedIsHeld ==
  ASSUME TypeOK, HoldsCover, NEW k \in Key, now < leash[k]
  PROVE  IsHeld(k)
<1>1. PICK p \in DOMAIN holds : k \in Match[p] /\ holds[p] >= leash[k]
  BY DEF HoldsCover, TypeOK
<1>2. holds[p] > now
  BY <1>1 DEF TypeOK
<1> QED BY <1>1, <1>2 DEF IsHeld, LiveHolds, Restrict

\* A held key has no stale answer, and none but a young one from the store.
LEMMA HeldIsYoung ==
  ASSUME TypeOK, NEW k \in Key, IsHeld(k)
  PROVE  ~Stale(k) /\ (Fresh(k) => Age(k) < HoldTtl)
<1>1. Opt[k].ttl \in Int /\ HoldTtl \in Int
  BY CacheAssumption DEF CacheAssumption
<1>2. Ttl(k) = Min({Opt[k].ttl, HoldTtl}) /\ StaleMs(k) = 0
  BY DEF Ttl, StaleMs
<1>3. Ttl(k) \in Int /\ Ttl(k) <= HoldTtl
  BY <1>1, <1>2, MinOfTwo
<1>4. k \in DOMAIN mem.entry => Age(k) \in Int
  BY DEF TypeOK, Entry, Age
<1> HIDE DEF Ttl, StaleMs, Age
<1> QED BY <1>1, <1>2, <1>3, <1>4 DEF Stale, Fresh

\* Dropping the holds that have ended uncovers no key.
LEMMA LiveHoldsCover ==
  ASSUME TypeOK, HoldsCover, holds' = LiveHolds, UNCHANGED <<now, leash>>
  PROVE  HoldsCover'
<1> SUFFICES ASSUME NEW k \in Key, leash[k] > now
             PROVE  \E p \in DOMAIN holds' : k \in Match[p] /\ holds'[p] >= leash[k]
  BY DEF HoldsCover
<1>1. PICK p \in DOMAIN holds : k \in Match[p] /\ holds[p] >= leash[k]
  BY DEF HoldsCover
<1>2. holds[p] > now
  BY <1>1 DEF TypeOK
<1> QED BY <1>1, <1>2 DEF LiveHolds, Restrict

\* No overlapping or repeated invalidation shortens a hold.
LEMMA InvalidateCovers ==
  ASSUME TypeOK, HoldsCover, NEW p \in Prefix, NEW ms \in HoldMs, Invalidate(p, ms)
  PROVE  HoldsCover'
<1>1. ms \in Nat /\ now \in Nat /\ now' = now
  BY CacheAssumption DEF CacheAssumption, TypeOK, Invalidate
<1> SUFFICES ASSUME NEW k \in Key, leash'[k] > now
             PROVE  \E q \in DOMAIN holds' : k \in Match[q] /\ holds'[q] >= leash'[k]
  BY <1>1 DEF HoldsCover
<1> DEFINE kept == IF p = EmptyPrefix THEN Without(holds, DOMAIN holds) ELSE holds
           old == IF p = EmptyPrefix THEN 0 ELSE leash[k]
           extends == k \in Match[p] /\ ms > 0 /\ now + ms > old
<1>2. leash'[k] = IF extends THEN now + ms ELSE old
  BY DEF Invalidate
<1>3. holds' = IF ms = 0 THEN kept
               ELSE [q \in DOMAIN kept \cup {p} |-> IF q = p THEN HoldUntil(p, ms) ELSE kept[q]]
  BY DEF Invalidate, NewHolds
<1>4. /\ HoldUntil(p, ms) \in Nat
      /\ HoldUntil(p, ms) >= now + ms
      /\ p \in DOMAIN holds /\ p # EmptyPrefix => HoldUntil(p, ms) >= holds[p]
  BY <1>1 DEF HoldUntil, TypeOK
<1>5. CASE extends
  <2>1. ms # 0 /\ leash'[k] = now + ms
    BY <1>1, <1>2, <1>5
  <2>2. p \in DOMAIN holds' /\ holds'[p] = HoldUntil(p, ms)
    BY <1>3, <2>1
  <2> QED BY <1>4, <1>5, <2>1, <2>2
<1>6. CASE ~extends
  <2>1. leash'[k] = old
    BY <1>2, <1>6
  <2>2. p # EmptyPrefix /\ leash'[k] = leash[k] /\ kept = holds
    BY <1>1, <2>1
  <2>3. PICK q \in DOMAIN holds : k \in Match[q] /\ holds[q] >= leash[k]
    BY <2>2 DEF HoldsCover
  <2>4. leash[k] \in Nat /\ holds[q] \in Nat
    BY DEF TypeOK
  <2>5. q \in DOMAIN holds' /\ holds'[q] \in Nat /\ holds'[q] >= holds[q]
    BY <1>3, <1>4, <2>2, <2>4
  <2> QED BY <2>2, <2>3, <2>4, <2>5
<1> QED BY <1>5, <1>6

\* Each macrotask again: no hold is lost before its time.
LEMMA LeashInvStep == CacheInv /\ LeashInv /\ [Next]_vars => LeashInv'
<1> SUFFICES ASSUME CacheInv, LeashInv, [Next]_vars PROVE LeashInv'
  OBVIOUS
<1> USE DEF LeashInv
<1>0. TypeOK
  BY DEF CacheInv
<1>1. ASSUME NEW c \in Caller, NEW k \in Key, Hit(c, k) PROVE LeashInv'
  <2>1. HoldsCover' /\ CallsKnowHolds'
    BY <1>0, <1>1, LiveHoldsCover DEF Hit, CallsKnowHolds
  <2>2. /\ answer'.how = "hit" /\ answer'.age = Age(k)
        /\ answer'.leashed = (now < leash[k])
    BY <1>1 DEF Hit, FromStore, Answer
  <2>3. now < leash[k] => Age(k) < HoldTtl
    BY <1>0, <1>1, LeashedIsHeld, HeldIsYoung DEF Hit
  <2> QED BY <2>1, <2>2, <2>3 DEF LeashHonoured
<1>2. ASSUME NEW c \in Caller, NEW k \in Key, ServeStale(c, k) PROVE LeashInv'
  <2>1. HoldsCover' /\ CallsKnowHolds'
    BY <1>0, <1>2, LiveHoldsCover DEF ServeStale, CallsKnowHolds
  <2>2. answer'.leashed = (now < leash[k])
    BY <1>2 DEF ServeStale, FromStore, Answer
  <2>3. ~(now < leash[k])
    BY <1>0, <1>2, LeashedIsHeld, HeldIsYoung DEF ServeStale
  <2> QED BY <2>1, <2>2, <2>3 DEF LeashHonoured
<1>3. ASSUME NEW c \in Caller, NEW k \in Key, Miss(c, k) PROVE LeashInv'
  <2>1. HoldsCover' /\ LeashHonoured'
    BY <1>0, <1>3, LiveHoldsCover DEF Miss, LeashHonoured
  <2>2. PICK f \in Flight : Await(c, k, f)
    BY <1>0, <1>3 DEF Miss, TypeOK
  <2>3. /\ \A d \in Caller \ {c} : call'[d] = call[d]
        /\ call'[c].leashed = (now < leash[k]) /\ call'[c].held = IsHeld(k)
    BY <1>0, <2>2 DEF Await, TypeOK
  <2>4. now < leash[k] => IsHeld(k)
    BY <1>0, LeashedIsHeld
  <2>5. CallsKnowHolds'
    BY <2>3, <2>4 DEF CallsKnowHolds
  <2> QED BY <2>1, <2>5
<1>4. ASSUME NEW f \in Flight, NEW bytes \in Size, FetchOk(f, bytes) PROVE LeashInv'
  BY <1>4 DEF FetchOk, HoldsCover, CallsKnowHolds, LeashHonoured
<1>5. ASSUME NEW f \in Flight, FetchFail(f) PROVE LeashInv'
  BY <1>5 DEF FetchFail, HoldsCover, CallsKnowHolds, LeashHonoured
<1>6. ASSUME NEW c \in Caller, ResumeOk(c) PROVE LeashInv'
  <2>1. HoldsCover'
    BY <1>6 DEF ResumeOk, HoldsCover
  <2>2. CallsKnowHolds'
    BY <1>0, <1>6 DEF ResumeOk, Release, CallsKnowHolds, TypeOK
  <2>3. answer'.how = "fetched"
    BY <1>6 DEF ResumeOk, Answer
  <2> QED BY <2>1, <2>2, <2>3 DEF LeashHonoured
<1>7. ASSUME NEW c \in Caller, ResumeFailed(c) PROVE LeashInv'
  <2>1. HoldsCover'
    BY <1>7 DEF ResumeFailed, HoldsCover
  <2>2. CallsKnowHolds'
    BY <1>0, <1>7 DEF ResumeFailed, Release, CallsKnowHolds, TypeOK
  <2>3. answer'.how \in {"fallback", "error"} /\ answer'.leashed = call[c].leashed
    BY <1>7 DEF ResumeFailed, FromStore, Answer
  <2>4. answer'.how = "fallback" => ~call[c].held
    BY <1>7 DEF ResumeFailed, HasFallback, Answer
  <2>5. call[c].leashed => call[c].held
    BY <1>7 DEF ResumeFailed, CallsKnowHolds
  <2> QED BY <2>1, <2>2, <2>3, <2>4, <2>5 DEF LeashHonoured
<1>8. ASSUME NEW p \in Prefix, NEW ms \in HoldMs, Invalidate(p, ms) PROVE LeashInv'
  <2>1. HoldsCover'
    BY <1>0, <1>8, InvalidateCovers
  <2> QED BY <1>8, <2>1 DEF Invalidate, CallsKnowHolds, LeashHonoured
<1>9. CASE Tick
  <2>1. HoldsCover'
    BY <1>0, <1>9 DEF Tick, HoldsCover, TypeOK
  <2> QED BY <1>9, <2>1 DEF Tick, CallsKnowHolds, LeashHonoured
<1>10. CASE UNCHANGED vars
  BY <1>10 DEF vars, HoldsCover, CallsKnowHolds, LeashHonoured
<1> QED BY <1>1, <1>2, <1>3, <1>4, <1>5, <1>6, <1>7, <1>8, <1>9, <1>10 DEF Next

\* While any hold put on a key runs, no call for it is answered with anything
\* but a value younger than HOLD_TTL_MS or a fetch of its own.
THEOREM LeashKept == Spec => []LeashHonoured
<1>1. Init => LeashInv
  BY DEF Init, LeashInv, HoldsCover, CallsKnowHolds, LeashHonoured, IdleCall
<1> QED BY <1>1, LeashInvStep, CacheInvariant, PTL DEF Spec, LeashInv

-----------------------------------------------------------------------------
(* Background refreshes: one for each stored value.                        *)

Marked(e) == e.tries <= (IF e.refreshing THEN 1 ELSE 0)

\* A marked entry put in leaves the store marked.
LEMMA PutKeepsMarks ==
  ASSUME RefreshMarked, NEW k, NEW e, Marked(e),
         mem' = Remember(mem, k, e) \/ mem' = Keep(mem, k, e)
  PROVE  RefreshMarked'
<1>1. /\ DOMAIN mem'.entry \subseteq DOMAIN mem.entry \cup {k}
      /\ \A x \in DOMAIN mem'.entry : mem'.entry[x] = IF x = k THEN e ELSE mem.entry[x]
  BY RememberEntries, KeepEntries
<1> QED BY <1>1 DEF RefreshMarked, Marked

\* Only serving a stale, unmarked value begins a refresh, and that marks it.
LEMMA RefreshMarkedStep == CacheInv /\ RefreshMarked /\ [Next]_vars => RefreshMarked'
<1> SUFFICES ASSUME CacheInv, RefreshMarked, [Next]_vars PROVE RefreshMarked'
  OBVIOUS
<1>0. \A k \in DOMAIN mem.entry : mem.entry[k] \in Entry /\ Marked(mem.entry[k])
  BY DEF CacheInv, TypeOK, RefreshMarked, Marked
<1>1. ASSUME NEW c \in Caller, NEW k \in Key, Hit(c, k) PROVE RefreshMarked'
  <2>1. k \in DOMAIN mem.entry /\ mem' = Remember(mem, k, mem.entry[k])
    BY <1>1 DEF Hit, Fresh
  <2> QED BY <1>0, <2>1, PutKeepsMarks
<1>2. ASSUME NEW c \in Caller, NEW k \in Key, ServeStale(c, k) PROVE RefreshMarked'
  <2>1. k \in DOMAIN mem.entry
    BY <1>2 DEF ServeStale, Stale
  <2>2. CASE StartsRefresh(k)
    <3>1. mem' = Remember(mem, k, Refreshing(mem.entry[k]))
      BY <1>2, <2>2 DEF ServeStale
    <3>2. mem.entry[k].tries = 0
      BY <1>0, <2>1, <2>2 DEF StartsRefresh, Marked, Entry
    <3>3. Marked(Refreshing(mem.entry[k]))
      BY <1>0, <2>1, <3>2, RefreshingType DEF Marked
    <3> QED BY <3>1, <3>3, PutKeepsMarks
  <2>3. CASE ~StartsRefresh(k)
    <3>1. mem' = Remember(mem, k, mem.entry[k])
      BY <1>2, <2>3 DEF ServeStale
    <3> QED BY <1>0, <2>1, <3>1, PutKeepsMarks
  <2> QED BY <2>2, <2>3
<1>3. ASSUME NEW f \in Flight, NEW bytes \in Size, FetchOk(f, bytes) PROVE RefreshMarked'
  <2>1. CASE flight[f].cancelled
    <3>1. mem' = mem
      BY <1>3, <2>1 DEF FetchOk
    <3> QED BY <3>1 DEF RefreshMarked
  <2>2. CASE ~flight[f].cancelled
    <3>1. mem' = Keep(mem, flight[f].key, NewEntry(f, bytes))
      BY <1>3, <2>2 DEF FetchOk
    <3>2. Marked(NewEntry(f, bytes))
      BY DEF Marked, NewEntry
    <3> QED BY <3>1, <3>2, PutKeepsMarks
  <2> QED BY <2>1, <2>2
<1>4. ASSUME NEW c \in Caller, ResumeFailed(c) PROVE RefreshMarked'
  <2>1. CASE HasFallback(c)
    <3>1. /\ call[c].key \in DOMAIN mem.entry
          /\ mem' = Remember(mem, call[c].key, mem.entry[call[c].key])
      BY <1>4, <2>1 DEF ResumeFailed, HasFallback
    <3> QED BY <1>0, <3>1, PutKeepsMarks
  <2>2. CASE ~HasFallback(c)
    <3>1. mem' = mem
      BY <1>4, <2>2 DEF ResumeFailed
    <3> QED BY <3>1 DEF RefreshMarked
  <2> QED BY <2>1, <2>2
<1>5. ASSUME NEW p \in Prefix, NEW ms \in HoldMs, Invalidate(p, ms) PROVE RefreshMarked'
  <2>1. mem' = Discard(mem, Match[p])
    BY <1>5 DEF Invalidate
  <2> QED BY <2>1, DiscardEntries DEF RefreshMarked
<1>6. ASSUME mem' = mem PROVE RefreshMarked'
  BY <1>6 DEF RefreshMarked
<1>7. CASE Next
  BY <1>1, <1>2, <1>3, <1>4, <1>5, <1>6, <1>7 DEF Next, Miss, FetchFail, ResumeOk, Tick
<1>8. CASE UNCHANGED vars
  BY <1>6, <1>8 DEF vars
<1> QED BY <1>7, <1>8

\* While a value stays stored, at most one background refresh of it is begun,
\* however often it is served and however that refresh ends.
THEOREM RefreshedOnce == Spec => []OneRefreshPerWindow
<1>1. Init => RefreshMarked
  BY DEF Init, EmptyStore, RefreshMarked
<1>2. CacheInv /\ RefreshMarked => OneRefreshPerWindow
  BY DEF CacheInv, TypeOK, Entry, RefreshMarked, OneRefreshPerWindow
<1> QED BY <1>1, <1>2, RefreshMarkedStep, CacheInvariant, PTL DEF Spec

-----------------------------------------------------------------------------
(***************************************************************************)
(* The byte counters.  A sum over entries is the number of their bytes,    *)
(* counted one by one: with that, what a sum does when entries come and go *)
(* is what the size of a finite set does.                                  *)
(***************************************************************************)

\* The bytes of the entries S, each one apart.
Octets(m, S) == UNION {{k} \X (1..m.entry[k].bytes) : k \in S}

\* Entries whose sizes are numbers.
Sized(m) == \A k \in DOMAIN m.entry : m.entry[k].bytes \in Nat

\* One entry has as many bytes as it says.
LEMMA OctetsOfOne ==
  ASSUME NEW k, NEW n \in Nat
  PROVE  IsFiniteSet({k} \X (1..n)) /\ Cardinality({k} \X (1..n)) = n
<1>1. IsFiniteSet({k}) /\ Cardinality({k}) = 1
  BY FS_Singleton
<1>2. IsFiniteSet(1..n) /\ Cardinality(1..n) = n
  BY FS_Interval
<1>3. IsFiniteSet({k} \X (1..n)) /\ Cardinality({k} \X (1..n)) = Cardinality({k}) * Cardinality(1..n)
  <2> DEFINE one == {k}
             octets == 1..n
  <2> HIDE DEF one, octets
  <2>1. IsFiniteSet(one) /\ IsFiniteSet(octets)
    BY <1>1, <1>2 DEF one, octets
  <2>2. IsFiniteSet(one \X octets) /\ Cardinality(one \X octets) = Cardinality(one) * Cardinality(octets)
    BY <2>1, FS_Product
  <2> QED BY <2>2 DEF one, octets
<1>4. 1 * n = n
  OBVIOUS
<1> QED BY <1>1, <1>2, <1>3, <1>4

LEMMA OctetsFinite ==
  ASSUME NEW m, Sized(m), NEW S \in SUBSET DOMAIN m.entry, IsFiniteSet(S)
  PROVE  IsFiniteSet(Octets(m, S)) /\ Cardinality(Octets(m, S)) \in Nat
<1> DEFINE each == {{k} \X (1..m.entry[k].bytes) : k \in S}
           f == [k \in S |-> {k} \X (1..m.entry[k].bytes)]
<1>1. f \in Surjection(S, each)
  BY DEF Surjection
<1>2. \A T \in each : IsFiniteSet(T)
  <2> SUFFICES ASSUME NEW k \in S PROVE IsFiniteSet({k} \X (1..m.entry[k].bytes))
    OBVIOUS
  <2>1. m.entry[k].bytes \in Nat
    BY DEF Sized
  <2> QED BY <2>1, OctetsOfOne
<1> HIDE DEF f, each
<1>3. IsFiniteSet(each)
  BY <1>1, FS_Surjection
<1>4. IsFiniteSet(UNION each)
  BY <1>2, <1>3, FS_UNION
<1> QED BY <1>4, FS_CardinalityType DEF Octets, each

\* The bytes of two lots of entries.
LEMMA OctetsOfBoth ==
  ASSUME NEW m, Sized(m), NEW S \in SUBSET DOMAIN m.entry, NEW T \in SUBSET DOMAIN m.entry,
         IsFiniteSet(S), IsFiniteSet(T), S \cap T = {}
  PROVE  Cardinality(Octets(m, S \cup T)) = Cardinality(Octets(m, S)) + Cardinality(Octets(m, T))
<1>1. Octets(m, S \cup T) = Octets(m, S) \cup Octets(m, T)
  BY DEF Octets
<1>2. Octets(m, S) \cap Octets(m, T) = {}
  <2> SUFFICES ASSUME NEW x \in Octets(m, S), x \in Octets(m, T) PROVE FALSE
    OBVIOUS
  <2>1. x[1] \in S
    <3>1. PICK k \in S : x \in {k} \X (1..m.entry[k].bytes)
      BY DEF Octets
    <3> QED BY <3>1
  <2>2. x[1] \in T
    <3>1. PICK k \in T : x \in {k} \X (1..m.entry[k].bytes)
      BY DEF Octets
    <3> QED BY <3>1
  <2> QED BY <2>1, <2>2
<1>3. IsFiniteSet(Octets(m, S)) /\ Cardinality(Octets(m, S)) \in Nat
  BY OctetsFinite
<1>4. IsFiniteSet(Octets(m, T)) /\ Cardinality(Octets(m, T)) \in Nat
  BY OctetsFinite
<1> DEFINE A == Octets(m, S)
           B == Octets(m, T)
<1> HIDE DEF A, B
<1>5. /\ IsFiniteSet(A) /\ IsFiniteSet(B) /\ A \cap B = {}
      /\ Cardinality(A) \in Nat /\ Cardinality(B) \in Nat
  BY <1>2, <1>3, <1>4 DEF A, B
<1>6. Cardinality(A \cup B) = Cardinality(A) + Cardinality(B)
  <2>1. Cardinality(A \cup B) = Cardinality(A) + Cardinality(B) - Cardinality(A \cap B)
    BY <1>5, FS_Union
  <2>2. Cardinality(A \cap B) = 0
    BY <1>5, FS_EmptySet
  <2> QED BY <1>5, <2>1, <2>2
<1> QED BY <1>1, <1>6 DEF A, B

\* The sum that BytesOf works out entry by entry is the number of bytes.
LEMMA BytesAreCounted ==
  ASSUME NEW m, Sized(m), NEW S \in SUBSET DOMAIN m.entry, IsFiniteSet(S)
  PROVE  BytesOf(m, S) = Cardinality(Octets(m, S))
<1> DEFINE c(s) == CHOOSE x \in s : TRUE
           size(s) == Cardinality(Octets(m, s))
           Sums(g) == g = [s \in SUBSET S |-> IF s = {} THEN 0 ELSE m.entry[c(s)].bytes + g[s \ {c(s)}]]
           sums == CHOOSE g : Sums(g)
<1>1. \A s \in SUBSET S : IsFiniteSet(s) /\ Cardinality(s) \in Nat
  BY FS_Subset, FS_CardinalityType
<1>2. size({}) = 0
  <2>1. Octets(m, {}) = {}
    BY DEF Octets
  <2> QED BY <2>1, FS_EmptySet
<1>3. ASSUME NEW s \in SUBSET S, s # {}
      PROVE  /\ c(s) \in s /\ s \ {c(s)} \in SUBSET S
             /\ size(s) = m.entry[c(s)].bytes + size(s \ {c(s)})
             /\ Cardinality(s \ {c(s)}) < Cardinality(s)
  <2>1. PICK x : x = c(s)
    OBVIOUS
  <2>2. x \in s
    BY <1>3, <2>1
  <2>3. /\ Cardinality(s \ {x}) = Cardinality(s) - 1
    BY <1>1, <2>2, FS_RemoveElement
  <2>4. IsFiniteSet({x}) /\ IsFiniteSet(s \ {x}) /\ s = {x} \cup (s \ {x}) /\ {x} \cap (s \ {x}) = {}
        /\ {x} \in SUBSET DOMAIN m.entry /\ s \ {x} \in SUBSET DOMAIN m.entry
    BY <1>1, <2>2, FS_Singleton, FS_Subset
  <2>5. size(s) = size({x}) + size(s \ {x})
    BY <2>4, OctetsOfBoth
  <2>6. m.entry[x].bytes \in Nat
    BY <2>2 DEF Sized
  <2>7. size({x}) = m.entry[x].bytes
    <3>1. Octets(m, {x}) = {x} \X (1..m.entry[x].bytes)
      BY DEF Octets
    <3> QED BY <2>6, <3>1, OctetsOfOne
  <2> HIDE DEF c, size
  <2> QED BY <1>1, <2>1, <2>2, <2>3, <2>5, <2>7
<1> HIDE DEF c, size
<1>4. Sums(sums)
  <2> DEFINE g == [s \in SUBSET S |-> size(s)]
  <2>1. \A s \in SUBSET S :
          g[s] = IF s = {} THEN 0 ELSE m.entry[c(s)].bytes + g[s \ {c(s)}]
    BY <1>2, <1>3
  <2>2. Sums(g)
    BY <2>1
  <2> HIDE DEF Sums, g
  <2> QED BY <2>2
<1> HIDE DEF sums
<1>5. \A s \in SUBSET S : sums[s] = IF s = {} THEN 0 ELSE m.entry[c(s)].bytes + sums[s \ {c(s)}]
  BY <1>4
<1>6. ASSUME NEW wrong \in SUBSET S, sums[wrong] # size(wrong) PROVE FALSE
  <2> DEFINE Wrong == {s \in SUBSET S : sums[s] # size(s)}
             sizes == {Cardinality(s) : s \in Wrong}
  <2>1. sizes \in SUBSET Nat /\ sizes # {}
    BY <1>1, <1>6
  <2>2. PICK s \in Wrong : \A t \in Wrong : Cardinality(s) <= Cardinality(t)
    <3>1. Min(sizes) \in sizes /\ \A n \in sizes : Min(sizes) <= n
      BY <2>1, HasALeast
    <3> QED BY <3>1
  <2>3. s # {}
    BY <1>2, <1>5, <2>2
  <2>4. s \ {c(s)} \in SUBSET S /\ ~(s \ {c(s)} \in Wrong)
    BY <1>1, <1>3, <2>2, <2>3
  <2>5. sums[s \ {c(s)}] = size(s \ {c(s)})
    BY <2>4
  <2>6. sums[s] = m.entry[c(s)].bytes + size(s \ {c(s)})
    BY <1>5, <2>3, <2>5
  <2> QED BY <1>3, <2>2, <2>3, <2>6
<1>7. S \cap DOMAIN m.entry = S
  OBVIOUS
<1>8. BytesOf(m, S) = sums[S]
  BY <1>7 DEF BytesOf, MapThenSumSet, MapThenFoldSet, sums, Sums, c
<1> QED BY <1>6, <1>8 DEF size

LEMMA BytesOfNone == ASSUME NEW m, Sized(m) PROVE BytesOf(m, {}) = 0
<1>1. Octets(m, {}) = {}
  BY DEF Octets
<1>2. BytesOf(m, {}) = Cardinality(Octets(m, {}))
  BY BytesAreCounted, FS_EmptySet
<1> QED BY <1>1, <1>2, FS_EmptySet

LEMMA BytesAreANumber ==
  ASSUME NEW m, Sized(m), NEW S \in SUBSET DOMAIN m.entry, IsFiniteSet(S)
  PROVE  BytesOf(m, S) \in Nat
BY BytesAreCounted, OctetsFinite

LEMMA BytesOfBoth ==
  ASSUME NEW m, Sized(m), NEW S \in SUBSET DOMAIN m.entry, NEW T \in SUBSET DOMAIN m.entry,
         IsFiniteSet(S), IsFiniteSet(T), S \cap T = {}
  PROVE  /\ BytesOf(m, S \cup T) = BytesOf(m, S) + BytesOf(m, T)
         /\ BytesOf(m, S) \in Nat /\ BytesOf(m, T) \in Nat
<1>1. BytesOf(m, S) = Cardinality(Octets(m, S)) /\ BytesOf(m, S) \in Nat
  BY BytesAreCounted, OctetsFinite
<1>2. BytesOf(m, T) = Cardinality(Octets(m, T)) /\ BytesOf(m, T) \in Nat
  BY BytesAreCounted, OctetsFinite
<1>3. IsFiniteSet(S \cup T) /\ S \cup T \in SUBSET DOMAIN m.entry
  BY FS_Union
<1>4. BytesOf(m, S \cup T) = Cardinality(Octets(m, S \cup T))
  BY <1>3, BytesAreCounted
<1> QED BY <1>1, <1>2, <1>4, OctetsOfBoth

\* What is left when the entries D go.
LEMMA BytesOfRest ==
  ASSUME NEW m, Sized(m), NEW S \in SUBSET DOMAIN m.entry, IsFiniteSet(S), NEW D
  PROVE  /\ BytesOf(m, S \ D) = BytesOf(m, S) - BytesOf(m, D \cap S)
         /\ BytesOf(m, S \ D) \in Nat /\ BytesOf(m, S) \in Nat /\ BytesOf(m, D \cap S) \in Nat
         /\ BytesOf(m, D \cap S) <= BytesOf(m, S)
<1> DEFINE gone == D \cap S
           left == S \ D
<1>1. gone \in SUBSET DOMAIN m.entry /\ left \in SUBSET DOMAIN m.entry /\ gone \cap left = {}
      /\ gone \cup left = S
  OBVIOUS
<1>2. IsFiniteSet(gone) /\ IsFiniteSet(left)
  BY FS_Subset
<1> HIDE DEF gone, left
<1>3. /\ BytesOf(m, gone \cup left) = BytesOf(m, gone) + BytesOf(m, left)
      /\ BytesOf(m, gone) \in Nat /\ BytesOf(m, left) \in Nat
  BY <1>1, <1>2, BytesOfBoth
<1>4. /\ BytesOf(m, left) = BytesOf(m, S) - BytesOf(m, gone)
      /\ BytesOf(m, left) \in Nat /\ BytesOf(m, S) \in Nat /\ BytesOf(m, gone) \in Nat
      /\ BytesOf(m, gone) <= BytesOf(m, S)
  <2>1. BytesOf(m, S) = BytesOf(m, gone) + BytesOf(m, left)
    BY <1>1, <1>3, Zenon
  <2> QED BY <1>3, <2>1
<1> QED BY <1>4 DEF gone, left

\* Entries of the same sizes are as many bytes.
LEMMA BytesOfSame ==
  ASSUME NEW m, NEW n, Sized(m), Sized(n), NEW S, IsFiniteSet(S),
         S \subseteq DOMAIN m.entry, S \subseteq DOMAIN n.entry,
         \A k \in S : m.entry[k].bytes = n.entry[k].bytes
  PROVE  BytesOf(m, S) = BytesOf(n, S)
<1>1. Octets(m, S) = Octets(n, S)
  <2>1. \A k \in S : {k} \X (1..m.entry[k].bytes) = {k} \X (1..n.entry[k].bytes)
    OBVIOUS
  <2> QED BY <2>1 DEF Octets
<1>2. BytesOf(m, S) = Cardinality(Octets(m, S))
  BY BytesAreCounted
<1>3. BytesOf(n, S) = Cardinality(Octets(n, S))
  BY BytesAreCounted
<1> QED BY <1>1, <1>2, <1>3

-----------------------------------------------------------------------------
(***************************************************************************)
(* The order of the Map, and what evict() takes from it.                   *)
(***************************************************************************)

\* Every member of D stands in the list, once.
Lists(line, D) ==
  /\ line \in Seq(D)
  /\ \A i, j \in 1..Len(line) : line[i] = line[j] => i = j
  /\ \A k \in D : \E i \in 1..Len(line) : line[i] = k

LEMMA ListedAreFinite ==
  ASSUME NEW line, NEW D, Lists(line, D)
  PROVE  /\ Len(line) \in Nat
         /\ IsFiniteSet(D) /\ Cardinality(D) = Len(line)
         /\ Foremost(line, Len(line)) = D
         /\ \A n \in 0..Len(line) : Foremost(line, n) \subseteq D
         /\ Foremost(line, 0) = {}
<1>1. Len(line) \in Nat /\ \A i \in 1..Len(line) : line[i] \in D
  BY DEF Lists
<1>2. \A n \in 0..Len(line) : Foremost(line, n) \subseteq D
  <2> SUFFICES ASSUME NEW n \in 0..Len(line), NEW i \in 1..n PROVE line[i] \in D
    BY DEF Foremost
  <2>1. i \in 1..Len(line)
    BY <1>1
  <2> QED BY <1>1, <2>1
<1>3. Foremost(line, Len(line)) = D
  BY <1>1 DEF Foremost, Lists
<1>4. Foremost(line, 0) = {}
  BY DEF Foremost
<1> DEFINE f == [i \in 1..Len(line) |-> line[i]]
<1>5. f \in Surjection(1..Len(line), D) /\ f \in Injection(1..Len(line), D)
  BY <1>1 DEF Lists, Surjection, Injection, IsInjective
<1>6. IsFiniteSet(1..Len(line)) /\ Cardinality(1..Len(line)) = Len(line)
  BY <1>1, FS_Interval
<1> HIDE DEF f
<1>7. IsFiniteSet(D) /\ Cardinality(D) = Len(line)
  BY <1>5, <1>6, FS_Surjection
<1> QED BY <1>1, <1>2, <1>3, <1>4, <1>7

\* Some of the Map in its order.
LEMMA InOrderLists ==
  ASSUME NEW m, Lists(m.order, DOMAIN m.entry), NEW D \in SUBSET DOMAIN m.entry
  PROVE  Lists(InOrder(m, D), D)
<1> DEFINE s == m.order
           places == {i \in 1..Len(s) : s[i] \in D}
           t == KeptEntries(s, places)
<1>1. s \in Seq(DOMAIN m.entry) /\ Len(s) \in Nat /\ places \in SUBSET (1..Len(s))
  BY DEF Lists
<1>2. \A i, j \in 1..Len(s) : s[i] = s[j] => i = j
  BY DEF Lists
<1>3. \A k \in D : \E i \in places : s[i] = k
  BY DEF Lists
<1>4. \A i \in places : s[i] \in D /\ i \in 1..Len(s) /\ i \in Nat
  BY <1>1
<1> HIDE DEF s, places
<1>5. t \in Seq(DOMAIN m.entry) /\ \E at : TakenFrom(s, places, t, at)
  BY <1>1, KeptProperties
<1> HIDE DEF t
<1>6. PICK at : TakenFrom(s, places, t, at)
  BY <1>5
<1>7. /\ Len(t) = Cardinality(places) /\ Len(t) \in Nat
      /\ at \in [1..Len(t) -> places]
      /\ \A n \in 1..Len(t) : t[n] = s[at[n]]
      /\ \A p, n \in 1..Len(t) : p < n => at[p] < at[n]
      /\ \A i \in places : \E n \in 1..Len(t) : at[n] = i
  BY <1>6 DEF TakenFrom
<1>8. t \in Seq(D)
  <2>1. \A n \in 1..Len(t) : t[n] \in D
    BY <1>4, <1>7
  <2> QED BY <1>5, <2>1
<1>9. \A p, n \in 1..Len(t) : t[p] = t[n] => p = n
  <2> SUFFICES ASSUME NEW p \in 1..Len(t), NEW n \in 1..Len(t), t[p] = t[n], p # n PROVE FALSE
    OBVIOUS
  <2>1. at[p] = at[n]
    BY <1>2, <1>4, <1>7
  <2>2. at[p] \in Nat /\ at[n] \in Nat
    BY <1>4, <1>7
  <2>3. p < n \/ n < p
    BY <1>7
  <2> QED BY <1>7, <2>1, <2>2, <2>3
<1>10. \A k \in D : \E n \in 1..Len(t) : t[n] = k
  BY <1>3, <1>7
<1> QED BY <1>8, <1>9, <1>10 DEF Lists, InOrder, t, s, places

\* One of evict()'s loops stops as soon as it may.
LEMMA FewestVictims ==
  ASSUME NEW line, NEW D, Lists(line, D),
         NEW enough \in SUBSET (0..Len(line)), Len(line) \in enough
  PROVE  \E n \in enough :
           /\ Victims(line, enough) = Foremost(line, n)
           /\ \A i \in enough : n <= i
<1>1. enough \cup {Len(line)} = enough
  OBVIOUS
<1>2. enough \in SUBSET Nat /\ enough # {}
  BY ListedAreFinite
<1>3. Min(enough) \in enough /\ \A i \in enough : Min(enough) <= i
  BY <1>2, HasALeast
<1> QED BY <1>1, <1>3 DEF Victims

-----------------------------------------------------------------------------
(***************************************************************************)
(* What the store keeps: the counters are true and the order is of the     *)
(* stored keys (Counted); no cap is passed (Capped).                       *)
(***************************************************************************)

Counted(m) ==
  /\ Lists(m.order, DOMAIN m.entry)
  /\ Sized(m)
  /\ m.bytes = BytesOf(m, DOMAIN m.entry)
  /\ m.pinnedBytes = BytesOf(m, PinnedIn(m))

Capped(m) ==
  Len(m.order) <= MaxEntries /\ m.bytes <= MaxBytes /\ m.pinnedBytes <= MaxPinnedBytes

LEMMA CountedFacts ==
  ASSUME NEW m, Counted(m)
  PROVE  /\ IsFiniteSet(DOMAIN m.entry) /\ Cardinality(DOMAIN m.entry) = Len(m.order)
         /\ Len(m.order) \in Nat
         /\ PinnedIn(m) \in SUBSET DOMAIN m.entry /\ IsFiniteSet(PinnedIn(m))
         /\ m.bytes \in Nat /\ m.pinnedBytes \in Nat
<1>1. /\ IsFiniteSet(DOMAIN m.entry) /\ Cardinality(DOMAIN m.entry) = Len(m.order)
      /\ Len(m.order) \in Nat
  BY ListedAreFinite DEF Counted
<1>2. PinnedIn(m) \in SUBSET DOMAIN m.entry
  BY DEF PinnedIn
<1>3. IsFiniteSet(PinnedIn(m))
  BY <1>1, <1>2, FS_Subset
<1>4. m.bytes \in Nat
  BY <1>1, BytesAreANumber DEF Counted
<1>5. m.pinnedBytes \in Nat
  BY <1>2, <1>3, BytesAreANumber DEF Counted
<1> QED BY <1>1, <1>2, <1>3, <1>4, <1>5

\* discard() keeps the counters true.
LEMMA DiscardCounts ==
  ASSUME NEW m, Counted(m), NEW D
  PROVE  LET d == Discard(m, D)
         IN  /\ Counted(d)
             /\ Len(d.order) = Cardinality(DOMAIN m.entry \ D) /\ Len(d.order) <= Len(m.order)
             /\ d.bytes = m.bytes - BytesOf(m, D) /\ d.bytes <= m.bytes
             /\ PinnedIn(d) = PinnedIn(m) \ D
             /\ d.pinnedBytes = m.pinnedBytes - BytesOf(m, D \cap PinnedIn(m))
             /\ d.pinnedBytes <= m.pinnedBytes
<1> DEFINE d == Discard(m, D)
           left == DOMAIN m.entry \ D
<1>1. /\ IsFiniteSet(DOMAIN m.entry) /\ Cardinality(DOMAIN m.entry) = Len(m.order)
      /\ PinnedIn(m) \in SUBSET DOMAIN m.entry /\ IsFiniteSet(PinnedIn(m))
      /\ m.bytes \in Nat /\ m.pinnedBytes \in Nat /\ Sized(m) /\ Lists(m.order, DOMAIN m.entry)
      /\ m.bytes = BytesOf(m, DOMAIN m.entry) /\ m.pinnedBytes = BytesOf(m, PinnedIn(m))
  BY CountedFacts DEF Counted
<1>2. /\ DOMAIN d.entry = left /\ \A x \in left : d.entry[x] = m.entry[x]
      /\ d.order = InOrder(m, left)
      /\ d.bytes = m.bytes - BytesOf(m, D)
      /\ d.pinnedBytes = m.pinnedBytes - BytesOf(m, D \cap PinnedIn(m))
  BY DiscardEntries DEF Discard
<1> HIDE DEF d
<1>3. Lists(d.order, DOMAIN d.entry)
  BY <1>1, <1>2, InOrderLists
<1>4. Sized(d) /\ IsFiniteSet(left) /\ PinnedIn(d) = PinnedIn(m) \ D /\ IsFiniteSet(PinnedIn(m) \ D)
  <2>1. Sized(d) /\ PinnedIn(d) = PinnedIn(m) \ D
    BY <1>1, <1>2 DEF Sized, PinnedIn
  <2> QED BY <1>1, <2>1, FS_Subset
<1>5. /\ Len(d.order) = Cardinality(left) /\ Len(d.order) <= Len(m.order)
  <2>1. Cardinality(left) <= Cardinality(DOMAIN m.entry)
    BY <1>1, FS_Subset
  <2>2. Len(d.order) = Cardinality(left)
    BY <1>2, <1>3, ListedAreFinite
  <2> QED BY <1>1, <2>1, <2>2
<1>6. BytesOf(m, D) = BytesOf(m, D \cap DOMAIN m.entry)
  <2>1. (D \cap DOMAIN m.entry) \cap DOMAIN m.entry = D \cap DOMAIN m.entry
    OBVIOUS
  <2> QED BY <2>1 DEF BytesOf
<1>7. d.bytes = BytesOf(d, DOMAIN d.entry) /\ d.bytes <= m.bytes
  <2>1. /\ BytesOf(m, left) = BytesOf(m, DOMAIN m.entry) - BytesOf(m, D \cap DOMAIN m.entry)
        /\ BytesOf(m, left) \in Nat /\ BytesOf(m, D \cap DOMAIN m.entry) \in Nat
    BY <1>1, BytesOfRest
  <2>2. BytesOf(d, left) = BytesOf(m, left)
    BY <1>1, <1>2, <1>4, BytesOfSame
  <2> QED BY <1>1, <1>2, <1>6, <2>1, <2>2
<1>8. d.pinnedBytes = BytesOf(d, PinnedIn(d)) /\ d.pinnedBytes <= m.pinnedBytes
  <2>1. /\ BytesOf(m, PinnedIn(m) \ D) = BytesOf(m, PinnedIn(m)) - BytesOf(m, D \cap PinnedIn(m))
        /\ BytesOf(m, PinnedIn(m) \ D) \in Nat /\ BytesOf(m, D \cap PinnedIn(m)) \in Nat
    BY <1>1, BytesOfRest
  <2>2. BytesOf(d, PinnedIn(m) \ D) = BytesOf(m, PinnedIn(m) \ D)
    <3>1. PinnedIn(m) \ D \subseteq DOMAIN m.entry /\ PinnedIn(m) \ D \subseteq left
      BY <1>1
    <3> QED BY <1>1, <1>2, <1>4, <3>1, BytesOfSame
  <2> QED BY <1>1, <1>2, <1>4, <2>1, <2>2
<1>9. Counted(d)
  BY <1>3, <1>4, <1>7, <1>8 DEF Counted
<1> QED BY <1>2, <1>4, <1>5, <1>7, <1>8, <1>9 DEF d

LEMMA DiscardCaps ==
  ASSUME NEW m, Counted(m), Capped(m), CacheAssumption, NEW D
  PROVE  Counted(Discard(m, D)) /\ Capped(Discard(m, D))
<1> DEFINE d == Discard(m, D)
<1>1. /\ Counted(d) /\ Len(d.order) <= Len(m.order)
      /\ d.bytes <= m.bytes /\ d.pinnedBytes <= m.pinnedBytes
  BY DiscardCounts
<1> HIDE DEF d
<1>2. /\ Len(d.order) \in Nat /\ d.bytes \in Nat /\ d.pinnedBytes \in Nat
      /\ Len(m.order) \in Nat /\ m.bytes \in Nat /\ m.pinnedBytes \in Nat
  BY <1>1, CountedFacts
<1>3. MaxEntries \in Nat /\ MaxBytes \in Nat /\ MaxPinnedBytes \in Nat
  BY DEF CacheAssumption
<1>4. Capped(d)
  <2>1. Len(d.order) <= MaxEntries
    <3>1. Len(m.order) <= MaxEntries
      BY DEF Capped
    <3> QED BY <1>1, <1>2, <1>3, <3>1
  <2>2. d.bytes <= MaxBytes
    <3>1. m.bytes <= MaxBytes
      BY DEF Capped
    <3> QED BY <1>1, <1>2, <1>3, <3>1
  <2>3. d.pinnedBytes <= MaxPinnedBytes
    <3>1. m.pinnedBytes <= MaxPinnedBytes
      BY DEF Capped
    <3> QED BY <1>1, <1>2, <1>3, <3>1
  <2> QED BY <2>1, <2>2, <2>3 DEF Capped
<1> QED BY <1>1, <1>4 DEF d

\* remember() of a key that is not there adds to the counters what it puts in.
LEMMA PutCounts ==
  ASSUME NEW m, Counted(m), NEW k, k \notin DOMAIN m.entry,
         NEW e, e.bytes \in Nat, e.pinned \in BOOLEAN
  PROVE  Counted(Put(m, k, e))
<1> DEFINE p == Put(m, k, e)
           held == DOMAIN m.entry
<1>1. /\ IsFiniteSet(held) /\ Len(m.order) \in Nat
      /\ PinnedIn(m) \in SUBSET held /\ IsFiniteSet(PinnedIn(m))
      /\ m.bytes \in Nat /\ m.pinnedBytes \in Nat /\ Sized(m) /\ Lists(m.order, held)
      /\ m.bytes = BytesOf(m, held) /\ m.pinnedBytes = BytesOf(m, PinnedIn(m))
  BY CountedFacts DEF Counted
<1>2. /\ DOMAIN p.entry = held \cup {k} /\ p.entry[k] = e
      /\ \A x \in held : p.entry[x] = m.entry[x]
      /\ p.order = Append(m.order, k)
      /\ p.bytes = m.bytes + e.bytes
      /\ p.pinnedBytes = m.pinnedBytes + (IF e.pinned THEN e.bytes ELSE 0)
  BY DEF Put
<1> HIDE DEF p
<1>3. Sized(p)
  BY <1>1, <1>2 DEF Sized
<1>4. Lists(p.order, DOMAIN p.entry)
  <2> DEFINE s == m.order
             t == Append(s, k)
  <2>1. s \in Seq(held \cup {k})
    BY <1>1 DEF Lists
  <2>2. /\ t \in Seq(held \cup {k}) /\ Len(t) = Len(s) + 1
        /\ \A i \in 1..Len(s) : t[i] = s[i]
        /\ t[Len(s) + 1] = k
    BY <1>1, <2>1
  <2>3. \A i \in 1..Len(s) : s[i] \in held /\ s[i] # k
    BY <1>1 DEF Lists
  <2>4. \A i, j \in 1..Len(s) : s[i] = s[j] => i = j
    BY <1>1 DEF Lists
  <2>5. \A x \in held : \E i \in 1..Len(s) : s[i] = x
    BY <1>1 DEF Lists
  <2> HIDE DEF s, t
  <2>6. Len(s) \in Nat
    BY <1>1 DEF s
  <2>7. \A i \in 1..Len(t) : i \in 1..Len(s) \/ i = Len(s) + 1
    BY <2>2, <2>6
  <2>8. \A i, j \in 1..Len(t) : t[i] = t[j] => i = j
    BY <2>2, <2>3, <2>4, <2>7
  <2>9. \A x \in held \cup {k} : \E i \in 1..Len(t) : t[i] = x
    <3>1. 1..Len(s) \subseteq 1..Len(t) /\ Len(s) + 1 \in 1..Len(t)
      BY <2>2, <2>6
    <3> QED BY <2>2, <2>5, <3>1
  <2>10. Lists(t, held \cup {k})
    BY <2>2, <2>8, <2>9 DEF Lists
  <2> QED BY <1>2, <2>10 DEF t, s
<1>5. BytesOf(p, {k}) = e.bytes /\ IsFiniteSet({k})
  <2>1. Octets(p, {k}) = {k} \X (1..e.bytes)
    BY <1>2 DEF Octets
  <2>2. IsFiniteSet({k}) /\ {k} \in SUBSET DOMAIN p.entry
    BY <1>2, FS_Singleton
  <2>3. BytesOf(p, {k}) = Cardinality(Octets(p, {k}))
    BY <1>3, <2>2, BytesAreCounted
  <2>4. Cardinality({k} \X (1..e.bytes)) = e.bytes
    BY OctetsOfOne
  <2> QED BY <2>1, <2>2, <2>3, <2>4
<1>6. ASSUME NEW S \in SUBSET held, IsFiniteSet(S)
      PROVE  BytesOf(p, S \cup {k}) = BytesOf(m, S) + e.bytes /\ BytesOf(p, S) = BytesOf(m, S)
  <2>1. BytesOf(p, S) = BytesOf(m, S)
    BY <1>1, <1>2, <1>3, <1>6, BytesOfSame
  <2>2. S \in SUBSET DOMAIN p.entry /\ {k} \in SUBSET DOMAIN p.entry /\ S \cap {k} = {}
    BY <1>2
  <2>3. BytesOf(p, S \cup {k}) = BytesOf(p, S) + BytesOf(p, {k})
    BY <1>3, <1>5, <1>6, <2>2, BytesOfBoth
  <2> QED BY <1>5, <2>1, <2>3
<1>7. p.bytes = BytesOf(p, DOMAIN p.entry)
  BY <1>1, <1>2, <1>6
<1>8. p.pinnedBytes = BytesOf(p, PinnedIn(p))
  <2>1. CASE e.pinned
    <3>1. PinnedIn(p) = PinnedIn(m) \cup {k}
      BY <1>2, <2>1 DEF PinnedIn
    <3> QED BY <1>1, <1>2, <1>6, <2>1, <3>1
  <2>2. CASE ~e.pinned
    <3>1. PinnedIn(p) = PinnedIn(m)
      BY <1>2, <2>2 DEF PinnedIn
    <3>2. p.pinnedBytes = m.pinnedBytes
      BY <1>1, <1>2, <2>2
    <3> QED BY <1>1, <1>6, <3>1, <3>2
  <2> QED BY <2>1, <2>2
<1> QED BY <1>3, <1>4, <1>7, <1>8 DEF Counted, p

-----------------------------------------------------------------------------
(* evict(): what its loops take, and what is left.                         *)

\* The first loop takes pins until they fit, and none when they do.
LEMMA PinsTaken ==
  ASSUME NEW m, Counted(m), CacheAssumption
  PROVE  /\ PinVictims(m) \in SUBSET PinnedIn(m)
         /\ m.pinnedBytes - BytesOf(m, PinVictims(m)) <= MaxPinnedBytes
         /\ m.pinnedBytes <= MaxPinnedBytes => PinVictims(m) = {}
<1> DEFINE pins == PinnedIn(m)
           line == InOrder(m, pins)
           leaves(n) == m.pinnedBytes - BytesOf(m, Foremost(line, n))
           enough == {n \in 0..Len(line) : leaves(n) <= MaxPinnedBytes}
<1>1. /\ pins \in SUBSET DOMAIN m.entry /\ IsFiniteSet(pins) /\ Sized(m)
      /\ Lists(m.order, DOMAIN m.entry)
      /\ m.pinnedBytes = BytesOf(m, pins) /\ m.pinnedBytes \in Nat /\ MaxPinnedBytes \in Nat
  BY CountedFacts DEF Counted, CacheAssumption
<1>2. PinVictims(m) = Victims(line, enough)
  BY DEF PinVictims
<1> HIDE DEF pins
<1>3. Lists(line, pins)
  BY <1>1, InOrderLists
<1> HIDE DEF line
<1>4. /\ Len(line) \in Nat /\ Foremost(line, Len(line)) = pins /\ Foremost(line, 0) = {}
      /\ \A n \in 0..Len(line) : Foremost(line, n) \subseteq pins
  BY <1>3, ListedAreFinite
<1>5. Len(line) \in enough
  BY <1>1, <1>4
<1>6. enough \in SUBSET (0..Len(line))
  OBVIOUS
<1>7. \A n \in enough : n \in 0..Len(line) /\ leaves(n) <= MaxPinnedBytes
  OBVIOUS
<1>8. m.pinnedBytes <= MaxPinnedBytes => 0 \in enough
  <2>1. BytesOf(m, Foremost(line, 0)) = 0
    BY <1>1, <1>4, BytesOfNone
  <2> QED BY <1>1, <1>4, <2>1
<1> HIDE DEF enough
<1>9. PICK n \in enough : Victims(line, enough) = Foremost(line, n) /\ \A i \in enough : n <= i
  BY <1>3, <1>5, <1>6, FewestVictims
<1>10. m.pinnedBytes <= MaxPinnedBytes => n = 0
  BY <1>4, <1>7, <1>8, <1>9
<1> QED BY <1>2, <1>4, <1>7, <1>9, <1>10 DEF pins

\* One list after another: the second comes into it only behind all the first.
LEMMA ListsOfBoth ==
  ASSUME NEW s, NEW S, Lists(s, S), NEW t, NEW T, Lists(t, T), S \cap T = {}
  PROVE  /\ Lists(s \o t, S \cup T)
         /\ \A n \in 0..Len(s \o t) : Foremost(s \o t, n) \cap T # {} => S \subseteq Foremost(s \o t, n)
<1> DEFINE st == s \o t
<1>0. s \in Seq(S) /\ t \in Seq(T)
  BY DEF Lists
<1>a. /\ Len(s) \in Nat /\ Len(t) \in Nat
      /\ \A i \in 1..Len(s) : s[i] \in S
      /\ \A i \in 1..Len(t) : t[i] \in T
  BY <1>0, ElementOfSeq, LenProperties
<1>b. /\ \A i, j \in 1..Len(s) : s[i] = s[j] => i = j
      /\ \A k \in S : \E i \in 1..Len(s) : s[i] = k
  BY Zenon DEF Lists
<1>c. /\ \A i, j \in 1..Len(t) : t[i] = t[j] => i = j
      /\ \A k \in T : \E i \in 1..Len(t) : t[i] = k
  BY Zenon DEF Lists
<1>1. /\ Len(s) \in Nat /\ Len(t) \in Nat
      /\ \A i \in 1..Len(s) : s[i] \in S
      /\ \A i \in 1..Len(t) : t[i] \in T
      /\ \A i, j \in 1..Len(s) : s[i] = s[j] => i = j
      /\ \A i, j \in 1..Len(t) : t[i] = t[j] => i = j
      /\ \A k \in S : \E i \in 1..Len(s) : s[i] = k
      /\ \A k \in T : \E i \in 1..Len(t) : t[i] = k
  BY <1>a, <1>b, <1>c
<1>2. s \in Seq(S \cup T) /\ t \in Seq(S \cup T)
  BY DEF Lists
<1>3. /\ st \in Seq(S \cup T) /\ Len(st) = Len(s) + Len(t)
      /\ \A i \in 1..(Len(s) + Len(t)) : st[i] = IF i <= Len(s) THEN s[i] ELSE t[i - Len(s)]
  BY <1>2, ConcatProperties
<1> HIDE DEF st
<1>4. /\ \A i \in 1..Len(s) : i \in 1..Len(st) /\ st[i] = s[i] /\ st[i] \in S
      /\ \A i \in 1..Len(t) : Len(s) + i \in 1..Len(st) /\ st[Len(s) + i] = t[i]
      /\ \A i \in 1..Len(st) :
           \/ i \in 1..Len(s)
           \/ i - Len(s) \in 1..Len(t) /\ st[i] = t[i - Len(s)] /\ st[i] \in T
  <2>1. ASSUME NEW i \in 1..Len(s) PROVE i \in 1..Len(st) /\ st[i] = s[i] /\ st[i] \in S
    BY <1>1, <1>3
  <2>2. ASSUME NEW i \in 1..Len(t) PROVE Len(s) + i \in 1..Len(st) /\ st[Len(s) + i] = t[i]
    <3>1. Len(s) + i \in 1..(Len(s) + Len(t)) /\ ~(Len(s) + i <= Len(s)) /\ (Len(s) + i) - Len(s) = i
      BY <1>1
    <3> QED BY <1>3, <3>1
  <2>3. ASSUME NEW i \in 1..Len(st), i \notin 1..Len(s)
        PROVE  i - Len(s) \in 1..Len(t) /\ st[i] = t[i - Len(s)] /\ st[i] \in T
    BY <1>1, <1>3, <2>3
  <2> QED BY <2>1, <2>2, <2>3
<1>5. \A i, j \in 1..Len(st) : st[i] = st[j] => i = j
  <2> SUFFICES ASSUME NEW i \in 1..Len(st), NEW j \in 1..Len(st), st[i] = st[j] PROVE i = j
    OBVIOUS
  <2>1. CASE i \in 1..Len(s) /\ j \in 1..Len(s)
    BY <1>1, <1>4, <2>1
  <2>2. CASE i \notin 1..Len(s) /\ j \notin 1..Len(s)
    <3>1. i - Len(s) \in 1..Len(t) /\ st[i] = t[i - Len(s)]
      BY <1>4, <2>2
    <3>2. j - Len(s) \in 1..Len(t) /\ st[j] = t[j - Len(s)]
      BY <1>4, <2>2
    <3>3. i - Len(s) = j - Len(s)
      BY <1>1, <3>1, <3>2
    <3>4. i \in Int /\ j \in Int
      OBVIOUS
    <3> QED BY <1>1, <3>3, <3>4
  <2>3. i \in 1..Len(s) <=> st[i] \in S
    BY <1>4
  <2>4. j \in 1..Len(s) <=> st[j] \in S
    BY <1>4
  <2> QED BY <2>1, <2>2, <2>3, <2>4
<1>6. ASSUME NEW k \in S \cup T PROVE \E i \in 1..Len(st) : st[i] = k
  <2>1. CASE k \in S
    BY <1>1, <1>4, <2>1
  <2>2. CASE k \in T
    <3>1. PICK i \in 1..Len(t) : t[i] = k
      BY <1>1, <2>2
    <3> QED BY <1>4, <3>1
  <2> QED BY <2>1, <2>2
<1>7. ASSUME NEW n \in 0..Len(st), Foremost(st, n) \cap T # {} PROVE S \subseteq Foremost(st, n)
  <2>1. PICK j \in 1..n : st[j] \in T
    BY <1>7 DEF Foremost
  <2>2. j \in 1..Len(st) /\ j \notin 1..Len(s)
    BY <1>1, <1>3, <1>4, <2>1
  <2>3. 1..Len(s) \subseteq 1..n
    BY <1>1, <1>3, <2>2
  <2>4. ASSUME NEW k \in S PROVE \E i \in 1..n : st[i] = k
    <3>1. PICK i \in 1..Len(s) : s[i] = k
      BY <1>1
    <3>2. st[i] = k
      BY <1>4, <3>1
    <3> QED BY <2>3, <3>2
  <2> QED BY <2>4 DEF Foremost
<1> QED BY <1>3, <1>5, <1>6, <1>7 DEF Lists, st

\* The second loop takes entries until the rest fit, and none when all do;
\* a pin only when nothing else is left.
LEMMA OthersTaken ==
  ASSUME NEW m, Counted(m), CacheAssumption, NEW pins \in SUBSET PinnedIn(m)
  PROVE  LET gone == pins \cup OtherVictims(m, pins)
         IN  /\ OtherVictims(m, pins) \in SUBSET (DOMAIN m.entry \ pins)
             /\ Cardinality(DOMAIN m.entry \ gone) <= MaxEntries
             /\ m.bytes - BytesOf(m, gone) <= MaxBytes
             /\ Len(m.order) <= MaxEntries /\ m.bytes <= MaxBytes /\ pins = {}
                => OtherVictims(m, pins) = {}
             /\ OtherVictims(m, pins) \cap PinnedIn(m) # {}
                => DOMAIN m.entry \ gone \subseteq PinnedIn(m)
<1> DEFINE held == DOMAIN m.entry
           rest == held \ pins
           first == rest \ PinnedIn(m)
           second == rest \cap PinnedIn(m)
           line == InOrder(m, first) \o InOrder(m, second)
           enough == WithinCaps(m, pins, line)
<1>1. /\ IsFiniteSet(held) /\ Cardinality(held) = Len(m.order) /\ Len(m.order) \in Nat
      /\ PinnedIn(m) \in SUBSET held
      /\ Lists(m.order, held) /\ Sized(m)
      /\ m.bytes = BytesOf(m, held) /\ m.bytes \in Nat /\ MaxBytes \in Nat /\ MaxEntries \in Nat
  BY CountedFacts DEF Counted, CacheAssumption
<1>2. OtherVictims(m, pins) = Victims(line, enough)
  BY DEF OtherVictims
<1>3. /\ first \in SUBSET held /\ second \in SUBSET held /\ first \cap second = {}
      /\ first \cup second = rest /\ rest \in SUBSET held /\ pins \in SUBSET held
  BY <1>1
<1> HIDE DEF held, first, second
<1>4. Lists(InOrder(m, first), first) /\ Lists(InOrder(m, second), second)
  BY <1>1, <1>3, InOrderLists DEF held
<1>5. /\ Lists(line, rest)
      /\ \A n \in 0..Len(line) : Foremost(line, n) \cap second # {} => first \subseteq Foremost(line, n)
  <2> DEFINE s == InOrder(m, first)
             t == InOrder(m, second)
  <2> HIDE DEF rest, s, t
  <2>1. Lists(s, first) /\ Lists(t, second)
    BY <1>4 DEF s, t
  <2>2. /\ Lists(s \o t, first \cup second)
        /\ \A n \in 0..Len(s \o t) :
             Foremost(s \o t, n) \cap second # {} => first \subseteq Foremost(s \o t, n)
    BY <1>3, <2>1, ListsOfBoth
  <2> QED BY <1>3, <2>2 DEF s, t
<1> HIDE DEF line, rest
<1>6. /\ Len(line) \in Nat /\ Foremost(line, Len(line)) = rest /\ Foremost(line, 0) = {}
      /\ \A n \in 0..Len(line) : Foremost(line, n) \subseteq rest
  BY <1>5, ListedAreFinite
<1>7. /\ enough \in SUBSET (0..Len(line))
      /\ \A n \in 0..Len(line) :
           n \in enough <=> /\ Cardinality(held \ (pins \cup Foremost(line, n))) <= MaxEntries
                            /\ m.bytes - BytesOf(m, pins \cup Foremost(line, n)) <= MaxBytes
  <2>1. enough = {n \in 0..Len(line) :
                    /\ Cardinality(held \ (pins \cup Foremost(line, n))) <= MaxEntries
                    /\ m.bytes - BytesOf(m, pins \cup Foremost(line, n)) <= MaxBytes}
    BY DEF WithinCaps, held
  <2> HIDE DEF enough
  <2> QED BY <2>1
<1>8. Len(line) \in enough
  <2>1. pins \cup Foremost(line, Len(line)) = held
    BY <1>3, <1>6 DEF rest
  <2>2. held \ (pins \cup Foremost(line, Len(line))) = {}
    BY <2>1
  <2>3. Cardinality(held \ (pins \cup Foremost(line, Len(line)))) = 0
    BY <2>2, FS_EmptySet
  <2>4. m.bytes - BytesOf(m, pins \cup Foremost(line, Len(line))) = 0
    <3>1. BytesOf(m, pins \cup Foremost(line, Len(line))) = m.bytes
      BY <1>1, <2>1, Zenon
    <3> QED BY <1>1, <3>1
  <2>5. Len(line) \in 0..Len(line)
    BY <1>6
  <2> QED BY <1>1, <1>7, <2>3, <2>4, <2>5
<1>9. Len(m.order) <= MaxEntries /\ m.bytes <= MaxBytes /\ pins = {} => 0 \in enough
  <2> SUFFICES ASSUME Len(m.order) <= MaxEntries, m.bytes <= MaxBytes, pins = {} PROVE 0 \in enough
    OBVIOUS
  <2>1. pins \cup Foremost(line, 0) = {} /\ held \ (pins \cup Foremost(line, 0)) = held
    BY <1>6
  <2>2. BytesOf(m, {}) = 0
    BY <1>1, BytesOfNone
  <2>3. 0 \in 0..Len(line)
    BY <1>6
  <2>4. Cardinality(held \ (pins \cup Foremost(line, 0))) <= MaxEntries
    BY <1>1, <2>1
  <2>5. m.bytes - BytesOf(m, pins \cup Foremost(line, 0)) <= MaxBytes
    <3>1. BytesOf(m, pins \cup Foremost(line, 0)) = 0
      BY <2>1, <2>2
    <3> QED BY <1>1, <3>1
  <2> QED BY <1>7, <2>3, <2>4, <2>5
<1> HIDE DEF enough
<1>10. PICK n \in enough : Victims(line, enough) = Foremost(line, n) /\ \A i \in enough : n <= i
  BY <1>5, <1>7, <1>8, FewestVictims
<1>11. n \in 0..Len(line) /\ OtherVictims(m, pins) = Foremost(line, n)
  BY <1>2, <1>7, <1>10
<1>12. /\ Foremost(line, n) \in SUBSET (held \ pins)
       /\ Cardinality(held \ (pins \cup Foremost(line, n))) <= MaxEntries
       /\ m.bytes - BytesOf(m, pins \cup Foremost(line, n)) <= MaxBytes
  BY <1>6, <1>7, <1>10, <1>11 DEF rest
<1>13. Len(m.order) <= MaxEntries /\ m.bytes <= MaxBytes /\ pins = {} => Foremost(line, n) = {}
  <2> SUFFICES ASSUME 0 \in enough PROVE Foremost(line, n) = {}
    BY <1>9
  <2>1. n = 0
    BY <1>6, <1>10, <1>11
  <2> QED BY <1>6, <2>1
<1>14. ASSUME Foremost(line, n) \cap PinnedIn(m) # {}
       PROVE  held \ (pins \cup Foremost(line, n)) \subseteq PinnedIn(m)
  <2>1. Foremost(line, n) \cap second # {}
    BY <1>6, <1>11, <1>14 DEF second
  <2>2. first \subseteq Foremost(line, n)
    BY <1>5, <1>11, <2>1
  <2> QED BY <2>2 DEF first, rest
<1> QED BY <1>11, <1>12, <1>13, <1>14 DEF held

\* evict() leaves a store within every cap; one that was is left alone.
LEMMA EvictCaps ==
  ASSUME NEW m, Counted(m), CacheAssumption
  PROVE  LET v == Evict(m)
         IN  /\ Counted(v) /\ Capped(v)
             /\ Capped(m) => DOMAIN v.entry = DOMAIN m.entry /\ v.pinnedBytes = m.pinnedBytes
<1> DEFINE pins == PinVictims(m)
           others == OtherVictims(m, pins)
           gone == pins \cup others
           v == Discard(m, gone)
<1>1. /\ pins \in SUBSET PinnedIn(m)
      /\ m.pinnedBytes - BytesOf(m, pins) <= MaxPinnedBytes
      /\ m.pinnedBytes <= MaxPinnedBytes => pins = {}
  BY PinsTaken
<1> HIDE DEF pins
<1>2. /\ others \in SUBSET (DOMAIN m.entry \ pins)
      /\ Cardinality(DOMAIN m.entry \ gone) <= MaxEntries
      /\ m.bytes - BytesOf(m, gone) <= MaxBytes
      /\ Len(m.order) <= MaxEntries /\ m.bytes <= MaxBytes /\ pins = {} => others = {}
  BY <1>1, OthersTaken
<1> HIDE DEF others
<1>3. /\ Counted(v)
      /\ Len(v.order) = Cardinality(DOMAIN m.entry \ gone)
      /\ v.bytes = m.bytes - BytesOf(m, gone)
      /\ v.pinnedBytes = m.pinnedBytes - BytesOf(m, gone \cap PinnedIn(m))
      /\ DOMAIN v.entry = DOMAIN m.entry \ gone
  BY DiscardCounts, DiscardEntries
<1>4. Evict(m) = v
  BY DEF Evict, pins, others
<1> HIDE DEF v
<1>5. /\ IsFiniteSet(PinnedIn(m)) /\ PinnedIn(m) \in SUBSET DOMAIN m.entry /\ Sized(m)
      /\ m.pinnedBytes \in Nat /\ MaxPinnedBytes \in Nat
  BY CountedFacts DEF Counted, CacheAssumption
<1>6. v.pinnedBytes <= MaxPinnedBytes
  <2> DEFINE more == (gone \cap PinnedIn(m)) \ pins
  <2>1. gone \cap PinnedIn(m) = pins \cup more /\ pins \cap more = {}
        /\ pins \in SUBSET PinnedIn(m) /\ more \in SUBSET PinnedIn(m)
        /\ pins \in SUBSET DOMAIN m.entry /\ more \in SUBSET DOMAIN m.entry
    BY <1>1, <1>5
  <2>2. IsFiniteSet(pins) /\ IsFiniteSet(more)
    BY <1>5, <2>1, FS_Subset
  <2> HIDE DEF more
  <2>3. /\ BytesOf(m, pins \cup more) = BytesOf(m, pins) + BytesOf(m, more)
        /\ BytesOf(m, pins) \in Nat /\ BytesOf(m, more) \in Nat
    BY <1>5, <2>1, <2>2, BytesOfBoth
  <2>4. v.pinnedBytes = m.pinnedBytes - (BytesOf(m, pins) + BytesOf(m, more))
    BY <1>3, <2>1, <2>3
  <2> QED BY <1>1, <1>5, <2>3, <2>4
<1>7. Capped(v)
  BY <1>2, <1>3, <1>6 DEF Capped
<1>8. ASSUME Capped(m) PROVE DOMAIN v.entry = DOMAIN m.entry /\ v.pinnedBytes = m.pinnedBytes
  <2>1. gone = {}
    BY <1>1, <1>2, <1>8 DEF Capped
  <2>2. DOMAIN m.entry \ gone = DOMAIN m.entry /\ gone \cap PinnedIn(m) = {}
    BY <2>1
  <2>3. BytesOf(m, {}) = 0
    BY <1>5, BytesOfNone
  <2>4. v.pinnedBytes = m.pinnedBytes - 0
    BY <1>3, <2>2, <2>3
  <2> QED BY <1>3, <1>5, <2>2, <2>4
<1> QED BY <1>3, <1>4, <1>7, <1>8

\* A pin goes because the pins were too many, or with everything that is none.
LEMMA EvictPins ==
  ASSUME NEW m, Counted(m), CacheAssumption, m.pinnedBytes <= MaxPinnedBytes,
         PinnedIn(m) \ DOMAIN Evict(m).entry # {}
  PROVE  PinnedIn(Evict(m)) = DOMAIN Evict(m).entry
<1> DEFINE others == OtherVictims(m, {})
           v == Discard(m, others)
<1>1. PinVictims(m) = {}
  BY PinsTaken
<1>2. {} \in SUBSET PinnedIn(m) /\ {} \cup others = others
  OBVIOUS
<1>3. others \cap PinnedIn(m) # {} => DOMAIN m.entry \ others \subseteq PinnedIn(m)
  BY <1>2, OthersTaken
<1>4. Evict(m) = v
  BY <1>1, <1>2 DEF Evict
<1> HIDE DEF others
<1>5. PinnedIn(v) = PinnedIn(m) \ others /\ DOMAIN v.entry = DOMAIN m.entry \ others
  BY DiscardCounts, DiscardEntries
<1> HIDE DEF v
<1>6. PinnedIn(m) \in SUBSET DOMAIN m.entry
  BY CountedFacts
<1>7. others \cap PinnedIn(m) # {}
  BY <1>4, <1>5, <1>6
<1> QED BY <1>3, <1>4, <1>5, <1>6, <1>7

\* What the pins left and the pins gone come to.
LEMMA EvictSplits ==
  ASSUME NEW m, Counted(m), CacheAssumption
  PROVE  m.pinnedBytes = Evict(m).pinnedBytes + BytesOf(m, PinnedIn(m) \ DOMAIN Evict(m).entry)
<1>1. PICK D : Evict(m) = Discard(m, D)
  BY DEF Evict
<1>2. Discard(m, D).pinnedBytes = m.pinnedBytes - BytesOf(m, D \cap PinnedIn(m))
  BY DiscardCounts
<1>3. D \cap PinnedIn(m) = PinnedIn(m) \ DOMAIN Evict(m).entry
  <2>1. DOMAIN Evict(m).entry = DOMAIN m.entry \ D
    BY <1>1, DiscardEntries
  <2> QED BY <2>1, CountedFacts
<1>4. m.pinnedBytes \in Nat /\ BytesOf(m, D \cap PinnedIn(m)) \in Nat
  <2>1. Sized(m)
    BY DEF Counted
  <2> QED BY <2>1, CountedFacts, BytesOfRest
<1> DEFINE went == BytesOf(m, D \cap PinnedIn(m))
<1>5. /\ Evict(m).pinnedBytes = m.pinnedBytes - went
      /\ went = BytesOf(m, PinnedIn(m) \ DOMAIN Evict(m).entry)
  BY <1>1, <1>2, <1>3, Zenon
<1>6. m.pinnedBytes \in Nat /\ went \in Nat
  BY <1>4
<1> HIDE DEF went
<1>7. m.pinnedBytes = Evict(m).pinnedBytes + went
  BY <1>5, <1>6
<1> QED BY <1>5, <1>7

\* What remember() makes of the store before it evicts.
LEMMA RememberPuts ==
  ASSUME NEW m, Counted(m), NEW k, NEW e, e.bytes \in Nat, e.pinned \in BOOLEAN
  PROVE  \E p : /\ Counted(p) /\ Remember(m, k, e) = Evict(p)
                /\ DOMAIN p.entry = DOMAIN m.entry \cup {k} /\ p.entry[k] = e
                /\ \A x \in DOMAIN m.entry \ {k} : p.entry[x] = m.entry[x]
<1> DEFINE d == Discard(m, {k})
           p == Put(d, k, e)
<1>1. Counted(d) /\ DOMAIN d.entry = DOMAIN m.entry \ {k}
      /\ \A x \in DOMAIN m.entry \ {k} : d.entry[x] = m.entry[x]
  BY DiscardCounts, DiscardEntries
<1>2. Remember(m, k, e) = Evict(p)
  BY DEF Remember
<1> HIDE DEF d
<1>3. Counted(p)
  BY <1>1, PutCounts
<1>4. DOMAIN p.entry = DOMAIN d.entry \cup {k} /\ p.entry[k] = e
      /\ \A x \in DOMAIN d.entry \ {k} : p.entry[x] = d.entry[x]
  BY DEF Put
<1> HIDE DEF p
<1>5. DOMAIN p.entry = DOMAIN m.entry \cup {k} /\ \A x \in DOMAIN m.entry \ {k} : p.entry[x] = m.entry[x]
  BY <1>1, <1>4
<1> QED BY <1>2, <1>3, <1>4, <1>5

\* remember() leaves a store within every cap; and all of it in place when it
\* puts back an entry of the same size, pinned or not as before.
LEMMA RememberCaps ==
  ASSUME NEW m, Counted(m), CacheAssumption, NEW k, NEW e, e.bytes \in Nat, e.pinned \in BOOLEAN
  PROVE  LET r == Remember(m, k, e)
         IN  /\ Counted(r) /\ Capped(r)
             /\ /\ Capped(m) /\ k \in DOMAIN m.entry
                /\ e.bytes = m.entry[k].bytes /\ e.pinned = m.entry[k].pinned
                => DOMAIN r.entry = DOMAIN m.entry
<1> DEFINE r == Remember(m, k, e)
<1>1. PICK p :
      /\ Counted(p) /\ r = Evict(p)
      /\ DOMAIN p.entry = DOMAIN m.entry \cup {k} /\ p.entry[k] = e
      /\ \A x \in DOMAIN m.entry \ {k} : p.entry[x] = m.entry[x]
  BY RememberPuts
<1> HIDE DEF r
<1>2. Counted(r) /\ Capped(r) /\ (Capped(p) => DOMAIN r.entry = DOMAIN p.entry)
  BY <1>1, EvictCaps
<1>3. ASSUME Capped(m), k \in DOMAIN m.entry, e.bytes = m.entry[k].bytes, e.pinned = m.entry[k].pinned
      PROVE  DOMAIN r.entry = DOMAIN m.entry
  <2>1. DOMAIN p.entry = DOMAIN m.entry /\ \A x \in DOMAIN m.entry : p.entry[x].bytes = m.entry[x].bytes
    BY <1>1, <1>3
  <2>2. PinnedIn(p) = PinnedIn(m)
    BY <1>1, <1>3 DEF PinnedIn
  <2>3. /\ IsFiniteSet(DOMAIN m.entry) /\ Cardinality(DOMAIN m.entry) = Len(m.order)
        /\ PinnedIn(m) \in SUBSET DOMAIN m.entry /\ IsFiniteSet(PinnedIn(m)) /\ Sized(m)
        /\ m.bytes = BytesOf(m, DOMAIN m.entry) /\ m.pinnedBytes = BytesOf(m, PinnedIn(m))
    BY CountedFacts DEF Counted
  <2>4. /\ Cardinality(DOMAIN p.entry) = Len(p.order) /\ Sized(p)
        /\ p.bytes = BytesOf(p, DOMAIN p.entry) /\ p.pinnedBytes = BytesOf(p, PinnedIn(p))
    BY <1>1, CountedFacts DEF Counted
  <2>5. Len(p.order) = Len(m.order)
    BY <2>1, <2>3, <2>4
  <2>6. p.bytes = m.bytes
    BY <2>1, <2>3, <2>4, BytesOfSame
  <2>7. p.pinnedBytes = m.pinnedBytes
    <3>1. PinnedIn(m) \subseteq DOMAIN m.entry /\ PinnedIn(m) \subseteq DOMAIN p.entry
          /\ \A x \in PinnedIn(m) : p.entry[x].bytes = m.entry[x].bytes
      BY <2>1, <2>3
    <3>2. BytesOf(p, PinnedIn(m)) = BytesOf(m, PinnedIn(m))
      BY <2>3, <2>4, <3>1, BytesOfSame
    <3> QED BY <2>2, <2>3, <2>4, <3>2
  <2>8. Capped(p)
    BY <1>3, <2>5, <2>6, <2>7 DEF Capped
  <2> QED BY <1>2, <2>1, <2>8
<1> QED BY <1>2, <1>3 DEF r

-----------------------------------------------------------------------------
(***************************************************************************)
(* The caps hold, and pins outlast floods.                                 *)
(***************************************************************************)

BudgetInv == Counted(mem) /\ Capped(mem)

\* What a step does to the store: nothing, or it puts back what was there, or
\* stores what was fetched, or discards what a write made out of date.
PutsBack ==
  \E k \in DOMAIN mem.entry, e \in Entry :
    /\ mem' = Remember(mem, k, e)
    /\ e.bytes = mem.entry[k].bytes /\ e.pinned = mem.entry[k].pinned

Stores(f, bytes) ==
  /\ FetchOk(f, bytes) /\ flight[f].key \in Key
  /\ mem' = Keep(mem, flight[f].key, NewEntry(f, bytes))

Drops(p) ==
  /\ mem' = Discard(mem, Match[p])
  /\ epoch' = [k \in Key |-> IF k \in Match[p] THEN epoch[k] + 1 ELSE epoch[k]]

LEMMA StoreSteps ==
  ASSUME TypeOK, [Next]_vars
  PROVE  \/ mem' = mem
         \/ PutsBack
         \/ \E f \in Flight, bytes \in Size : Stores(f, bytes)
         \/ \E p \in Prefix : Drops(p)
<1>1. \A k \in DOMAIN mem.entry : mem.entry[k] \in Entry
  BY DEF TypeOK
<1>2. ASSUME NEW c \in Caller, NEW k \in Key, Hit(c, k) PROVE PutsBack
  BY <1>1, <1>2 DEF Hit, Fresh, PutsBack
<1>3. ASSUME NEW c \in Caller, NEW k \in Key, ServeStale(c, k) PROVE PutsBack
  <2>1. k \in DOMAIN mem.entry /\ mem.entry[k] \in Entry
    BY <1>1, <1>3 DEF ServeStale, Stale
  <2>2. mem' = Remember(mem, k, mem.entry[k]) \/ mem' = Remember(mem, k, Refreshing(mem.entry[k]))
    BY <1>3 DEF ServeStale
  <2>3. Refreshing(mem.entry[k]) \in Entry
    BY <2>1, RefreshingType
  <2>4. /\ Refreshing(mem.entry[k]).bytes = mem.entry[k].bytes
        /\ Refreshing(mem.entry[k]).pinned = mem.entry[k].pinned
    BY <2>1 DEF Refreshing, Entry
  <2> QED BY <2>1, <2>2, <2>3, <2>4 DEF PutsBack
<1>4. ASSUME NEW c \in Caller, ResumeFailed(c) PROVE mem' = mem \/ PutsBack
  BY <1>1, <1>4 DEF ResumeFailed, HasFallback, PutsBack
<1>5. ASSUME NEW f \in Flight, NEW bytes \in Size, FetchOk(f, bytes) PROVE mem' = mem \/ Stores(f, bytes)
  <2>1. flight[f].key \in Key
    BY <1>5 DEF TypeOK, FetchOk, FlightRecord, IdleFlight
  <2> QED BY <1>5, <2>1 DEF FetchOk, Stores
<1>6. ASSUME NEW p \in Prefix, NEW ms \in HoldMs, Invalidate(p, ms) PROVE Drops(p)
  BY <1>6 DEF Invalidate, Drops
<1>7. CASE mem' = mem
  BY <1>7
<1>8. CASE Next
  <2>1. ASSUME \/ \E c \in Caller, k \in Key : Miss(c, k)
               \/ \E f \in Flight : FetchFail(f)
               \/ \E c \in Caller : ResumeOk(c)
               \/ Tick
        PROVE  mem' = mem
    BY <2>1 DEF Miss, FetchFail, ResumeOk, Tick
  <2> QED BY <1>2, <1>3, <1>4, <1>5, <1>6, <1>8, <2>1 DEF Next
<1> QED BY <1>7, <1>8 DEF vars

\* What is fetched is an entry.
LEMMA FetchedEntry ==
  ASSUME CacheAssumption, NEW f \in Flight, NEW bytes \in Size, flight[f].key \in Key
  PROVE  /\ NewEntry(f, bytes).bytes \in Nat /\ NewEntry(f, bytes).pinned \in BOOLEAN
         /\ NewEntry(f, bytes).pinned = Opt[flight[f].key].pin
BY DEF CacheAssumption, NewEntry

LEMMA KeepCaps ==
  ASSUME NEW m, Counted(m), Capped(m), CacheAssumption,
         NEW k, NEW e, e.bytes \in Nat, e.pinned \in BOOLEAN
  PROVE  Counted(Keep(m, k, e)) /\ Capped(Keep(m, k, e))
<1>1. CASE e.bytes > MaxBytes
  <2>1. Keep(m, k, e) = Discard(m, {k})
    BY <1>1 DEF Keep
  <2> QED BY <2>1, DiscardCaps
<1>2. CASE ~(e.bytes > MaxBytes)
  <2>1. Keep(m, k, e) = Remember(m, k, e)
    BY <1>2 DEF Keep
  <2> QED BY <2>1, RememberCaps
<1> QED BY <1>1, <1>2

LEMMA BudgetInvInit == Init => BudgetInv
<1> SUFFICES ASSUME Init PROVE BudgetInv
  OBVIOUS
<1>1. /\ DOMAIN mem.entry = {} /\ mem.order = <<>> /\ mem.bytes = 0 /\ mem.pinnedBytes = 0
  BY DEF Init, EmptyStore
<1>2. Sized(mem) /\ PinnedIn(mem) = {}
  BY <1>1 DEF Sized, PinnedIn
<1>3. BytesOf(mem, {}) = 0
  BY <1>2, BytesOfNone
<1>4. Lists(mem.order, DOMAIN mem.entry) /\ Len(mem.order) = 0
  BY <1>1 DEF Lists
<1>5. Counted(mem)
  BY <1>1, <1>2, <1>3, <1>4 DEF Counted
<1>6. Capped(mem)
  BY <1>1, <1>4, CacheAssumption DEF Capped, CacheAssumption
<1> QED BY <1>5, <1>6 DEF BudgetInv

LEMMA BudgetInvStep == TypeOK /\ BudgetInv /\ [Next]_vars => BudgetInv'
<1> SUFFICES ASSUME TypeOK, BudgetInv, [Next]_vars PROVE BudgetInv'
  OBVIOUS
<1> USE CacheAssumption
<1>1. Counted(mem) /\ Capped(mem)
  BY DEF BudgetInv
<1>2. CASE mem' = mem
  BY <1>1, <1>2 DEF BudgetInv
<1>3. CASE PutsBack
  <2>1. PICK k \in DOMAIN mem.entry, e \in Entry : mem' = Remember(mem, k, e)
    BY <1>3 DEF PutsBack
  <2>2. e.bytes \in Nat /\ e.pinned \in BOOLEAN
    BY DEF Entry
  <2>3. Counted(mem') /\ Capped(mem')
    BY <1>1, <2>1, <2>2, RememberCaps
  <2> QED BY <2>3 DEF BudgetInv
<1>4. ASSUME NEW f \in Flight, NEW bytes \in Size, Stores(f, bytes) PROVE BudgetInv'
  <2>1. mem' = Keep(mem, flight[f].key, NewEntry(f, bytes)) /\ flight[f].key \in Key
    BY <1>4 DEF Stores
  <2>2. NewEntry(f, bytes).bytes \in Nat /\ NewEntry(f, bytes).pinned \in BOOLEAN
    BY <2>1, FetchedEntry
  <2>3. Counted(mem') /\ Capped(mem')
    BY <1>1, <2>1, <2>2, KeepCaps
  <2> QED BY <2>3 DEF BudgetInv
<1>5. ASSUME NEW p \in Prefix, Drops(p) PROVE BudgetInv'
  <2>1. mem' = Discard(mem, Match[p])
    BY <1>5 DEF Drops
  <2>2. Counted(mem') /\ Capped(mem')
    BY <1>1, <2>1, DiscardCaps
  <2> QED BY <2>2 DEF BudgetInv
<1> QED BY <1>2, <1>3, <1>4, <1>5, StoreSteps

LEMMA BudgetInvariant == Spec => []BudgetInv
<1>1. Spec => []TypeOK
  BY TypeCorrect
<1>2. Init => BudgetInv
  BY BudgetInvInit
<1> QED BY <1>1, <1>2, BudgetInvStep, PTL DEF Spec

\* The byte counters of core/cache.ts never drift from what is stored, and its
\* caps hold, whatever is fetched, replaced, evicted and invalidated.
THEOREM CapsHold == Spec => []WithinBudget
<1>1. BudgetInv => WithinBudget
  <2> SUFFICES ASSUME BudgetInv PROVE WithinBudget
    OBVIOUS
  <2>1. /\ mem.bytes = BytesOf(mem, DOMAIN mem.entry) /\ mem.pinnedBytes = BytesOf(mem, PinnedIn(mem))
        /\ Lists(mem.order, DOMAIN mem.entry)
        /\ Len(mem.order) <= MaxEntries /\ mem.bytes <= MaxBytes /\ mem.pinnedBytes <= MaxPinnedBytes
    BY DEF BudgetInv, Counted, Capped
  <2>2. /\ {mem.order[i] : i \in 1..Len(mem.order)} = DOMAIN mem.entry
        /\ Len(mem.order) = Cardinality(DOMAIN mem.entry)
    BY <2>1, ListedAreFinite DEF Foremost
  <2> QED BY <2>1, <2>2 DEF WithinBudget
<1> QED BY <1>1, BudgetInvariant, PTL

\* PinsOutlastFloods, of one step.
PinsSpared ==
  PinsGone # {} /\ epoch' = epoch =>
    \/ PinnedIn(mem') = DOMAIN mem'.entry
    \/ mem'.pinnedBytes + BytesOf(mem, PinsGone) > MaxPinnedBytes
    \/ \E f \in SettledNow : Opt[flight[f].key].pin /\ flight[f].key \notin DOMAIN mem'.entry

\* remember() of k takes other pins only with all that is not pinned, or
\* because the pins were too many, or together with k.
LEMMA RememberSpares ==
  ASSUME NEW m, Counted(m), Capped(m), CacheAssumption,
         NEW k, NEW e, e.bytes \in Nat, e.pinned \in BOOLEAN,
         NEW r, r = Remember(m, k, e),
         NEW gone, gone = PinnedIn(m) \ (DOMAIN r.entry \cup {k}), gone # {}
  PROVE  \/ PinnedIn(r) = DOMAIN r.entry
         \/ r.pinnedBytes + BytesOf(m, gone) > MaxPinnedBytes
         \/ e.pinned /\ k \notin DOMAIN r.entry
<1>1. PICK p :
      /\ Counted(p) /\ r = Evict(p)
      /\ DOMAIN p.entry = DOMAIN m.entry \cup {k} /\ p.entry[k] = e
      /\ \A x \in DOMAIN m.entry \ {k} : p.entry[x] = m.entry[x]
  BY RememberPuts
<1>2. \A x \in gone : x \in DOMAIN m.entry \ {k} /\ m.entry[x].pinned /\ x \notin DOMAIN r.entry
  BY DEF PinnedIn
<1>3. gone \subseteq PinnedIn(p) \ DOMAIN r.entry
  BY <1>1, <1>2 DEF PinnedIn
<1>4. CASE p.pinnedBytes <= MaxPinnedBytes
  <2>1. PinnedIn(p) \ DOMAIN Evict(p).entry # {}
    BY <1>1, <1>3
  <2> QED BY <1>1, <1>4, <2>1, EvictPins
<1>5. CASE ~(p.pinnedBytes <= MaxPinnedBytes) /\ ~(e.pinned /\ k \notin DOMAIN r.entry)
  <2>1. PinnedIn(p) \ DOMAIN r.entry = gone
    <3>1. ASSUME NEW x \in PinnedIn(p), x \notin DOMAIN r.entry PROVE x \in gone
      <4>1. x # k
        BY <1>1, <1>5, <3>1 DEF PinnedIn
      <4>2. x \in DOMAIN m.entry \ {k} /\ m.entry[x].pinned
        BY <1>1, <4>1 DEF PinnedIn
      <4> QED BY <3>1, <4>2 DEF PinnedIn
    <3> QED BY <1>3, <3>1
  <2>2. p.pinnedBytes = r.pinnedBytes + BytesOf(p, gone)
    BY <1>1, <2>1, EvictSplits
  <2>3. BytesOf(p, gone) = BytesOf(m, gone)
    <3>1. Sized(m) /\ Sized(p) /\ IsFiniteSet(PinnedIn(m)) /\ gone \in SUBSET PinnedIn(m)
      BY <1>1, CountedFacts DEF Counted
    <3>2. IsFiniteSet(gone)
      BY <3>1, FS_Subset
    <3>3. gone \subseteq DOMAIN m.entry /\ gone \subseteq DOMAIN p.entry
          /\ \A x \in gone : p.entry[x].bytes = m.entry[x].bytes
      BY <1>1, <1>2
    <3> QED BY <3>1, <3>2, <3>3, BytesOfSame
  <2>4. p.pinnedBytes \in Nat /\ MaxPinnedBytes \in Nat
    BY <1>1, CountedFacts DEF CacheAssumption
  <2> QED BY <1>5, <2>2, <2>3, <2>4
<1> QED BY <1>4, <1>5

LEMMA FloodStep == TypeOK /\ BudgetInv /\ [Next]_vars => [PinsSpared]_vars
<1> SUFFICES ASSUME TypeOK, BudgetInv, [Next]_vars, PinsGone # {}, epoch' = epoch
             PROVE  \/ PinnedIn(mem') = DOMAIN mem'.entry
                    \/ mem'.pinnedBytes + BytesOf(mem, PinsGone) > MaxPinnedBytes
                    \/ \E f \in SettledNow :
                         Opt[flight[f].key].pin /\ flight[f].key \notin DOMAIN mem'.entry
  BY DEF PinsSpared
<1>1. Counted(mem) /\ Capped(mem) /\ DOMAIN mem.entry \subseteq Key
  BY DEF BudgetInv, TypeOK
<1>2. \A k \in PinsGone : k \in DOMAIN mem.entry /\ k \notin DOMAIN mem'.entry
                          /\ \A f \in SettledNow : k # flight[f].key
  BY DEF PinsGone, PinnedIn
<1>3. CASE mem' = mem
  BY <1>2, <1>3
<1>4. CASE PutsBack
  <2>1. PICK k \in DOMAIN mem.entry, e \in Entry :
          /\ mem' = Remember(mem, k, e)
          /\ e.bytes = mem.entry[k].bytes /\ e.pinned = mem.entry[k].pinned
    BY <1>4 DEF PutsBack
  <2>2. e.bytes \in Nat /\ e.pinned \in BOOLEAN
    BY DEF Entry
  <2>3. DOMAIN mem'.entry = DOMAIN mem.entry
    BY <1>1, <2>1, <2>2, RememberCaps, CacheAssumption
  <2> QED BY <1>2, <2>3
<1>5. ASSUME NEW f \in Flight, NEW bytes \in Size, Stores(f, bytes)
      PROVE  \/ PinnedIn(mem') = DOMAIN mem'.entry
             \/ mem'.pinnedBytes + BytesOf(mem, PinsGone) > MaxPinnedBytes
             \/ \E g \in SettledNow : Opt[flight[g].key].pin /\ flight[g].key \notin DOMAIN mem'.entry
  <2> DEFINE k == flight[f].key
             e == NewEntry(f, bytes)
  <2>1. mem' = Keep(mem, k, e) /\ k \in Key /\ FetchOk(f, bytes)
    BY <1>5 DEF Stores
  <2>2. e.bytes \in Nat /\ e.pinned \in BOOLEAN /\ e.pinned = Opt[k].pin
    BY <2>1, FetchedEntry, CacheAssumption
  <2>3. SettledNow = {f}
    <3>1. flight[f].st = "running" /\ flight \in [Flight -> FlightRecord \cup {IdleFlight}]
      BY <2>1 DEF FetchOk, TypeOK
    <3>2. PICK settled \in {IdleFlight, [flight[f] EXCEPT !.st = "ok"]} :
            flight' = [flight EXCEPT ![f] = settled]
      BY <2>1 DEF FetchOk, Settle
    <3>3. flight[f] \in FlightRecord
      BY <3>1 DEF IdleFlight
    <3>4. settled.st # "running"
      BY <3>2, <3>3 DEF IdleFlight, FlightRecord
    <3>5. flight'[f] # flight[f] /\ \A g \in Flight \ {f} : flight'[g] = flight[g]
      BY <3>1, <3>2, <3>4
    <3> QED BY <3>1, <3>5 DEF SettledNow
  <2>4. PinsGone = PinnedIn(mem) \ (DOMAIN mem'.entry \cup {k})
    BY <2>3 DEF PinsGone
  <2> HIDE DEF e
  <2>5. CASE e.bytes > MaxBytes
    <3>1. mem' = Discard(mem, {k})
      BY <2>1, <2>5 DEF Keep
    <3>2. DOMAIN mem'.entry = DOMAIN mem.entry \ {k}
      BY <3>1, DiscardEntries
    <3> QED BY <2>4, <3>2 DEF PinnedIn
  <2>6. CASE ~(e.bytes > MaxBytes)
    <3>1. mem' = Remember(mem, k, e)
      BY <2>1, <2>6 DEF Keep
    <3>2. \/ PinnedIn(mem') = DOMAIN mem'.entry
          \/ mem'.pinnedBytes + BytesOf(mem, PinsGone) > MaxPinnedBytes
          \/ e.pinned /\ k \notin DOMAIN mem'.entry
      BY <1>1, <2>2, <2>4, <3>1, RememberSpares, CacheAssumption
    <3> QED BY <2>2, <2>3, <3>2
  <2> QED BY <2>5, <2>6
<1>6. ASSUME NEW p \in Prefix, Drops(p) PROVE FALSE
  <2>1. /\ mem' = Discard(mem, Match[p])
        /\ epoch' = [k \in Key |-> IF k \in Match[p] THEN epoch[k] + 1 ELSE epoch[k]]
    BY <1>6 DEF Drops
  <2>2. \A k \in Key : k \notin Match[p]
    <3> SUFFICES ASSUME NEW k \in Key, k \in Match[p] PROVE FALSE
      OBVIOUS
    <3>1. epoch'[k] = epoch[k] + 1 /\ epoch[k] \in Nat
      BY <2>1 DEF TypeOK
    <3> QED BY <3>1
  <2>3. DOMAIN mem'.entry = DOMAIN mem.entry \ Match[p]
    BY <2>1, DiscardEntries
  <2>4. DOMAIN mem'.entry = DOMAIN mem.entry
    BY <1>1, <2>2, <2>3
  <2> QED BY <1>2, <2>4
<1> QED BY <1>3, <1>4, <1>5, <1>6, StoreSteps

\* A flood of ordinary keys cannot push a pinned value out of core/cache.ts.
THEOREM PinsStay == Spec => PinsOutlastFloods
<1>1. Spec => [][PinsSpared]_vars
  BY TypeCorrect, BudgetInvariant, FloodStep, PTL DEF Spec
<1> QED BY <1>1 DEF PinsOutlastFloods, PinsSpared

-----------------------------------------------------------------------------
(* The write-back.  The reply drops and cancels all that was read before   *)
(* it, so what the store holds of the listed keys, and what their live     *)
(* fetches have read, shows the write; a later caller is answered from the *)
(* store or joins a live fetch, and stays with it.                         *)

Dropped == Match[WritePrefix]

WriteTypeOK ==
  /\ write \in {"none", "sent", "failed", "replied"}
  /\ applied \in BOOLEAN
  /\ sight \in [Flight -> BOOLEAN]
  /\ shown \in [Key -> BOOLEAN]
  /\ after \in [Caller -> Knows]

\* Zabbix has applied an acknowledgement by the time it answers.
RepliedIsApplied == write = "replied" => applied

\* What the store holds of the dropped keys shows the write.
StoreShows ==
  write = "replied" => \A k \in DOMAIN mem.entry \cap Dropped : shown[k]

\* What is being fetched for them, and will be stored, shows it too.
LiveSees ==
  write = "replied" =>
    \A f \in Flight :
      flight[f].st = "running" /\ ~flight[f].cancelled /\ flight[f].key \in Dropped => sight[f]

\* Whoever called after the reply waits for a fetch that has seen it, whatever
\* becomes of that fetch.
LateCallersSee ==
  \A c \in Caller :
    call[c] # IdleCall /\ call[c].key \in Dropped /\ after[c].replied =>
      write = "replied" /\ sight[call[c].on]

WriteInv ==
  /\ CacheInv
  /\ WriteTypeOK
  /\ RepliedIsApplied
  /\ StoreShows
  /\ LiveSees
  /\ LateCallersSee
  /\ DroppedKeysShowWrite

-----------------------------------------------------------------------------
(* The cache's side: every step is one of the cache's own, or leaves it.   *)

LEMMA WriteCacheStep ==
  ASSUME CacheInv, [WriteNext]_allVars
  PROVE  CacheInv'
<1>1. ASSUME NEW c \in Caller, NEW k \in Key, ReadHit(c, k) \/ ReadStale(c, k) \/ ReadMiss(c, k)
      PROVE  CacheInv'
  BY <1>1, HitKeeps, ServeStaleKeeps, MissKeeps DEF ReadHit, ReadStale, ReadMiss
<1>2. ASSUME NEW f \in Flight, NEW bytes \in Size, Fetched(f, bytes) PROVE CacheInv'
  BY <1>2, FetchOkKeeps DEF Fetched
<1>3. ASSUME NEW f \in Flight, NotFetched(f) PROVE CacheInv'
  BY <1>3, FetchFailKeeps DEF NotFetched
<1>4. ASSUME NEW c \in Caller, AnsweredFetched(c) \/ AnsweredFailed(c) PROVE CacheInv'
  BY <1>4, ResumeOkKeeps, ResumeFailedKeeps DEF AnsweredFetched, AnsweredFailed
<1>5. ASSUME WriteReplied PROVE CacheInv'
  BY <1>5, InvalidateKeeps, WriteAssumption DEF WriteReplied
<1>6. ASSUME Clock PROVE CacheInv'
  BY <1>6, TickKeeps DEF Clock
<1>7. ASSUME UNCHANGED vars PROVE CacheInv'
  BY <1>7, CacheInvStep
<1>8. ASSUME SendWrite \/ Apply \/ WriteFailed \/ UNCHANGED allVars PROVE CacheInv'
  BY <1>7, <1>8 DEF SendWrite, Apply, WriteFailed, allVars
<1> QED BY <1>1, <1>2, <1>3, <1>4, <1>5, <1>6, <1>8 DEF WriteNext

-----------------------------------------------------------------------------
(* Readers.                                                                *)

\* An answer from the store.
LEMMA ReadHitKeeps ==
  ASSUME WriteInv, NEW c \in Caller, NEW k \in Key, ReadHit(c, k)
  PROVE  /\ WriteTypeOK' /\ RepliedIsApplied' /\ StoreShows' /\ LiveSees'
         /\ LateCallersSee' /\ DroppedKeysShowWrite'
<1> USE DEF WriteInv, WriteTypeOK
<1>1. /\ k \in DOMAIN mem.entry
      /\ mem' = Remember(mem, k, mem.entry[k])
      /\ UNCHANGED <<flight, call, write, due, applied, sight, shown, after>>
      /\ told' = [key |-> k, shows |-> shown[k], asked |-> KnownNow(k)]
  BY DEF ReadHit, Hit, Fresh, Tell
<1>2. DOMAIN mem'.entry \subseteq DOMAIN mem.entry
  BY <1>1, RememberEntries
<1>3. StoreShows'
  BY <1>1, <1>2 DEF StoreShows
<1>4. DroppedKeysShowWrite'
  BY <1>1 DEF DroppedKeysShowWrite, KnownNow, StoreShows, Dropped
<1> QED BY <1>1, <1>3, <1>4 DEF RepliedIsApplied, LiveSees, LateCallersSee

\* A flight that begins reads what Zabbix shows now, and nobody waits for it yet.
LEMMA LookKeeps ==
  ASSUME WriteInv, NEW k \in Key, NEW f \in Flight, k \notin DOMAIN inflight, Begin(k, f),
         Look, UNCHANGED <<write, applied>>
  PROVE  /\ sight' \in [Flight -> BOOLEAN]
         /\ LiveSees'
         /\ sight'[f] = applied
         /\ \A c \in Caller : call[c] # IdleCall => sight'[call[c].on] = sight[call[c].on]
<1> USE DEF WriteInv, WriteTypeOK
<1>1. /\ sight' = [g \in Flight |-> IF flight'[g] # flight[g] THEN applied ELSE sight[g]]
      /\ flight[f] = IdleFlight
      /\ flight' = [flight EXCEPT ![f] = NewFlight(k)]
      /\ flight \in [Flight -> FlightRecord \cup {IdleFlight}]
  BY DEF Look, Begin, CacheInv, TypeOK
<1>2. sight' \in [Flight -> BOOLEAN]
  BY <1>1
<1>3. flight'[f] # flight[f]
  BY <1>1 DEF NewFlight, IdleFlight
<1>4. \A g \in Flight \ {f} : flight'[g] = flight[g]
  BY <1>1
<1>5. sight'[f] = applied /\ \A g \in Flight \ {f} : sight'[g] = sight[g]
  BY <1>1, <1>3, <1>4
<1>6. ASSUME NEW c \in Caller, call[c] # IdleCall PROVE sight'[call[c].on] = sight[call[c].on]
  <2>1. call[c].on \in Flight /\ flight[call[c].on] # IdleFlight
    BY <1>6 DEF CacheInv, TypeOK, CallRecord, WaitersAreServed
  <2> QED BY <1>1, <1>5, <2>1
<1>7. LiveSees'
  BY <1>4, <1>5 DEF LiveSees, RepliedIsApplied, Dropped
<1> QED BY <1>2, <1>5, <1>6, <1>7

\* A stale answer, which may begin a flight.
LEMMA ReadStaleKeeps ==
  ASSUME WriteInv, NEW c \in Caller, NEW k \in Key, ReadStale(c, k)
  PROVE  /\ WriteTypeOK' /\ RepliedIsApplied' /\ StoreShows' /\ LiveSees'
         /\ LateCallersSee' /\ DroppedKeysShowWrite'
<1> USE DEF WriteInv, WriteTypeOK
<1>1. /\ k \in DOMAIN mem.entry
      /\ UNCHANGED <<call, write, due, applied, shown, after>>
      /\ Look
      /\ told' = [key |-> k, shows |-> shown[k], asked |-> KnownNow(k)]
      /\ \E e : mem' = Remember(mem, k, e)
  BY DEF ReadStale, ServeStale, Stale, Tell
<1>2. DOMAIN mem'.entry \subseteq DOMAIN mem.entry
  BY <1>1, RememberEntries
<1>3. /\ sight' \in [Flight -> BOOLEAN]
      /\ LiveSees'
      /\ \A d \in Caller : call[d] # IdleCall => sight'[call[d].on] = sight[call[d].on]
  <2>1. CASE StartsRefresh(k)
    <3>1. PICK f \in Flight : Begin(k, f)
      BY <2>1 DEF ReadStale, ServeStale
    <3> QED BY <1>1, <2>1, <3>1, LookKeeps DEF StartsRefresh
  <2>2. CASE ~StartsRefresh(k)
    <3>1. flight' = flight
      BY <2>2 DEF ReadStale, ServeStale
    <3>2. sight' = sight
      BY <1>1, <3>1 DEF Look
    <3> QED BY <1>1, <3>1, <3>2 DEF LiveSees
  <2> QED BY <2>1, <2>2
<1>4. StoreShows'
  BY <1>1, <1>2 DEF StoreShows
<1>5. DroppedKeysShowWrite'
  BY <1>1 DEF DroppedKeysShowWrite, KnownNow, StoreShows, Dropped
<1> QED BY <1>1, <1>3, <1>4, <1>5 DEF RepliedIsApplied, LateCallersSee

\* A miss joins the live flight of its key, or begins one.
LEMMA ReadMissKeeps ==
  ASSUME WriteInv, NEW c \in Caller, NEW k \in Key, ReadMiss(c, k)
  PROVE  /\ WriteTypeOK' /\ RepliedIsApplied' /\ StoreShows' /\ LiveSees'
         /\ LateCallersSee' /\ DroppedKeysShowWrite'
<1> USE DEF WriteInv, WriteTypeOK
<1>1. /\ call[c] = IdleCall
      /\ UNCHANGED <<mem, write, due, applied, shown, told>>
      /\ Look
      /\ after' = [after EXCEPT ![c] = KnownNow(k)]
      /\ KnownNow(k) \in Knows
  BY DEF ReadMiss, Miss, KnownNow, Knows
<1>2. PICK f \in Flight :
        /\ Await(c, k, f)
        /\ sight' \in [Flight -> BOOLEAN]
        /\ LiveSees'
        /\ \A d \in Caller : call[d] # IdleCall => sight'[call[d].on] = sight[call[d].on]
        /\ k \in Dropped /\ write = "replied" => sight'[f]
  <2>1. CASE k \in DOMAIN inflight
    <3> DEFINE f == inflight[k]
    <3>1. f \in Flight /\ Await(c, k, f) /\ flight' = flight
      BY <2>1 DEF ReadMiss, Miss, CacheInv, TypeOK
    <3>2. sight' = sight
      BY <1>1, <3>1 DEF Look
    <3>3. flight[f].st = "running" /\ flight[f].key = k /\ ~flight[f].cancelled
      BY <2>1 DEF CacheInv, Registered
    <3>4. k \in Dropped /\ write = "replied" => sight[f]
      BY <3>1, <3>3 DEF LiveSees
    <3>5. LiveSees'
      BY <1>1, <3>1, <3>2 DEF LiveSees
    <3> QED BY <3>1, <3>2, <3>4, <3>5
  <2>2. CASE k \notin DOMAIN inflight
    <3>1. PICK f \in Flight : Begin(k, f) /\ Await(c, k, f)
      BY <2>2 DEF ReadMiss, Miss
    <3> QED BY <1>1, <2>2, <3>1, LookKeeps DEF RepliedIsApplied
  <2> QED BY <2>1, <2>2
<1>3. after' \in [Caller -> Knows] /\ after'[c] = KnownNow(k)
      /\ \A d \in Caller \ {c} : after'[d] = after[d]
  BY <1>1
<1>4. /\ call'[c].on = f /\ call'[c].key = k
      /\ \A d \in Caller \ {c} : call'[d] = call[d]
  BY <1>2 DEF Await, CacheInv, TypeOK
<1>5. LateCallersSee'
  <2> SUFFICES ASSUME NEW d \in Caller, call'[d] # IdleCall, call'[d].key \in Dropped, after'[d].replied
               PROVE  write' = "replied" /\ sight'[call'[d].on]
    BY Zenon DEF LateCallersSee
  <2>1. write' = write
    BY <1>1
  <2>2. CASE d = c
    <3>1. after'[c].replied = (write = "replied")
      BY <1>3 DEF KnownNow
    <3> QED BY <1>2, <1>4, <2>1, <2>2, <3>1
  <2>3. CASE d # c
    <3>1. call'[d] = call[d] /\ after'[d] = after[d]
      BY <1>3, <1>4, <2>3
    <3>2. write = "replied" /\ sight[call[d].on]
      BY <3>1 DEF LateCallersSee
    <3> QED BY <1>2, <2>1, <3>1, <3>2
  <2> QED BY <2>2, <2>3
<1>6. DroppedKeysShowWrite'
  BY <1>1 DEF DroppedKeysShowWrite
<1> QED BY <1>1, <1>2, <1>3, <1>5, <1>6 DEF RepliedIsApplied, StoreShows

-----------------------------------------------------------------------------
(* Fetches.                                                                *)

\* A flight that settles runs no more, and no flight changes its key.
LEMMA SettleSees ==
  ASSUME WriteInv, NEW f \in Flight, flight[f].st = "running", NEW outcome \in {"ok", "failed"},
         Settle(f, outcome), UNCHANGED <<write, sight>>
  PROVE  LiveSees'
<1>1. flight'[f].st # "running"
  <2>1. flight[f] \in FlightRecord
    BY DEF WriteInv, CacheInv, TypeOK, IdleFlight
  <2> QED BY <2>1 DEF Settle, FlightRecord, IdleFlight, WriteInv, CacheInv, TypeOK
<1>2. \A g \in Flight \ {f} : flight'[g] = flight[g]
  BY DEF Settle, WriteInv, CacheInv, TypeOK
<1> QED BY <1>1, <1>2 DEF WriteInv, LiveSees

LEMMA FetchedKeeps ==
  ASSUME WriteInv, NEW f \in Flight, NEW bytes \in Size, Fetched(f, bytes)
  PROVE  /\ WriteTypeOK' /\ RepliedIsApplied' /\ StoreShows' /\ LiveSees'
         /\ LateCallersSee' /\ DroppedKeysShowWrite'
<1> USE DEF WriteInv, WriteTypeOK
<1> DEFINE k == flight[f].key
<1>1. /\ flight[f].st = "running" /\ Settle(f, "ok")
      /\ mem' = IF flight[f].cancelled THEN mem ELSE Keep(mem, k, NewEntry(f, bytes))
      /\ shown' = IF flight[f].cancelled THEN shown ELSE [shown EXCEPT ![k] = sight[f]]
      /\ UNCHANGED <<call, write, due, applied, sight, after, told>>
  BY DEF Fetched, FetchOk
<1>2. LiveSees'
  BY <1>1, SettleSees
<1>3. shown' \in [Key -> BOOLEAN]
  BY <1>1
<1>4. StoreShows'
  <2>1. CASE flight[f].cancelled
    BY <1>1, <2>1 DEF StoreShows
  <2>2. CASE ~flight[f].cancelled
    <3>1. DOMAIN mem'.entry \subseteq DOMAIN mem.entry \cup {k}
      BY <1>1, <2>2, KeepEntries
    <3>2. k \in Key /\ DOMAIN mem.entry \subseteq Key
      BY <1>1 DEF CacheInv, TypeOK, FlightRecord, IdleFlight
    <3>3. write = "replied" /\ k \in Dropped => sight[f]
      BY <1>1, <2>2 DEF LiveSees
    <3>4. /\ shown'[k] = sight[f]
          /\ \A x \in Key \ {k} : shown'[x] = shown[x]
      BY <1>1, <2>2, <3>2
    <3> HIDE DEF k
    <3>5. ASSUME NEW x \in DOMAIN mem'.entry \cap Dropped, write = "replied" PROVE shown'[x]
      <4>1. CASE x = k
        BY <3>3, <3>4, <3>5, <4>1
      <4>2. CASE x # k
        BY <3>1, <3>2, <3>4, <3>5, <4>2 DEF StoreShows
      <4> QED BY <4>1, <4>2
    <3> QED BY <1>1, <3>5 DEF StoreShows
  <2> QED BY <2>1, <2>2
<1> QED BY <1>1, <1>2, <1>3, <1>4 DEF RepliedIsApplied, LateCallersSee, DroppedKeysShowWrite

LEMMA NotFetchedKeeps ==
  ASSUME WriteInv, NEW f \in Flight, NotFetched(f)
  PROVE  /\ WriteTypeOK' /\ RepliedIsApplied' /\ StoreShows' /\ LiveSees'
         /\ LateCallersSee' /\ DroppedKeysShowWrite'
<1>1. /\ flight[f].st = "running" /\ Settle(f, "failed")
      /\ UNCHANGED <<mem, call, write, due, applied, sight, shown, after, told>>
  BY DEF NotFetched, FetchFail, writeVars
<1>2. LiveSees'
  BY <1>1, SettleSees
<1> QED BY <1>1, <1>2
        DEF WriteInv, WriteTypeOK, RepliedIsApplied, StoreShows, LateCallersSee, DroppedKeysShowWrite

-----------------------------------------------------------------------------
(* Callers resume.                                                         *)

\* Letting go of a settled flight makes none live, and the others wait on.
LEMMA ReleaseSees ==
  ASSUME WriteInv, NEW c \in Caller, Release(c), UNCHANGED <<write, sight, after>>
  PROVE  LiveSees' /\ LateCallersSee'
<1>1. \A g \in Flight : flight'[g] = flight[g] \/ flight'[g] = IdleFlight
  BY DEF Release, WriteInv, CacheInv, TypeOK
<1>2. call'[c] = IdleCall /\ \A d \in Caller \ {c} : call'[d] = call[d]
  BY DEF Release, WriteInv, CacheInv, TypeOK
<1>3. IdleFlight.st # "running"
  BY DEF IdleFlight
<1>4. LiveSees'
  BY <1>1, <1>3 DEF WriteInv, LiveSees
<1>5. LateCallersSee'
  BY <1>2 DEF WriteInv, LateCallersSee
<1> QED BY <1>4, <1>5

LEMMA AnsweredFetchedKeeps ==
  ASSUME WriteInv, NEW c \in Caller, AnsweredFetched(c)
  PROVE  /\ WriteTypeOK' /\ RepliedIsApplied' /\ StoreShows' /\ LiveSees'
         /\ LateCallersSee' /\ DroppedKeysShowWrite'
<1>1. /\ call[c] # IdleCall /\ Release(c)
      /\ told' = [key |-> call[c].key, shows |-> sight[call[c].on], asked |-> after[c]]
      /\ UNCHANGED <<mem, write, due, applied, sight, shown, after>>
  BY DEF AnsweredFetched, ResumeOk, Tell
<1>2. LiveSees' /\ LateCallersSee'
  BY <1>1, ReleaseSees
<1>3. DroppedKeysShowWrite'
  BY <1>1 DEF WriteInv, DroppedKeysShowWrite, LateCallersSee, Dropped
<1> QED BY <1>1, <1>2, <1>3 DEF WriteInv, WriteTypeOK, RepliedIsApplied, StoreShows

\* Also what an error falls back on.
LEMMA AnsweredFailedKeeps ==
  ASSUME WriteInv, NEW c \in Caller, AnsweredFailed(c)
  PROVE  /\ WriteTypeOK' /\ RepliedIsApplied' /\ StoreShows' /\ LiveSees'
         /\ LateCallersSee' /\ DroppedKeysShowWrite'
<1>1. /\ call[c] # IdleCall /\ Release(c)
      /\ IF HasFallback(c)
         THEN /\ mem' = Remember(mem, call[c].key, mem.entry[call[c].key])
              /\ told' = [key |-> call[c].key, shows |-> shown[call[c].key], asked |-> after[c]]
         ELSE mem' = mem /\ told' = told
      /\ UNCHANGED <<write, due, applied, sight, shown, after>>
  BY DEF AnsweredFailed, ResumeFailed
<1>2. LiveSees' /\ LateCallersSee'
  BY <1>1, ReleaseSees
<1>3. StoreShows' /\ DroppedKeysShowWrite'
  <2>1. CASE HasFallback(c)
    <3>1. call[c].key \in DOMAIN mem.entry
      BY <2>1 DEF HasFallback
    <3>2. DOMAIN mem'.entry \subseteq DOMAIN mem.entry
      BY <1>1, <2>1, <3>1, RememberEntries
    <3>3. call[c].key \in Dropped /\ after[c].replied => shown[call[c].key]
      BY <1>1, <3>1 DEF WriteInv, LateCallersSee, StoreShows
    <3> QED BY <1>1, <2>1, <3>2, <3>3 DEF WriteInv, StoreShows, DroppedKeysShowWrite, Dropped
  <2>2. CASE ~HasFallback(c)
    BY <1>1, <2>2 DEF WriteInv, StoreShows, DroppedKeysShowWrite
  <2> QED BY <2>1, <2>2
<1> QED BY <1>1, <1>2, <1>3 DEF WriteInv, WriteTypeOK, RepliedIsApplied

-----------------------------------------------------------------------------
(* The write.                                                              *)

\* The reply drops and cancels all that was read before it.
LEMMA RepliedKeeps ==
  ASSUME WriteInv, ApplyDelay = {0}, WriteReplied
  PROVE  /\ WriteTypeOK' /\ RepliedIsApplied' /\ StoreShows' /\ LiveSees'
         /\ LateCallersSee' /\ DroppedKeysShowWrite'
<1>1. /\ write = "sent" /\ write' = "replied" /\ applied
      /\ mem' = Discard(mem, Dropped)
      /\ flight' = Cancelled(Dropped)
      /\ UNCHANGED <<call, applied, sight, shown, after, told>>
  BY DEF WriteReplied, Invalidate, Dropped
<1>2. StoreShows'
  BY <1>1, DiscardEntries DEF StoreShows, Dropped
<1>3. LiveSees'
  <2> SUFFICES ASSUME NEW f \in Flight, flight'[f].st = "running", ~flight'[f].cancelled,
                      flight'[f].key \in Dropped
               PROVE  FALSE
    BY DEF LiveSees, Dropped
  <2> DEFINE hit == \E k \in Dropped \cap DOMAIN inflight : inflight[k] = f
  <2>1. flight'[f] = IF hit THEN [flight[f] EXCEPT !.cancelled = TRUE] ELSE flight[f]
    BY <1>1 DEF Cancelled
  <2>2. flight[f] \in FlightRecord \cup {IdleFlight}
    BY DEF WriteInv, CacheInv, TypeOK
  <2>3. CASE hit
    <3>1. flight[f] \in FlightRecord
      BY <2>2, <2>3 DEF WriteInv, CacheInv, Registered, IdleFlight
    <3> QED BY <2>1, <2>3, <3>1 DEF FlightRecord
  <2>4. CASE ~hit
    BY <2>1, <2>4 DEF WriteInv, CacheInv, OneLiveFetch
  <2> QED BY <2>3, <2>4
<1>4. LateCallersSee' /\ DroppedKeysShowWrite'
  BY <1>1 DEF WriteInv, LateCallersSee, DroppedKeysShowWrite
<1> QED BY <1>1, <1>2, <1>3, <1>4 DEF WriteInv, WriteTypeOK, RepliedIsApplied

LEMMA WriteInvInit == WriteInit => WriteInv
<1> SUFFICES ASSUME WriteInit PROVE WriteInv
  OBVIOUS
<1>1. CacheInv
  BY CacheInvInit DEF WriteInit
<1>2. WriteTypeOK
  BY DEF WriteInit, WriteTypeOK, Knows
<1> QED BY <1>1, <1>2
        DEF WriteInit, WriteInv, RepliedIsApplied, StoreShows, LiveSees, LateCallersSee,
            DroppedKeysShowWrite, Init

LEMMA WriteInvStep ==
  ASSUME WriteInv, ApplyDelay = {0}, [WriteNext]_allVars
  PROVE  WriteInv'
<1>1. CacheInv'
  BY WriteCacheStep DEF WriteInv
<1>2. ASSUME SendWrite \/ Apply \/ WriteFailed \/ Clock \/ UNCHANGED allVars
      PROVE  /\ WriteTypeOK' /\ RepliedIsApplied' /\ StoreShows' /\ LiveSees'
             /\ LateCallersSee' /\ DroppedKeysShowWrite'
  <2>1. UNCHANGED <<mem, flight, call, sight, shown, after, told>>
    BY <1>2 DEF SendWrite, Apply, WriteFailed, Clock, Tick, writeVars, allVars, vars
  <2>2. /\ write' = write \/ (write = "none" /\ write' = "sent") \/ (write = "sent" /\ write' = "failed")
        /\ applied' = applied \/ applied'
        /\ applied' \in BOOLEAN
    BY <1>2 DEF SendWrite, Apply, WriteFailed, Clock, writeVars, allVars, WriteInv, WriteTypeOK
  <2> QED BY <2>1, <2>2 DEF WriteInv, WriteTypeOK, RepliedIsApplied, StoreShows, LiveSees,
                            LateCallersSee, DroppedKeysShowWrite
<1> QED BY <1>1, <1>2, ReadHitKeeps, ReadStaleKeeps, ReadMissKeeps, FetchedKeeps, NotFetchedKeeps,
           AnsweredFetchedKeeps, AnsweredFailedKeeps, RepliedKeeps DEF WriteNext, WriteInv

\* Whoever calls for a listed key once POST /api/actions/acknowledge has answered
\* sees the acknowledgement, which Zabbix applies before it answers: whatever
\* was stored, being fetched or failing when it was sent, and whatever holds,
\* stale windows and fallbacks the keys have.
THEOREM AcknowledgementShows ==
  ASSUME ApplyDelay = {0}
  PROVE  WriteSpec => []DroppedKeysShowWrite
<1>1. WriteInv => DroppedKeysShowWrite
  BY DEF WriteInv
<1>2. WriteInv /\ [WriteNext]_allVars => WriteInv'
  BY WriteInvStep
<1> QED BY <1>1, <1>2, WriteInvInit, PTL DEF WriteSpec
=============================================================================
