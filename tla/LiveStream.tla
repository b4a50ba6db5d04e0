------------------------------ MODULE LiveStream ------------------------------
(***************************************************************************)
(* The live problem list over SSE (server/src/services/stream.ts): one     *)
(* ticker reads the list for every connected screen and sends a frame when *)
(* something a screen shows has changed; a write-back forces a read of its *)
(* own (routes/actions.ts).                                                *)
(*                                                                         *)
(* The list is abstracted to three counters: the writes Zabbix has applied *)
(* (w), other changes a fingerprint covers (o), name-only changes (n).     *)
(* Frame ids only serve to tell whether a screen had the latest frame, and *)
(* read numbers only to tell whether a later read was applied already, so  *)
(* a screen carries `current' and a read carries `late'.  Time is counted  *)
(* in fractions of a tick and only as ages, which stop growing once past   *)
(* every comparison made with them.                                        *)
(***************************************************************************)
EXTENDS Integers, Sequences, FiniteSets, SequencesExt

CONSTANTS
  Screen,              \* connections that may be open at once
  Owner, OwnerOf,      \* who each counts against
  MaxClients, MaxPerUser,
  TickMs, MaxQuietMs, KeepaliveMs,
  CacheTtl,            \* the ttl the stream passes for 'problems'
  MaxW, MaxO, MaxN,    \* bounds on the three kinds of change
  MaxFailures          \* bound on failed reads

ASSUME StreamAssumption ==
  /\ OwnerOf \in [Screen -> Owner]
  /\ {MaxClients, MaxPerUser, MaxQuietMs, KeepaliveMs, CacheTtl} \subseteq Nat
  /\ {MaxW, MaxO, MaxN, MaxFailures} \subseteq Nat
  /\ TickMs \in Nat \ {0}

VARIABLES
  world,     \* the problem list as Zabbix has it
  written,   \* the writes whose reply the BFF has handled
  copy,      \* the cache entry 'problems' and its age
  reads,     \* refresh() calls under way, in the order they started
  screens,   \* clients: the connected ones and their state
  latest,    \* the latest frame
  sent,      \* lastSent and its age
  seen,      \* ghost: what the read applied last found
  phase,     \* time since the ticker last fired
  failures   \* failed reads so far

vars == <<world, written, copy, reads, screens, latest, sent, seen, phase, failures>>

List == [w: 0..MaxW, o: 0..MaxO, n: 0..MaxN]
Nothing == [none |-> TRUE]
Error == [error |-> TRUE]
Pending == [pending |-> TRUE]

SameFingerprint(l, m) == l.w = m.w /\ l.o = m.o

AgeCap == MaxQuietMs + TickMs
Older(age, cap) == IF age < cap THEN age + 1 ELSE cap

ScreenRecord ==
  [blocked: BOOLEAN, ended: BOOLEAN, current: BOOLEAN, quiet: 0..KeepaliveMs,
   shown: List \cup {Nothing, Error}, since: 0..MaxW]

ReadRecord ==
  [force: BOOLEAN, got: List \cup {Pending, Error}, late: BOOLEAN, stores: BOOLEAN]

TypeOK ==
  /\ world \in List
  /\ written \in 0..MaxW
  /\ copy \in {Nothing} \cup [list: List, age: 0..CacheTtl]
  /\ reads \in Seq(ReadRecord)
  /\ DOMAIN screens \subseteq Screen
  /\ \A c \in DOMAIN screens : screens[c] \in ScreenRecord
  /\ latest \in List \cup {Nothing, Error}
  /\ sent \in {Nothing} \cup [list: List, age: 0..AgeCap]
  /\ seen \in List \cup {Nothing, Error}
  /\ phase \in 0..(TickMs - 1)
  /\ failures \in 0..MaxFailures

-----------------------------------------------------------------------------
(* Writing to the screens.                                                 *)

Clients == DOMAIN screens

Owned(o) == {c \in Clients : OwnerOf[c] = o}

\* out.write() of `text' to the screens D, of which `full' then have no room.
\* A response that has ended takes nothing.
Write(cs, D, full) ==
  [c \in DOMAIN cs |-> IF c \in D /\ ~cs[c].ended
                       THEN [cs[c] EXCEPT !.quiet = 0, !.blocked = c \in full]
                       ELSE cs[c]]

\* deliver() to each of the unblocked screens in D.
Deliver(cs, frame, D, full) ==
  Write([c \in DOMAIN cs |->
           IF c \in D THEN [cs[c] EXCEPT !.current = TRUE,
                                         !.shown = IF cs[c].ended THEN @ ELSE frame]
           ELSE cs[c]], D, full)

Unblocked(cs) == {c \in DOMAIN cs : ~cs[c].blocked}

\* broadcast(): a new latest frame, which a blocked screen does not have.
Broadcast(frame) ==
  /\ latest' = frame
  /\ \E full \in SUBSET Unblocked(screens) :
       screens' = Deliver([c \in Clients |-> [screens[c] EXCEPT !.current = FALSE]],
                          frame, Unblocked(screens), full)

-----------------------------------------------------------------------------
(* refresh()                                                               *)

\* `ticking': a read that is not forced is under way.
Ticking == \E i \in 1..Len(reads) : ~reads[i].force

CacheHit == copy # Nothing /\ copy.age < CacheTtl

NewRead(force, hit) ==
  [force |-> force, got |-> IF hit THEN copy.list ELSE Pending, late |-> FALSE, stores |-> TRUE]

StartRead == reads' = Append(reads, NewRead(FALSE, CacheHit))

\* Zabbix answers the read's fetch with the list of this moment.  A fetch an
\* invalidation cancelled is not stored.
Sample(i) ==
  /\ reads[i].got = Pending
  /\ reads' = [reads EXCEPT ![i].got = world]
  /\ copy' = IF reads[i].stores THEN [list |-> world, age |-> 0] ELSE copy
  /\ UNCHANGED <<world, written, screens, latest, sent, seen, phase, failures>>

Fail(i) ==
  /\ reads[i].got = Pending
  /\ failures < MaxFailures
  /\ failures' = failures + 1
  /\ reads' = [reads EXCEPT ![i].got = Error]
  /\ UNCHANGED <<world, written, copy, screens, latest, sent, seen, phase>>

\* Faults: the plain `>= MAX_QUIET_MS' the comment warns of; the fingerprint alone.
ShouldSend_NoLookAhead(list) ==
  sent # Nothing /\ SameFingerprint(sent.list, list)
    => sent.list # list /\ sent.age >= MaxQuietMs

ShouldSend_FingerprintOnly(list) ==
  sent # Nothing => ~SameFingerprint(sent.list, list)

ShouldSend(list) ==
  sent # Nothing /\ SameFingerprint(sent.list, list)
    => sent.list # list /\ sent.age + TickMs > MaxQuietMs

\* The read returns without a word: a later one was applied, or nobody listens.
\*
\* Fault: a read is applied though a later one was.
Dropped_IfAlone(r) == Clients = {}

Dropped(r) == r.late \/ Clients = {}

\* Applying a read makes every earlier one late.
Applied(i) ==
  RemoveAt([j \in 1..Len(reads) |-> IF j < i THEN [reads[j] EXCEPT !.late = TRUE]
                                    ELSE reads[j]], i)

\* What `lastSent' becomes: nothing after a failure, so that the next good read
\* goes out whatever its fingerprint.
Remembered(got) == IF got = Error THEN Nothing ELSE [list |-> got, age |-> 0]

Land(i) ==
  LET r == reads[i]
      send == r.force \/ ShouldSend(r.got)
  IN  /\ r.got # Pending
      /\ \/ /\ Dropped(r)
            /\ reads' = RemoveAt(reads, i)
            /\ UNCHANGED <<screens, latest, sent, seen>>
         \/ /\ ~Dropped(r)
            /\ reads' = Applied(i)
            /\ seen' = r.got
            /\ \/ /\ r.got = Error
                  /\ sent' = Remembered(Error)
                  /\ Broadcast(Error)
               \/ /\ r.got # Error /\ send
                  /\ sent' = Remembered(r.got)
                  /\ Broadcast(r.got)
               \/ /\ r.got # Error /\ ~send
                  /\ UNCHANGED <<screens, latest, sent>>
      /\ UNCHANGED <<world, written, copy, phase, failures>>

-----------------------------------------------------------------------------
(* The ticker.                                                             *)

\* The screens that get a keep-alive.
\* Fault: none does while a read is under way, as if `if (ticking) return' came first.
Pinged_WhenIdle ==
  {c \in Unblocked(screens) : ~Ticking /\ Older(screens[c].quiet, KeepaliveMs) >= KeepaliveMs}

Pinged == {c \in Unblocked(screens) : Older(screens[c].quiet, KeepaliveMs) >= KeepaliveMs}

Aged(cs) == [c \in DOMAIN cs |-> [cs[c] EXCEPT !.quiet = Older(@, KeepaliveMs)]]

TimePasses ==
  /\ sent' = IF sent = Nothing THEN sent ELSE [sent EXCEPT !.age = Older(@, AgeCap)]
  /\ copy' = IF copy = Nothing THEN copy ELSE [copy EXCEPT !.age = Older(@, CacheTtl)]

Wait ==
  /\ Clients = {} \/ phase + 1 < TickMs
  /\ TimePasses
  /\ screens' = Aged(screens)
  /\ phase' = IF Clients = {} THEN phase ELSE phase + 1
  /\ UNCHANGED <<world, written, reads, latest, seen, failures>>

\* tick(): keep-alives first, then a read unless one is still under way.
Tick ==
  /\ Clients # {} /\ phase + 1 = TickMs
  /\ TimePasses
  /\ phase' = 0
  /\ \E full \in SUBSET Pinged : screens' = Write(Aged(screens), Pinged, full)
  /\ IF Ticking THEN UNCHANGED reads
     ELSE reads' = Append(reads, NewRead(FALSE, copy # Nothing /\ copy'.age < CacheTtl))
  /\ UNCHANGED <<world, written, latest, seen, failures>>

-----------------------------------------------------------------------------
(* Screens come and go.                                                    *)

Refused(c) ==
  \/ Cardinality(Clients) >= MaxClients
  \/ Cardinality(Owned(OwnerOf[c])) >= MaxPerUser

NewScreen ==
  [blocked |-> FALSE, ended |-> FALSE, current |-> FALSE, quiet |-> 0,
   shown |-> Nothing, since |-> written]

Join(c) == [x \in Clients \cup {c} |-> IF x = c THEN NewScreen ELSE screens[x]]

Subscribe(c) ==
  /\ c \notin Clients /\ ~Refused(c)
  /\ phase' = IF Clients = {} THEN 0 ELSE phase
  /\ IF latest # Nothing
     THEN /\ \E full \in SUBSET {c} : screens' = Deliver(Join(c), latest, {c}, full)
          /\ UNCHANGED reads
     ELSE /\ screens' = Join(c)
          /\ IF Ticking THEN UNCHANGED reads ELSE StartRead
  /\ UNCHANGED <<world, written, copy, latest, sent, seen, failures>>

\* The connection closes: remove(), and with the last screen the ticker goes
\* and nothing is kept for the next one.
Leave(c) ==
  /\ c \in Clients
  /\ screens' = [x \in Clients \ {c} |-> screens[x]]
  /\ IF Clients = {c} THEN latest' = Nothing /\ sent' = Nothing /\ seen' = Nothing
     ELSE UNCHANGED <<latest, sent, seen>>
  /\ phase' = IF Clients = {c} THEN 0 ELSE phase
  /\ UNCHANGED <<world, written, copy, reads, failures>>

\* The token behind the screen expires: its response is ended, and 'close'
\* follows later.
EndStreamOf(c) ==
  /\ c \in Clients /\ ~screens[c].ended
  /\ screens' = [screens EXCEPT ![c].ended = TRUE]
  /\ UNCHANGED <<world, written, copy, reads, latest, sent, seen, phase, failures>>

\* 'drain': room again, and the screen catches up with what it missed.
Drain(c) ==
  /\ c \in Clients /\ screens[c].blocked
  /\ LET free == [screens EXCEPT ![c].blocked = FALSE]
     IN  IF latest # Nothing /\ ~screens[c].current
         THEN \E full \in SUBSET {c} : screens' = Deliver(free, latest, {c}, full)
         ELSE screens' = free
  /\ UNCHANGED <<world, written, copy, reads, latest, sent, seen, phase, failures>>

-----------------------------------------------------------------------------
(* Zabbix, the write-back and the other readers of 'problems'.             *)

Change ==
  /\ \/ world.o < MaxO /\ world' = [world EXCEPT !.o = @ + 1]
     \/ world.n < MaxN /\ world' = [world EXCEPT !.n = @ + 1]
     \/ /\ world.w < MaxW /\ world.w = written
        /\ world' = [world EXCEPT !.w = @ + 1]
  /\ UNCHANGED <<written, copy, reads, screens, latest, sent, seen, phase, failures>>

\* The write-back's reply: the list is invalidated, which cancels the fetches
\* under way, and a forced read starts if anyone listens.
WriteReturns ==
  /\ written < world.w
  /\ written' = world.w
  /\ copy' = Nothing
  /\ LET cancelled == [i \in 1..Len(reads) |-> [reads[i] EXCEPT !.stores = FALSE]]
     IN  reads' = IF Clients = {} THEN cancelled
                  ELSE Append(cancelled, NewRead(TRUE, FALSE))
  /\ UNCHANGED <<world, screens, latest, sent, seen, phase, failures>>

\* GET /api/problems fills the same entry.
OtherReader ==
  /\ ~CacheHit
  /\ copy' = [list |-> world, age |-> 0]
  /\ UNCHANGED <<world, written, reads, screens, latest, sent, seen, phase, failures>>

Init ==
  /\ world = [w |-> 0, o |-> 0, n |-> 0]
  /\ written = 0
  /\ copy = Nothing
  /\ reads = <<>>
  /\ screens = [c \in {} |-> NewScreen]
  /\ latest = Nothing
  /\ sent = Nothing
  /\ seen = Nothing
  /\ phase = 0
  /\ failures = 0

Next ==
  \/ \E i \in 1..Len(reads) : Sample(i)
  \/ \E i \in 1..Len(reads) : Fail(i)
  \/ \E i \in 1..Len(reads) : Land(i)
  \/ Wait
  \/ Tick
  \/ \E c \in Screen : Subscribe(c)
  \/ \E c \in Screen : Leave(c)
  \/ \E c \in Screen : EndStreamOf(c)
  \/ \E c \in Screen : Drain(c)
  \/ Change
  \/ WriteReturns
  \/ OtherReader

\* The ticker keeps firing, every read ends (the Zabbix client's timeout), and a
\* screen that is still there takes its frames in the end.  Nobody has to join,
\* leave or write, and the list need not change.
Fairness ==
  /\ WF_vars(Wait) /\ WF_vars(Tick)
  /\ WF_vars(\E i \in 1..Len(reads) : Sample(i) \/ Fail(i))
  /\ WF_vars(\E i \in 1..Len(reads) : Land(i))
  /\ \A c \in Screen : WF_vars(Drain(c))

Spec == Init /\ [][Next]_vars

FairSpec == Spec /\ Fairness

-----------------------------------------------------------------------------
(* Properties.                                                             *)

\* However frames, full buffers, drains, joins and expiries interleave, a
\* screen with room shows exactly the latest frame: the first one it is owed on
\* joining, none missed, none skipped while it was blocked and then forgotten.
UnblockedShowLatest ==
  \A c \in Clients : ~screens[c].blocked /\ ~screens[c].ended => screens[c].shown = latest

\* What the hub shows, remembers and last found agree.  The frame is the error
\* exactly while the read applied last failed, otherwise a list with the
\* fingerprint of what that read found, and `lastSent' is that very list, so
\* that an unchanged list is recognised and the first good read after an error
\* goes out.  A hub nobody listens to holds none of it for the next screen.
FrameTracksReads ==
  /\ latest = Error <=> seen = Error
  /\ latest \in List => seen \in List /\ SameFingerprint(latest, seen)
  /\ sent = Nothing <=> latest \notin List
  /\ sent # Nothing => sent.list = latest
  /\ Clients = {} => latest = Nothing

\* Once nothing is being read, a write shows on every screen with room that was
\* connected when its reply was handled, or the error does: no read from before
\* the write, however late it lands, has the last word.
NotifiedScreensCurrent ==
  \A c \in Clients :
    /\ reads = <<>> /\ ~screens[c].blocked /\ ~screens[c].ended
    /\ screens[c].since < written
    => screens[c].shown = Error \/ screens[c].shown.w >= written

\* The same of every live screen, the ones that joined after the write too:
\* "Live screens get the new list now, not on the stream's next tick."
LiveScreensCurrent ==
  \A c \in Clients :
    reads = <<>> /\ ~screens[c].blocked /\ ~screens[c].ended
    => screens[c].shown = Error \/ screens[c].shown.w >= written

\* The ticker fires (on instances with more than one unit to a tick).
Fires == phase # 0 /\ phase' = 0 /\ Clients' = Clients

\* A name-only change that was found and held back is looked at again no later
\* than MAX_QUIET_MS after the list was last sent (shouldSend looks one tick
\* ahead for this), however slow the reads before were.
NameChangesTimely ==
  [][Fires /\ sent # Nothing /\ seen # sent.list /\ ~Ticking => sent'.age <= MaxQuietMs]_vars

\* No tick leaves a screen with room without a word for KEEPALIVE_MS, not even
\* while a slow read keeps the list from being read (the page's watchdog would
\* take the line for dead).
NoTickLeavesQuiet ==
  [][Fires => \A c \in Clients : screens'[c].blocked \/ screens'[c].ended
                                 \/ screens'[c].quiet < KeepaliveMs]_vars

\* A list that stays as it is reaches every screen that stays: through blocked
\* sockets, failed and slow reads, reads answered from the cache, and the wait
\* of a name-only change.
ScreensCatchUp ==
  \A c \in Screen, list \in List :
    c \in Clients /\ world = list
      ~> \/ world # list \/ c \notin Clients
         \/ screens[c].ended \/ screens[c].shown = list

=============================================================================
