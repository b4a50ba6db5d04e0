------------------------------ MODULE SlotQueue ------------------------------
(***************************************************************************)
(* The gates as they are written: a counter of places taken and a queue of *)
(* resolvers.  One module for the three of them, which differ in their     *)
(* limit and in whether one who waits can give up:                         *)
(*   createGate (core/gate.ts)      `running', nobody gives up             *)
(*   acquireModelSlot (ai.ts)       `slotHeld', Limit 1, timeout and abort *)
(*   acquireHostedSlot (ai.ts)      `hostedActive', timeout and abort      *)
(* A place handed to the next in line stays counted, so no step of the     *)
(* code lets a newcomer see it free.  A resolved promise runs its          *)
(* continuation later: `granted' is the time in between, in which the      *)
(* timer and the abort listener are already gone.                          *)
(***************************************************************************)
EXTENDS Integers, Sequences, FiniteSets, SequencesExt

CONSTANTS
  Request,     \* concurrent jobs, questions, prefills
  Limit,       \* limit; 1; AI_MAX_CONCURRENT
  Patient,     \* those that wait without a timer or a signal (core/gate.ts)
  TryOnly      \* those that never wait: prefillModel, tryAcquireModelSlot

ASSUME SlotAssumption ==
  /\ Limit \in Nat \ {0}
  /\ Patient \subseteq Request /\ TryOnly \subseteq Request
  /\ IsFiniteSet(Request)

VARIABLES
  taken,    \* running; slotHeld (0 or 1); hostedActive
  queue,    \* queue; slotQueue; hostedQueue: who each resolver belongs to
  state     \* where each request is

placesVars == <<taken, queue, state>>

States == {"idle", "queued", "granted", "holding"}

PlacesTypeOK ==
  /\ taken \in Nat
  /\ queue \in Seq(Request)
  /\ state \in [Request -> States]

Inside == {r \in Request : state[r] \in {"granted", "holding"}}

Move(r, where) == state' = [state EXCEPT ![r] = where]

\* A place is free: taken before anyone else runs.
Acquire(r) ==
  /\ state[r] = "idle"
  /\ taken < Limit
  /\ taken' = taken + 1
  /\ Move(r, "granted")
  /\ UNCHANGED queue

\* None is: the resolver joins the queue, unless the request never waits.
Queue(r) ==
  /\ state[r] = "idle" /\ r \notin TryOnly
  /\ taken >= Limit
  /\ queue' = Append(queue, r)
  /\ Move(r, "queued")
  /\ UNCHANGED taken

\* The acquirer's continuation runs, and with it its job.
Resume(r) ==
  /\ state[r] = "granted"
  /\ Move(r, "holding")
  /\ UNCHANGED <<taken, queue>>

\* The finally block of a job, however it ended: the next in line gets the
\* place, or the count goes down.
\*
\* Faults: nobody is told of a free place; the one who came last is let in
\* first.
Release_HandsNothingOver(r) ==
  /\ state[r] = "holding"
  /\ taken' = taken - 1
  /\ Move(r, "idle")
  /\ UNCHANGED queue

Release_LastFirst(r) ==
  /\ state[r] = "holding"
  /\ IF queue = <<>>
     THEN taken' = taken - 1 /\ Move(r, "idle") /\ UNCHANGED queue
     ELSE /\ queue' = SubSeq(queue, 1, Len(queue) - 1)
          /\ state' = [state EXCEPT ![r] = "idle", ![queue[Len(queue)]] = "granted"]
          /\ UNCHANGED taken

Release(r) ==
  /\ state[r] = "holding"
  /\ IF queue = <<>>
     THEN /\ taken' = taken - 1
          /\ Move(r, "idle")
          /\ UNCHANGED queue
     ELSE /\ queue' = Tail(queue)
          /\ state' = [state EXCEPT ![r] = "idle", ![Head(queue)] = "granted"]
          /\ UNCHANGED taken

\* leave(): the wait is over or the reader has gone, and the resolver is taken
\* out of the queue.
LeaveQueue(r) ==
  /\ state[r] = "queued" /\ r \notin Patient
  /\ \E i \in 1..Len(queue) : queue[i] = r /\ queue' = RemoveAt(queue, i)
  /\ Move(r, "idle")
  /\ UNCHANGED taken

PlacesInit ==
  /\ taken = 0
  /\ queue = <<>>
  /\ state = [r \in Request |-> "idle"]

PlacesNext ==
  \E r \in Request : Acquire(r) \/ Queue(r) \/ Resume(r) \/ Release(r) \/ LeaveQueue(r)

PlacesSpec == PlacesInit /\ [][PlacesNext]_placesVars

\* Continuations run, and jobs end: each is a call with a timeout of its own
\* (Zabbix's, AI_TIMEOUT_MS).
PlacesFairness == \A r \in Request : WF_placesVars(Resume(r)) /\ WF_placesVars(Release(r))

-----------------------------------------------------------------------------
(* Properties.                                                             *)

\* The counter is exactly the requests that hold a place, and never more than
\* the limit: no path (hand-over, timeout, abort, a job that throws) leaks a
\* place, which would close the gate for good, or makes one up.
CountIsHolders == taken = Cardinality(Inside) /\ taken <= Limit

\* The queue lists exactly those who wait, once each: nobody who gave up is
\* handed a place nobody would give back.
QueueIsWaiters ==
  /\ {queue[i] : i \in 1..Len(queue)} = {r \in Request : state[r] = "queued"}
  /\ \A i, j \in 1..Len(queue) : queue[i] = queue[j] => i = j

\* While anyone waits every place is taken, so a newcomer cannot jump the queue.
NoIdlePlace == queue # <<>> => taken = Limit

\* The gates keep FairGate's promise.
Gate == INSTANCE FairGate WITH inside <- Inside, line <- queue

KeepsGatePromise == Gate!GateSpec

\* A request that waits is let in and runs, unless it gives up first (core/gate.ts,
\* ai.ts: a job that throws, a wait that times out or is aborted included).
\* `Whenever it waits, it is served later' is `again and again it does not wait'.
WaitersServed == \A r \in Request : []<>(state[r] \notin {"queued", "granted"})
=============================================================================
