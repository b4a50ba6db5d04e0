--------------------------- MODULE SlotQueue_proofs ---------------------------
(***************************************************************************)
(* The gates of SlotQueue are right for any number of requests and any     *)
(* limit: the counter, the queue and the requests' states always agree,    *)
(* and every step is one that FairGate allows.                             *)
(***************************************************************************)
EXTENDS SlotQueue, SequenceLemmas, FiniteSetTheorems, TLAPS

(***************************************************************************)
(* The properties hold together or not at all: that a release may count    *)
(* down needs the counter to be the holders, that the head of the queue    *)
(* may be let in needs the queue to be the waiters, and that a newcomer    *)
(* may enter needs that nobody waits while a place is free.                *)
(***************************************************************************)
SlotInv == PlacesTypeOK /\ QueueIsWaiters /\ CountIsHolders /\ NoIdlePlace

Queued == {r \in Request : state[r] = "queued"}

-----------------------------------------------------------------------------
(* The steps, one lemma each for the three parts of the state they change. *)

\* A release finds the counter above zero.
LEMMA InsideCounts ==
  ASSUME PlacesTypeOK
  PROVE  /\ IsFiniteSet(Inside)
         /\ Cardinality(Inside) \in Nat
         /\ \A r \in Inside : Cardinality(Inside) >= 1
<1>1. IsFiniteSet(Inside)
  BY SlotAssumption, FS_Subset DEF SlotAssumption, Inside
<1>2. Cardinality(Inside) \in Nat
  BY <1>1, FS_CardinalityType
<1>3. \A r \in Inside : Cardinality(Inside) # 0
  BY <1>1, FS_EmptySet
<1> QED BY <1>1, <1>2, <1>3

\* `if (running < limit) running++' and its likes.
LEMMA AcquireKeeps ==
  ASSUME SlotInv, NEW r \in Request, Acquire(r)
  PROVE  SlotInv'
<1> USE DEF SlotInv, Acquire, Move
<1>1. queue = <<>> /\ queue' = <<>>
  BY SlotAssumption DEF NoIdlePlace, SlotAssumption, CountIsHolders, PlacesTypeOK
<1>2. PlacesTypeOK'
  BY DEF PlacesTypeOK, States
<1>3. QueueIsWaiters'
  <2>1. {q \in Request : state'[q] = "queued"} = {q \in Request : state[q] = "queued"}
    BY DEF PlacesTypeOK
  <2> QED BY <1>1, <2>1 DEF QueueIsWaiters
<1>4. CountIsHolders'
  <2>1. Inside' = Inside \cup {r} /\ r \notin Inside
    BY DEF Inside, PlacesTypeOK, States
  <2>2. Cardinality(Inside') = Cardinality(Inside) + 1
    BY <2>1, InsideCounts, FS_AddElement
  <2> QED BY <2>2, InsideCounts, SlotAssumption DEF CountIsHolders, SlotAssumption
<1>5. NoIdlePlace'
  BY <1>1 DEF NoIdlePlace
<1> QED BY <1>2, <1>3, <1>4, <1>5

\* A resolver joins the queue only while every place is taken.
LEMMA QueueKeeps ==
  ASSUME SlotInv, NEW r \in Request, Queue(r)
  PROVE  SlotInv'
<1> USE DEF SlotInv, Queue, Move
<1>1. /\ queue \in Seq(Request)
      /\ queue' \in Seq(Request)
      /\ Len(queue) \in Nat
      /\ Len(queue') = Len(queue) + 1
      /\ \A i \in 1..Len(queue) : queue'[i] = queue[i] /\ queue[i] \in Queued
      /\ queue'[Len(queue) + 1] = r
      /\ r \notin Queued
  BY DEF PlacesTypeOK, QueueIsWaiters, Queued
<1>2. PlacesTypeOK'
  BY <1>1 DEF PlacesTypeOK, States
<1>3. QueueIsWaiters'
  <2>1. Queued' = Queued \cup {r}
    BY DEF Queued, PlacesTypeOK
  <2>2. {queue'[i] : i \in 1..Len(queue')} = {queue[i] : i \in 1..Len(queue)} \cup {r}
    BY <1>1
  <2>3. {queue[i] : i \in 1..Len(queue)} = Queued
    BY DEF QueueIsWaiters, Queued
  <2>4. \A i, j \in 1..Len(queue') : queue'[i] = queue'[j] => i = j
    BY <1>1 DEF QueueIsWaiters
  <2> QED BY <2>1, <2>2, <2>3, <2>4 DEF QueueIsWaiters, Queued
<1>4. CountIsHolders'
  <2>1. Inside' = Inside
    BY DEF Inside, PlacesTypeOK
  <2> QED BY <2>1 DEF CountIsHolders
<1>5. NoIdlePlace'
  BY SlotAssumption DEF NoIdlePlace, CountIsHolders, PlacesTypeOK, SlotAssumption
<1> QED BY <1>2, <1>3, <1>4, <1>5

\* The continuation of one who was let in changes no count.
LEMMA ResumeKeeps ==
  ASSUME SlotInv, NEW r \in Request, Resume(r)
  PROVE  SlotInv'
<1> USE DEF SlotInv, Resume, Move
<1>1. PlacesTypeOK'
  BY DEF PlacesTypeOK, States
<1>2. QueueIsWaiters'
  <2>1. {q \in Request : state'[q] = "queued"} = {q \in Request : state[q] = "queued"}
    BY DEF PlacesTypeOK
  <2> QED BY <2>1 DEF QueueIsWaiters
<1>3. CountIsHolders'
  <2>1. Inside' = Inside
    BY DEF Inside, PlacesTypeOK
  <2> QED BY <2>1 DEF CountIsHolders
<1>4. NoIdlePlace'
  BY DEF NoIdlePlace
<1> QED BY <1>1, <1>2, <1>3, <1>4

\* The finally block hands the place on or gives it back, never both.
LEMMA ReleaseKeeps ==
  ASSUME SlotInv, NEW r \in Request, Release(r)
  PROVE  SlotInv'
<1> USE DEF SlotInv, Move
<1>1. r \in Inside /\ r \notin Queued
  BY DEF Release, Inside, Queued
<1>2. CASE queue = <<>>
  <2>1. /\ taken' = taken - 1 /\ queue' = <<>>
        /\ state' = [state EXCEPT ![r] = "idle"]
    BY <1>2 DEF Release
  <2>2. Inside' = Inside \ {r}
    BY <2>1 DEF Inside, PlacesTypeOK
  <2>3. Cardinality(Inside') = Cardinality(Inside) - 1
    BY <1>1, <2>2, InsideCounts, FS_RemoveElement
  <2>4. CountIsHolders' /\ taken' \in Nat
    BY <1>1, <2>1, <2>3, InsideCounts, SlotAssumption DEF CountIsHolders, SlotAssumption
  <2>5. PlacesTypeOK'
    BY <2>1, <2>4 DEF PlacesTypeOK, States
  <2>6. QueueIsWaiters'
    <3>1. {q \in Request : state'[q] = "queued"} = {q \in Request : state[q] = "queued"}
      BY <1>1, <2>1 DEF PlacesTypeOK, Queued
    <3> QED BY <1>2, <2>1, <3>1 DEF QueueIsWaiters
  <2>7. NoIdlePlace'
    BY <2>1 DEF NoIdlePlace
  <2> QED BY <2>4, <2>5, <2>6, <2>7
<1>3. CASE queue # <<>>
  <2> DEFINE h == Head(queue)
  <2>1. /\ taken' = taken /\ queue' = Tail(queue)
        /\ state' = [state EXCEPT ![r] = "idle", ![h] = "granted"]
    BY <1>3 DEF Release
  <2>2. /\ queue \in Seq(Request) /\ Len(queue) \in Nat
        /\ queue' \in Seq(Request)
        /\ Len(queue') = Len(queue) - 1
        /\ \A i \in 1..Len(queue') : queue'[i] = queue[i + 1]
        /\ 1 \in 1..Len(queue) /\ queue[1] = h
    BY <1>3, <2>1 DEF PlacesTypeOK
  <2>3. h \in Queued /\ h \in Request /\ h # r /\ h \notin Inside
    BY <1>1, <2>2 DEF QueueIsWaiters, Queued, Inside
  <2> HIDE DEF h
  <2>4. PlacesTypeOK'
    BY <2>1, <2>2 DEF PlacesTypeOK, States
  <2>5. CountIsHolders'
    <3>1. Inside' = (Inside \ {r}) \cup {h}
      BY <2>1, <2>3 DEF Inside, PlacesTypeOK
    <3>2. Cardinality(Inside \ {r}) = Cardinality(Inside) - 1 /\ IsFiniteSet(Inside \ {r})
      BY <1>1, InsideCounts, FS_RemoveElement
    <3>3. Cardinality((Inside \ {r}) \cup {h}) = Cardinality(Inside \ {r}) + 1
      BY <2>3, <3>2, FS_AddElement
    <3>4. Cardinality(Inside') = Cardinality(Inside)
      BY <3>1, <3>2, <3>3, InsideCounts
    <3> QED BY <2>1, <3>4 DEF CountIsHolders
  <2>6. QueueIsWaiters'
    <3>1. Queued' = Queued \ {h}
      BY <1>1, <2>1, <2>3 DEF Queued, PlacesTypeOK
    <3>2. {queue[i] : i \in 1..Len(queue)} = Queued
      BY DEF QueueIsWaiters, Queued
    <3>3. ASSUME NEW i \in 1..Len(queue') PROVE queue'[i] \in Queued \ {h}
      <4>1. i + 1 \in 1..Len(queue) /\ i + 1 # 1 /\ queue'[i] = queue[i + 1]
        BY <2>2
      <4>2. queue[i + 1] \in Queued
        BY <3>2, <4>1
      <4>3. queue[i + 1] # queue[1]
        BY <2>2, <4>1 DEF QueueIsWaiters
      <4> QED BY <2>2, <4>1, <4>2, <4>3
    <3>4. ASSUME NEW q \in Queued \ {h} PROVE \E i \in 1..Len(queue') : queue'[i] = q
      <4>1. PICK j \in 1..Len(queue) : queue[j] = q
        BY <3>2
      <4>2. j - 1 \in 1..Len(queue') /\ queue'[j - 1] = q
        BY <2>2, <4>1
      <4> QED BY <4>2
    <3>5. \A i, j \in 1..Len(queue') : queue'[i] = queue'[j] => i = j
      BY <2>2 DEF QueueIsWaiters
    <3> QED BY <3>1, <3>3, <3>4, <3>5 DEF QueueIsWaiters, Queued
  <2>7. NoIdlePlace'
    BY <1>3, <2>1 DEF NoIdlePlace
  <2> QED BY <2>4, <2>5, <2>6, <2>7
<1> QED BY <1>2, <1>3

\* leave() takes out its own resolver only.
LEMMA LeaveQueueKeeps ==
  ASSUME SlotInv, NEW r \in Request, LeaveQueue(r)
  PROVE  SlotInv'
<1> USE DEF SlotInv, Move
<1>1. PICK i \in 1..Len(queue) : queue[i] = r /\ queue' = RemoveAt(queue, i)
  BY DEF LeaveQueue
<1>2. /\ queue \in Seq(Request) /\ Len(queue) \in Nat
      /\ queue' \in Seq(Request)
      /\ Len(queue') = Len(queue) - 1
  BY <1>1, RemoveAtProperties DEF PlacesTypeOK
<1>3. taken' = taken /\ state[r] = "queued" /\ state' = [state EXCEPT ![r] = "idle"]
  BY DEF LeaveQueue
<1>4. PlacesTypeOK'
  BY <1>2, <1>3 DEF PlacesTypeOK, States
<1>5. CountIsHolders'
  <2>1. Inside' = Inside
    BY <1>3 DEF Inside, PlacesTypeOK
  <2> QED BY <1>3, <2>1 DEF CountIsHolders
<1>6. QueueIsWaiters'
  <2>1. Queued' = Queued \ {r}
    BY <1>3 DEF Queued, PlacesTypeOK
  <2>2. {queue[j] : j \in 1..Len(queue)} = Queued
    BY DEF QueueIsWaiters, Queued
  <2>3. /\ {queue'[j] : j \in 1..Len(queue')} = {queue[j] : j \in 1..Len(queue)} \ {r}
        /\ \A j, k \in 1..Len(queue') : queue'[j] = queue'[k] => j = k
    <3>1. \A j, k \in 1..Len(queue) : queue[j] = queue[k] => j = k
      BY DEF QueueIsWaiters
    <3> HIDE DEF SlotInv
    <3>2. /\ {RemoveAt(queue, i)[j] : j \in 1..Len(RemoveAt(queue, i))}
               = {queue[j] : j \in 1..Len(queue)} \ {queue[i]}
          /\ \A j, k \in 1..Len(RemoveAt(queue, i)) :
               RemoveAt(queue, i)[j] = RemoveAt(queue, i)[k] => j = k
      BY <1>2, <3>1, RemoveAtRange
    <3> QED BY <1>1, <3>2
  <2> QED BY <2>1, <2>2, <2>3 DEF QueueIsWaiters, Queued
<1>7. NoIdlePlace'
  BY <1>1, <1>2, <1>3 DEF NoIdlePlace
<1> QED BY <1>4, <1>5, <1>6, <1>7

-----------------------------------------------------------------------------
\* Nobody holds a place and nobody waits when the module is loaded.
LEMMA SlotInvInit == PlacesInit => SlotInv
<1> SUFFICES ASSUME PlacesInit PROVE SlotInv
  OBVIOUS
<1>1. Inside = {} /\ {q \in Request : state[q] = "queued"} = {}
  BY DEF PlacesInit, Inside
<1>2. queue = <<>> /\ taken = 0 /\ Len(queue) = 0
  BY DEF PlacesInit
<1>3. PlacesTypeOK
  BY DEF PlacesInit, PlacesTypeOK, States
<1>4. QueueIsWaiters
  BY <1>1, <1>2 DEF QueueIsWaiters
<1>5. CountIsHolders
  BY <1>1, <1>2, FS_EmptySet, SlotAssumption DEF CountIsHolders, SlotAssumption
<1> QED BY <1>2, <1>3, <1>4, <1>5 DEF SlotInv, NoIdlePlace

\* Each step of a request that passes the gate.
LEMMA SlotInvStep == SlotInv /\ [PlacesNext]_placesVars => SlotInv'
<1> SUFFICES ASSUME SlotInv, [PlacesNext]_placesVars PROVE SlotInv'
  OBVIOUS
<1>1. CASE PlacesNext
  <2> PICK r \in Request : Acquire(r) \/ Queue(r) \/ Resume(r) \/ Release(r) \/ LeaveQueue(r)
    BY <1>1 DEF PlacesNext
  <2> QED BY AcquireKeeps, QueueKeeps, ResumeKeeps, ReleaseKeeps, LeaveQueueKeeps
<1>2. CASE UNCHANGED placesVars
  BY <1>2 DEF placesVars, SlotInv, PlacesTypeOK, QueueIsWaiters, CountIsHolders, NoIdlePlace, Inside
<1> QED BY <1>1, <1>2

\* Whatever requests come, wait, give up, fail and finish, counter, queue and
\* holders agree.
THEOREM SlotInvariant == PlacesSpec => []SlotInv
BY SlotInvInit, SlotInvStep, PTL DEF PlacesSpec

\* The counter, the queue and who holds what are always what they should be:
\* createGate's `running', acquireModelSlot's `slotHeld' and
\* acquireHostedSlot's `hostedActive' never drift from the places really held.
THEOREM TypeCorrect == PlacesSpec => []PlacesTypeOK
BY SlotInvariant, PTL DEF SlotInv

\* No path (hand-over, timeout, abort, a job that throws) leaks or invents a place.
THEOREM NoPlaceLeaks == PlacesSpec => []CountIsHolders
BY SlotInvariant, PTL DEF SlotInv

\* The queue lists exactly the waiters, once each: nobody who gave up is handed
\* a place (acquireModelSlot's leave).
THEOREM QueueCorrect == PlacesSpec => []QueueIsWaiters
BY SlotInvariant, PTL DEF SlotInv

\* None waits while a place is free, so no newcomer overtakes (run,
\* acquireModelSlot).
THEOREM NoneWaitsForNothing == PlacesSpec => []NoIdlePlace
BY SlotInvariant, PTL DEF SlotInv

-----------------------------------------------------------------------------
(* The gates implement FairGate.                                           *)

\* The library's operators mean the same inside the instance.
LEMMA SameOperators ==
  /\ \A S : Gate!Cardinality(S) = Cardinality(S)
  /\ \A s, i : Gate!RemoveAt(s, i) = RemoveAt(s, i)
<1>1. ASSUME NEW S PROVE Gate!Cardinality(S) = Cardinality(S)
  BY DEF Cardinality, Gate!Cardinality
<1>2. ASSUME NEW s, NEW i PROVE Gate!RemoveAt(s, i) = RemoveAt(s, i)
  BY DEF RemoveAt, Gate!RemoveAt
<1> QED BY <1>1, <1>2

\* Each step is one that the promised gate takes, or changes nothing it shows.
LEMMA GateSteps == SlotInv /\ [PlacesNext]_placesVars => [Gate!GateNext]_(Gate!gateVars)
<1> SUFFICES ASSUME SlotInv, [PlacesNext]_placesVars PROVE [Gate!GateNext]_(Gate!gateVars)
  OBVIOUS
<1> USE DEF SlotInv, Move
<1>0. ASSUME NEW q \in Request PROVE Gate!InLine(q) <=> state[q] = "queued"
  BY DEF Gate!InLine, QueueIsWaiters
<1>1. ASSUME NEW r \in Request, Acquire(r) PROVE Gate!Enter(r)
  <2>1. Inside' = Inside \cup {r} /\ r \notin Inside
    BY <1>1 DEF Acquire, Inside, PlacesTypeOK, States
  <2>2. ~Gate!InLine(r)
    BY <1>0, <1>1 DEF Acquire
  <2>3. queue = <<>> /\ queue' = queue /\ Cardinality(Inside) < Limit
    BY <1>1, SlotAssumption DEF Acquire, NoIdlePlace, CountIsHolders, PlacesTypeOK, SlotAssumption
  <2> QED BY <2>1, <2>2, <2>3, SameOperators DEF Gate!Enter
<1>2. ASSUME NEW r \in Request, Queue(r) PROVE Gate!LineUp(r)
  <2>1. Inside' = Inside /\ r \notin Inside
    BY <1>2 DEF Queue, Inside, PlacesTypeOK
  <2>2. ~Gate!InLine(r)
    BY <1>0, <1>2 DEF Queue
  <2>3. queue' = Append(queue, r) /\ Cardinality(Inside) >= Limit
    BY <1>2 DEF Queue, CountIsHolders
  <2> QED BY <2>1, <2>2, <2>3, SameOperators DEF Gate!LineUp
<1>3. ASSUME NEW r \in Request, Resume(r) PROVE UNCHANGED Gate!gateVars
  BY <1>3 DEF Resume, Inside, PlacesTypeOK, Gate!gateVars
<1>4. ASSUME NEW r \in Request, Release(r) PROVE Gate!Depart(r)
  <2>1. r \in Inside
    BY <1>4 DEF Release, Inside
  <2>2. CASE queue = <<>>
    <3>1. Inside' = Inside \ {r}
      BY <1>4, <2>2 DEF Release, Inside, PlacesTypeOK
    <3> QED BY <1>4, <2>1, <2>2, <3>1 DEF Release, Gate!Depart
  <2>3. CASE queue # <<>>
    <3>1. Head(queue) \in Request /\ state[Head(queue)] = "queued" /\ Head(queue) # r
      <4>1. Len(queue) \in Nat /\ 1 \in 1..Len(queue) /\ Head(queue) = queue[1]
        BY <2>3 DEF PlacesTypeOK
      <4> QED BY <1>4, <4>1 DEF QueueIsWaiters, Release
    <3> DEFINE h == Head(queue)
    <3>2. /\ state' = [state EXCEPT ![r] = "idle", ![h] = "granted"]
          /\ queue' = Tail(queue)
      BY <1>4, <2>3 DEF Release
    <3>3. h \in Request /\ h # r
      BY <3>1
    <3> HIDE DEF h
    <3>4. Inside' = (Inside \ {r}) \cup {h}
      BY <3>2, <3>3 DEF Inside, PlacesTypeOK
    <3> QED BY <2>1, <2>3, <3>2, <3>4 DEF Gate!Depart, h
  <2> QED BY <2>2, <2>3
<1>5. ASSUME NEW r \in Request, LeaveQueue(r) PROVE Gate!GiveUp(r)
  <2>1. Inside' = Inside
    BY <1>5 DEF LeaveQueue, Inside, PlacesTypeOK
  <2> QED BY <1>5, <2>1, SameOperators DEF LeaveQueue, Gate!GiveUp
<1>6. CASE UNCHANGED placesVars
  BY <1>6 DEF placesVars, Gate!gateVars, Inside
<1>7. CASE PlacesNext
  <2> PICK r \in Request : Acquire(r) \/ Queue(r) \/ Resume(r) \/ Release(r) \/ LeaveQueue(r)
    BY <1>7 DEF PlacesNext
  <2> QED BY <1>1, <1>2, <1>3, <1>4, <1>5 DEF Gate!GateNext
<1> QED BY <1>6, <1>7

\* Whatever the counter and the resolvers do, what their users see is a fair
\* gate: at most Limit inside, first come first served, no place skipped.
THEOREM GateKept == PlacesSpec => KeepsGatePromise
<1>1. PlacesInit => Gate!GateInit
  BY DEF PlacesInit, Gate!GateInit, Inside
<1>2. SlotInv /\ [PlacesNext]_placesVars => [Gate!GateNext]_(Gate!gateVars)
  BY GateSteps
<1> QED BY <1>1, <1>2, SlotInvariant, PTL DEF PlacesSpec, KeepsGatePromise, Gate!GateSpec
=============================================================================
