------------------------------ MODULE AiLimits ------------------------------
(***************************************************************************)
(* The limits on AI calls (clients/limits.ts): so many a minute for each   *)
(* caller, and so many tokens a day for each caller and for all of them.   *)
(* Both are looked at by the route's guard.  The call is made later, when  *)
(* it has one of AI_MAX_CONCURRENT places (SlotQueue), and charged when it *)
(* ends, so calls are let in on a count that others under way will raise.  *)
(*                                                                         *)
(* One kind of call stands for both, `chat' and `explain': each has a      *)
(* table of windows of its own.  The provider is the hosted one, the only  *)
(* one with a budget; no limit is 0.                                       *)
(***************************************************************************)
EXTENDS Integers, MapEntries, FiniteSetsExt

CONSTANTS
  Call,           \* calls at once, from the guard to the charge
  Caller,
  PerMinute,      \* AI_*_PER_MINUTE, of one kind
  WindowMs,       \* WINDOW_MS
  WindowKeys,     \* MAX_KEYS
  PerUser, Total, \* AI_DAILY_TOKENS_*
  Places,         \* AI_MAX_CONCURRENT
  MaxCost,        \* bound: the tokens a call is charged for
  DayLength,
  MaxTakes, MaxAiTime   \* bounds: calls let through by the minute's limit; the clock

ASSUME AiAssumption ==
  /\ IsFiniteSet(Call) /\ Call # {} /\ IsFiniteSet(Caller)
  /\ PerMinute \in Nat \ {0} /\ WindowMs \in Nat \ {0} /\ WindowKeys \in Nat \ {0}
  /\ PerUser \in Nat \ {0} /\ Total \in Nat \ {0} /\ Places \in Nat \ {0}
  /\ MaxCost \in Nat /\ DayLength \in Nat \ {0}
  /\ "nobody" \notin Caller

VARIABLES
  aiNow,
  windows,     \* the Map of MinuteLimit in its order: [key, count, resetAt]
  day, used,   \* DailyTokens: the day counted, and the tokens by caller
  usedByAll,   \* used.get(ALL)
  asker,       \* the caller each call is let in for, or Nobody
  hostedActive, hostedQueue, hostedState,    \* the places (SlotQueue)
  takes        \* ghost: what take() let through, in order: [key, at]

limitVars == <<windows, day, used, usedByAll, takes>>
slotVars == <<hostedActive, hostedQueue, hostedState>>
aiVars == <<aiNow, limitVars, asker, slotVars>>

Nobody == "nobody"

Slot == INSTANCE SlotQueue WITH
  Request <- Call, Limit <- Places, Patient <- {}, TryOnly <- {},
  taken <- hostedActive, queue <- hostedQueue, state <- hostedState

-----------------------------------------------------------------------------
(* MinuteLimit                                                             *)

Open(key) == {i \in 1..Len(windows) : windows[i].key = key /\ windows[i].resetAt > aiNow}

\* prune: the windows that are over go, then the oldest.
Prune(ws) ==
  LET live == KeptEntries(ws, {i \in 1..Len(ws) : ws[i].resetAt > aiNow})
  IN IF Len(live) > WindowKeys THEN SubSeq(live, Len(live) - WindowKeys + 1, Len(live)) ELSE live

OtherWindows(key) == KeptEntries(windows, {i \in 1..Len(windows) : windows[i].key # key})

\* take, when it lets the call through: a new window at the end of the Map, or
\* one more in the one that is open.
\*
\* Fault: one call too many.
Take_OffByOne(key) ==
  /\ Len(takes) < MaxTakes
  /\ takes' = Append(takes, [key |-> key, at |-> aiNow])
  /\ IF Open(key) = {}
     THEN LET put == Append(OtherWindows(key), [key |-> key, count |-> 1, resetAt |-> aiNow + WindowMs])
          IN windows' = IF Len(put) > WindowKeys THEN Prune(put) ELSE put
     ELSE \E i \in Open(key) :
            windows[i].count <= PerMinute /\ windows' = [windows EXCEPT ![i].count = @ + 1]

Take(key) ==
  /\ Len(takes) < MaxTakes
  /\ takes' = Append(takes, [key |-> key, at |-> aiNow])
  /\ IF Open(key) = {}
     THEN LET put == Append(OtherWindows(key), [key |-> key, count |-> 1, resetAt |-> aiNow + WindowMs])
          IN windows' = IF Len(put) > WindowKeys THEN Prune(put) ELSE put
     ELSE \E i \in Open(key) :
            windows[i].count < PerMinute /\ windows' = [windows EXCEPT ![i].count = @ + 1]

-----------------------------------------------------------------------------
(* DailyTokens                                                             *)

Today == aiNow \div DayLength

\* What is left of `used' once today() has run.
Tally == IF day = Today THEN used ELSE [u \in Caller |-> 0]
TallyOfAll == IF day = Today THEN usedByAll ELSE 0

\* refusal
\*
\* Fault: one token too many.
Refused_OffByOne(who) == Tally[who] > PerUser \/ TallyOfAll > Total

Refused(who) == Tally[who] >= PerUser \/ TallyOfAll >= Total

\* record.  A call that was let in yesterday counts today; one that was never
\* billed counts nothing and does not look at the day.
Charge(who, cost) ==
  IF cost = 0 THEN UNCHANGED <<day, used, usedByAll>>
  ELSE /\ day' = Today
       /\ used' = [Tally EXCEPT ![who] = @ + cost]
       /\ usedByAll' = TallyOfAll + cost

-----------------------------------------------------------------------------
(* A call.                                                                 *)

\* aiGuard.  A call the minute refuses changes nothing.
Ask(c, who) ==
  /\ asker[c] = Nobody
  /\ Take(who)
  /\ day' = Today /\ used' = Tally /\ usedByAll' = TallyOfAll
  /\ asker' = IF Refused(who) THEN asker ELSE [asker EXCEPT ![c] = who]
  /\ UNCHANGED <<aiNow, slotVars>>

\* acquireHostedSlot, after the awaits of the route.
Enter(c) ==
  /\ asker[c] # Nobody
  /\ Slot!Acquire(c) \/ Slot!Queue(c)
  /\ UNCHANGED <<aiNow, limitVars, asker>>

Begin(c) ==
  /\ Slot!Resume(c)
  /\ UNCHANGED <<aiNow, limitVars, asker>>

\* The call ends, however it ends; the charge is in the inner finally.
Finish(c) ==
  /\ Slot!Release(c)
  /\ \E cost \in 0..MaxCost : Charge(asker[c], cost)
  /\ asker' = [asker EXCEPT ![c] = Nobody]
  /\ UNCHANGED <<aiNow, windows, takes>>

\* The reader has gone, the wait is over, or the route fails before it asks for
\* a place.
Abandon(c) ==
  /\ asker[c] # Nobody
  /\ Slot!LeaveQueue(c) \/ (hostedState[c] = "idle" /\ UNCHANGED slotVars)
  /\ asker' = [asker EXCEPT ![c] = Nobody]
  /\ UNCHANGED <<aiNow, limitVars>>

AiTick ==
  /\ aiNow < MaxAiTime
  /\ aiNow' = aiNow + 1
  /\ UNCHANGED <<limitVars, asker, slotVars>>

AiInit ==
  /\ aiNow = 0
  /\ windows = <<>> /\ takes = <<>>
  /\ day = -1 /\ used = [u \in Caller |-> 0] /\ usedByAll = 0
  /\ asker = [c \in Call |-> Nobody]
  /\ Slot!PlacesInit

AiNext ==
  \/ \E c \in Call :
       (\E who \in Caller : Ask(c, who)) \/ Enter(c) \/ Begin(c) \/ Finish(c) \/ Abandon(c)
  \/ AiTick

AiSpec == AiInit /\ [][AiNext]_aiVars

-----------------------------------------------------------------------------
\* The tokens of the day, one by one.
Spent == UNION {{who} \X (1..used[who]) : who \in Caller}

\* However the calls overlap, with each other and with midnight, a day's use
\* passes its limit by no more than the calls that can be under way cost, and
\* the total is what the callers used (limits.ts, refusal and record).
BudgetHolds ==
  /\ \A who \in Caller : used[who] <= PerUser - 1 + MaxCost * Cardinality(Call)
  /\ usedByAll <= Total - 1 + MaxCost * Cardinality(Call)
  /\ usedByAll = Cardinality(Spent)

\* Twice PerMinute calls of one caller take at least a minute, unless as many
\* others as the table holds called since a minute before (limits.ts, take).
MinuteHolds ==
  \A i, j \in 1..Len(takes) :
    LET who == takes[i].key
        mine == {n \in i..j : takes[n].key = who}
        others == {takes[n].key : n \in {m \in 1..j : takes[m].at > takes[i].at - WindowMs}} \ {who}
    IN i < j /\ Cardinality(mine) >= 2 * PerMinute /\ Cardinality(others) < WindowKeys
       => takes[Max(mine)].at - takes[i].at >= WindowMs
=============================================================================
