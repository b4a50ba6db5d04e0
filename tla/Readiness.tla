----------------------------- MODULE Readiness ------------------------------
(***************************************************************************)
(* The readiness check behind GET /api/health and /api/ready               *)
(* (createReadiness, http/health.ts): one answer, kept, and one check at a *)
(* time.  A check that gives up leaves its call at Zabbix, which ends by   *)
(* the limit of clients/zabbix.ts at the latest.                           *)
(*                                                                         *)
(* Calls at Zabbix are known by their age; what the model probe says is    *)
(* left out.                                                               *)
(***************************************************************************)
EXTENDS Naturals, FiniteSets

CONSTANTS
  ReadyTtl,       \* READY_TTL_MS
  ReadyStale,     \* READY_STALE_MS
  ReadyTimeout,   \* READY_TIMEOUT_MS
  ZbxLimit        \* ZABBIX_TIMEOUT_MS

\* Given the defaults: 15, 60, 2 and 10 seconds.
ASSUME ReadinessAssumption ==
  /\ {ReadyTtl, ReadyStale, ReadyTimeout, ZbxLimit} \subseteq Nat \ {0}
  /\ ReadyTtl < ReadyStale
  /\ ZbxLimit < ReadyTimeout + ReadyTtl

VARIABLES
  last,       \* the last answer, and how old it is; none is as good as one too old
  check,      \* the check in flight
  atZabbix,   \* the calls at Zabbix
  caller      \* a caller: whether it waits, and the age of what it was given

readyVars == <<last, check, atZabbix, caller>>

Never == [age |-> ReadyStale, zabbix |-> "never"]
NoCheck == [elapsed |-> 0, zabbix |-> "none", modelSaid |-> FALSE]
NewCheck == [elapsed |-> 0, zabbix |-> "out", modelSaid |-> FALSE]
Verdicts == {"ok", "error", "timeout"}

-----------------------------------------------------------------------------
\* refresh: the check in flight, or a new one.
Refresh ==
  IF check # NoCheck THEN UNCHANGED <<check, atZabbix>>
  ELSE check' = NewCheck /\ atZabbix' = atZabbix \cup {0}

\* get
Get ==
  /\ ~caller.waits /\ UNCHANGED last
  /\ IF last.age < ReadyTtl
     THEN /\ caller' = [waits |-> FALSE, given |-> last.age]
          /\ UNCHANGED <<check, atZabbix>>
     ELSE IF last.age < ReadyStale
     THEN Refresh /\ caller' = [waits |-> FALSE, given |-> last.age]
     ELSE Refresh /\ caller' = [caller EXCEPT !.waits = TRUE]

\* A call ends, with an answer, an error or at its limit: late, it is not news.
ZabbixEnds ==
  \E a \in atZabbix :
    /\ atZabbix' = atZabbix \ {a}
    /\ IF check # NoCheck /\ check.elapsed = a /\ check.zabbix = "out"
       THEN \E verdict \in {"ok", "error"} : check' = [check EXCEPT !.zabbix = verdict]
       ELSE UNCHANGED check
    /\ UNCHANGED <<last, caller>>

\* The timer of the check.
GivesUp ==
  /\ check # NoCheck /\ check.elapsed >= ReadyTimeout /\ check.zabbix = "out"
  /\ check' = [check EXCEPT !.zabbix = "timeout"]
  /\ UNCHANGED <<last, atZabbix, caller>>

ModelSays ==
  /\ check # NoCheck /\ ~check.modelSaid
  /\ check' = [check EXCEPT !.modelSaid = TRUE]
  /\ UNCHANGED <<last, atZabbix, caller>>

\* The check is over: its answer is kept, a timeout like any other.
\*
\* Fault: a timeout is not.
CheckEnds_KeepsAnswers ==
  /\ check # NoCheck /\ check.zabbix \in Verdicts /\ check.modelSaid
  /\ last' = IF check.zabbix = "timeout" THEN last ELSE [age |-> 0, zabbix |-> check.zabbix]
  /\ check' = NoCheck
  /\ caller' = IF caller.waits THEN [waits |-> FALSE, given |-> 0] ELSE caller
  /\ UNCHANGED atZabbix

CheckEnds ==
  /\ check # NoCheck /\ check.zabbix \in Verdicts /\ check.modelSaid
  /\ last' = [age |-> 0, zabbix |-> check.zabbix]
  /\ check' = NoCheck
  /\ caller' = IF caller.waits THEN [waits |-> FALSE, given |-> 0] ELSE caller
  /\ UNCHANGED atZabbix

\* A unit of time.  Both probes end by ReadyTimeout and a call by ZbxLimit; ages from
\* ReadyStale on are alike.
ReadyTick ==
  /\ check # NoCheck => check.elapsed < ReadyTimeout
  /\ \A a \in atZabbix : a < ZbxLimit
  /\ last' = IF last.age = ReadyStale THEN last ELSE [last EXCEPT !.age = @ + 1]
  /\ check' = IF check = NoCheck THEN check ELSE [check EXCEPT !.elapsed = @ + 1]
  /\ atZabbix' = {a + 1 : a \in atZabbix}
  /\ UNCHANGED caller

-----------------------------------------------------------------------------
\* warm: the first check is begun before anyone asks.
ReadyInit ==
  /\ last = Never
  /\ check = NewCheck /\ atZabbix = {0}
  /\ caller = [waits |-> FALSE, given |-> 0]

ReadyNext == Get \/ ZabbixEnds \/ GivesUp \/ ModelSays \/ CheckEnds \/ ReadyTick

ReadySpec == ReadyInit /\ [][ReadyNext]_readyVars

-----------------------------------------------------------------------------
\* "Polling health cannot pile calls onto Zabbix", the calls of checks that gave
\* up counted too, and nobody is given an answer of READY_STALE_MS or more
\* (health.ts, createReadiness).
HealthBounded ==
  /\ Cardinality(atZabbix) <= 1
  /\ caller.given < ReadyStale
=============================================================================
