------------------------------ MODULE WriteBack ------------------------------
(***************************************************************************)
(* Acknowledge/Close against the cache: the handler of                     *)
(* POST /api/actions/acknowledge (server/src/routes/actions.ts), Zabbix,   *)
(* which applies the write at a moment of its own, and every reader that   *)
(* goes through TtlCache meanwhile.                                        *)
(*                                                                         *)
(* STALE_AFTER_WRITE is one prefix here, WritePrefix: the handler drops    *)
(* all of its keys in one synchronous loop with the same hold.  A fetch is *)
(* taken to read Zabbix at the moment it begins, the worst it can do.      *)
(***************************************************************************)
EXTENDS TtlCache

CONSTANTS
  WritePrefix,   \* the keys of STALE_AFTER_WRITE
  WriteHoldMs,   \* WRITE_HOLD_MS
  ApplyDelay,    \* how long after the reply Zabbix may apply the write
  ProblemKey     \* the keys whose value shows problem or acknowledgement state

ASSUME WriteAssumption ==
  /\ WritePrefix \in Prefix /\ WriteHoldMs \in Nat
  /\ ApplyDelay \subseteq Nat /\ ProblemKey \subseteq Key

VARIABLES
  write,     \* the write-back: not yet asked, with Zabbix, failed, or answered
  due,       \* when Zabbix applies it, once it has answered
  applied,   \* Zabbix shows the write
  sight,     \* whether what each flight read shows it
  shown,     \* whether what each stored entry holds shows it
  after,     \* of each caller: what the write had come to when it called
  told       \* ghost: the answer given last, to a caller that asked when

writeVars == <<write, due, applied, sight, shown, after, told>>
allVars == <<vars, writeVars>>

\* What a caller may know when it calls: the handler has sent its reply, and
\* the hold it put on the keys has run out.
Knows == [replied: BOOLEAN, holdOver: BOOLEAN]

NoKey == [key |-> None]

KnownNow(k) == [replied |-> write = "replied", holdOver |-> write = "replied" /\ now >= leash[k]]

Tell(k, shows, asked) == told' = [key |-> k, shows |-> shows, asked |-> asked]

\* Flights that begin read what Zabbix shows.
Look == sight' = [f \in Flight |-> IF flight'[f] # flight[f] THEN applied ELSE sight[f]]

-----------------------------------------------------------------------------
(* cached(), with what the values show.                                    *)

ReadHit(c, k) ==
  /\ Hit(c, k)
  /\ Tell(k, shown[k], KnownNow(k))
  /\ UNCHANGED <<write, due, applied, sight, shown, after>>

ReadStale(c, k) ==
  /\ ServeStale(c, k)
  /\ Look
  /\ Tell(k, shown[k], KnownNow(k))
  /\ UNCHANGED <<write, due, applied, shown, after>>

ReadMiss(c, k) ==
  /\ Miss(c, k)
  /\ Look
  /\ after' = [after EXCEPT ![c] = KnownNow(k)]
  /\ UNCHANGED <<write, due, applied, shown, told>>

Fetched(f, bytes) ==
  /\ FetchOk(f, bytes)
  /\ shown' = IF flight[f].cancelled THEN shown
              ELSE [shown EXCEPT ![flight[f].key] = sight[f]]
  /\ UNCHANGED <<write, due, applied, sight, after, told>>

NotFetched(f) == FetchFail(f) /\ UNCHANGED writeVars

AnsweredFetched(c) ==
  /\ ResumeOk(c)
  /\ Tell(call[c].key, sight[call[c].on], after[c])
  /\ UNCHANGED <<write, due, applied, sight, shown, after>>

AnsweredFailed(c) ==
  /\ ResumeFailed(c)
  /\ told' = IF HasFallback(c)
             THEN [key |-> call[c].key, shows |-> shown[call[c].key], asked |-> after[c]]
             ELSE told
  /\ UNCHANGED <<write, due, applied, sight, shown, after>>

-----------------------------------------------------------------------------
(* The write.                                                              *)

\* zbxWrite('event.acknowledge') is on its way.
SendWrite ==
  /\ write = "none"
  /\ write' = "sent"
  /\ UNCHANGED <<vars, due, applied, sight, shown, after, told>>

\* An acknowledgement is applied before Zabbix answers, a close may be later.
\* The server that accepted the write may also apply it and fail to say so.
Apply ==
  /\ ~applied
  /\ \/ write \in {"sent", "failed"}
     \/ write = "replied" /\ now >= due
  /\ applied' = TRUE
  /\ UNCHANGED <<vars, write, due, sight, shown, after, told>>

\* The reply arrives: drop the keys, hold them, answer.
\*
\* Fault: only a finished read is dropped, not the one under way.
WriteReplied_EntriesOnly ==
  /\ write = "sent"
  /\ \E d \in ApplyDelay :
       /\ d = 0 => applied
       /\ due' = now + d
  /\ mem' = Discard(mem, Match[WritePrefix])
  /\ write' = "replied"
  /\ UNCHANGED <<now, inflight, holds, flight, call, epoch, leash, answer,
                 applied, sight, shown, after, told>>

WriteReplied ==
  /\ write = "sent"
  /\ \E d \in ApplyDelay :
       /\ d = 0 => applied
       /\ due' = now + d
  /\ Invalidate(WritePrefix, WriteHoldMs)
  /\ write' = "replied"
  /\ UNCHANGED <<applied, sight, shown, after, told>>

\* An error or a timeout: logged and thrown, and no key is dropped.
WriteFailed ==
  /\ write = "sent"
  /\ write' = "failed"
  /\ UNCHANGED <<vars, due, applied, sight, shown, after, told>>

\* Time does not pass a close that is due.
Clock ==
  /\ write = "replied" /\ ~applied => now < due
  /\ Tick
  /\ UNCHANGED writeVars

WriteInit ==
  /\ Init
  /\ write = "none" /\ due = 0 /\ applied = FALSE
  /\ sight = [f \in Flight |-> FALSE]
  /\ shown = [k \in Key |-> FALSE]
  /\ after = [c \in Caller |-> [replied |-> FALSE, holdOver |-> FALSE]]
  /\ told = NoKey

WriteNext ==
  \/ \E c \in Caller, k \in Key : ReadHit(c, k) \/ ReadStale(c, k) \/ ReadMiss(c, k)
  \/ \E f \in Flight, bytes \in Size : Fetched(f, bytes)
  \/ \E f \in Flight : NotFetched(f)
  \/ \E c \in Caller : AnsweredFetched(c) \/ AnsweredFailed(c)
  \/ SendWrite \/ Apply \/ WriteReplied \/ WriteFailed
  \/ Clock

WriteSpec == WriteInit /\ [][WriteNext]_allVars

-----------------------------------------------------------------------------
(* Properties.                                                             *)

\* Whoever calls for a key of STALE_AFTER_WRITE once the handler has replied to
\* an acknowledgement sees it, whatever was cached, being fetched or failing at
\* the time: what the operator did is not undone on the next screen.
DroppedKeysShowWrite ==
  told # NoKey /\ told.key \in Match[WritePrefix] /\ told.asked.replied => told.shows

\* "Caches must be dropped, not waited out": the same of every key that shows
\* problem or acknowledgement state (services/actions.ts:82-83).
ProblemKeysShowWrite ==
  told # NoKey /\ told.key \in ProblemKey /\ told.asked.replied => told.shows

\* The hold is there so that a first refetch that still reads the problem as
\* open does not stick: whoever calls once the hold is over, long after Zabbix
\* has applied the close, sees it.
CloseShowsAfterHold ==
  told # NoKey /\ told.key \in Match[WritePrefix] /\ told.asked.holdOver => told.shows

=============================================================================
