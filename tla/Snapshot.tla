------------------------------ MODULE Snapshot ------------------------------
(***************************************************************************)
(* The frozen snapshot the assistant answers from (getSnapshot and         *)
(* buildSnapshot, services/assistantSnapshot.ts), kept by the cache under  *)
(* `chat:snapshot', which has no stale window and no fallback.             *)
(*                                                                         *)
(* What the caches of problems and of sites hold is a number each that     *)
(* grows when a fingerprint would differ: a later read never gives an      *)
(* older one (TtlCache).  A change that is undone counts as another.       *)
(***************************************************************************)
EXTENDS Naturals

CONSTANTS
  Question,      \* calls of getSnapshot that may overlap
  MaxProblems,   \* bound: fingerprints of the problems
  MaxHosts       \* bound: fingerprints of the hosts' states

ASSUME SnapshotAssumption == {MaxProblems, MaxHosts} \subseteq Nat \ {0} /\ "nobody" \notin Question

VARIABLES
  view,       \* what the caches of problems and of sites hold
  kept,       \* the snapshot in the cache
  builder,    \* whose build is in flight, as the cache knows it
  build,      \* the builds that run, each of the question that began it
  ask         \* the questions

snapshotVars == <<view, kept, builder, build, ask>>

Unread == 0
NoSnapshot == [problems |-> Unread, hosts |-> Unread, old |-> FALSE, complete |-> FALSE]
NoBuilder == "nobody"
NewBuild == [runs |-> TRUE, problems |-> Unread, hosts |-> Unread, old |-> FALSE, cancelled |-> FALSE]
NoBuild == [NewBuild EXCEPT !.runs = FALSE]
Unasked == [at |-> "idle", problems |-> Unread, hosts |-> Unread, built |-> FALSE,
            on |-> NoBuilder, given |-> NoSnapshot]

-----------------------------------------------------------------------------
(* The estate, and time.                                                   *)

Changed ==
  /\ \/ view.problems < MaxProblems /\ view' = [view EXCEPT !.problems = @ + 1]
     \/ view.hosts < MaxHosts /\ view' = [view EXCEPT !.hosts = @ + 1]
  /\ UNCHANGED <<kept, builder, build, ask>>

Older(x) == [x EXCEPT !.old = TRUE]

\* HOST_STATE_SETTLE_MS have passed since everything there is was begun.
MinutePasses ==
  /\ kept' = IF kept = NoSnapshot THEN kept ELSE Older(kept)
  /\ build' = [c \in Question |-> IF build[c].runs THEN Older(build[c]) ELSE build[c]]
  /\ ask' = [c \in Question |-> IF ask[c].at = "given" THEN [ask[c] EXCEPT !.given = Older(@)] ELSE ask[c]]
  /\ UNCHANGED <<view, builder>>

\* Its ttl is over, or it is evicted.
Forgotten ==
  /\ kept # NoSnapshot /\ kept' = NoSnapshot
  /\ UNCHANGED <<view, builder, build, ask>>

\* invalidate('chat:snapshot'): the build in flight goes on, for those who wait.
Cancelled(c) == [build[c] EXCEPT !.cancelled = TRUE]

WrittenBack ==
  /\ kept' = NoSnapshot /\ builder' = NoBuilder
  /\ build' = [c \in Question |-> IF c = builder THEN Cancelled(c) ELSE build[c]]
  /\ UNCHANGED <<view, ask>>

-----------------------------------------------------------------------------
(* getSnapshot                                                             *)

AskWhat(c) ==
  /\ ask[c].at \in {"idle", "answered"}
  /\ ask' = [ask EXCEPT ![c] = [Unasked EXCEPT !.at = "reading"]]
  /\ UNCHANGED <<view, kept, builder, build>>

\* The two reads of its Promise.all, either first, or one of them fails.
Compose(c) ==
  /\ ask[c].at = "reading"
  /\ \/ ask[c].problems = Unread /\ ask' = [ask EXCEPT ![c].problems = view.problems]
     \/ ask[c].hosts = Unread /\ ask' = [ask EXCEPT ![c].hosts = view.hosts]
     \/ Unread \in {ask[c].problems, ask[c].hosts} /\ ask' = [ask EXCEPT ![c] = Unasked]
  /\ UNCHANGED <<view, kept, builder, build>>

\* cached(SNAPSHOT_KEY, ...): the one that is kept, or the build in flight, or
\* one of its own.
LookUp(c) ==
  /\ ask[c].at = "reading" /\ Unread \notin {ask[c].problems, ask[c].hosts}
  /\ UNCHANGED <<view, kept>>
  /\ IF kept # NoSnapshot
     THEN /\ ask' = [ask EXCEPT ![c].at = "given", ![c].given = kept]
          /\ UNCHANGED <<builder, build>>
     ELSE IF builder # NoBuilder
     THEN /\ ask' = [ask EXCEPT ![c].at = "waiting", ![c].on = builder]
          /\ UNCHANGED <<builder, build>>
     ELSE /\ ask' = [ask EXCEPT ![c].at = "waiting", ![c].on = c, ![c].built = TRUE]
          /\ builder' = c
          /\ build' = [build EXCEPT ![c] = NewBuild]

\* Whether the snapshot is dropped: the problems are not those of the question,
\* or the hosts are not and it has settled.
\*
\* Fault: only one that has settled.
Outdated_Settled(q) ==
  q.given.old /\ (q.given.problems # q.problems \/ q.given.hosts # q.hosts)

Outdated(q) ==
  q.given.problems # q.problems \/ (q.given.hosts # q.hosts /\ q.given.old)

\* After the await.  One dropped is built again, by this question.
Compare(c) ==
  /\ ask[c].at = "given" /\ UNCHANGED view
  /\ IF ask[c].built \/ ~Outdated(ask[c])
     THEN /\ ask' = [ask EXCEPT ![c].at = "answered"]
          /\ UNCHANGED <<kept, builder, build>>
     ELSE /\ kept' = NoSnapshot
          /\ builder' = c
          /\ build' = [d \in Question |->
                         IF d = c THEN NewBuild ELSE IF d = builder THEN Cancelled(d) ELSE build[d]]
          /\ ask' = [ask EXCEPT ![c].at = "again", ![c].on = c, ![c].built = TRUE]

-----------------------------------------------------------------------------
(* buildSnapshot, and what the cache does when it settles.                 *)

Gather(c) ==
  /\ build[c].runs
  /\ \/ build[c].problems = Unread /\ build' = [build EXCEPT ![c].problems = view.problems]
     \/ build[c].hosts = Unread /\ build' = [build EXCEPT ![c].hosts = view.hosts]
  /\ UNCHANGED <<view, kept, builder, ask>>

WaitOn(c) == {d \in Question : ask[d].at \in {"waiting", "again"} /\ ask[d].on = c}

Settled(c) ==
  /\ build' = [build EXCEPT ![c] = NoBuild]
  /\ builder' = IF builder = c THEN NoBuilder ELSE builder

\* One that still misses its SLA is thrown, so nobody keeps it: those who wait
\* for it answer from it as it is.
Built(c) ==
  /\ build[c].runs /\ Unread \notin {build[c].problems, build[c].hosts}
  /\ Settled(c) /\ UNCHANGED view
  /\ \E complete \in BOOLEAN :
       LET snapshot == [problems |-> build[c].problems, hosts |-> build[c].hosts,
                        old |-> build[c].old, complete |-> complete] IN
       /\ kept' = IF complete /\ ~build[c].cancelled THEN snapshot ELSE kept
       /\ ask' = [d \in Question |->
                    IF d \notin WaitOn(c) THEN ask[d]
                    ELSE [ask[d] EXCEPT !.given = snapshot, !.on = NoBuilder,
                            !.at = IF complete /\ @ = "waiting" THEN "given" ELSE "answered"]]

NotBuilt(c) ==
  /\ build[c].runs /\ Settled(c)
  /\ ask' = [d \in Question |-> IF d \in WaitOn(c) THEN Unasked ELSE ask[d]]
  /\ UNCHANGED <<view, kept>>

-----------------------------------------------------------------------------
SnapshotInit ==
  /\ view = [problems |-> 1, hosts |-> 1]
  /\ kept = NoSnapshot /\ builder = NoBuilder
  /\ build = [c \in Question |-> NoBuild]
  /\ ask = [c \in Question |-> Unasked]

SnapshotNext ==
  \/ Changed \/ MinutePasses \/ Forgotten \/ WrittenBack
  \/ \E c \in Question :
       AskWhat(c) \/ Compose(c) \/ LookUp(c) \/ Compare(c) \/ Gather(c) \/ Built(c) \/ NotBuilt(c)

SnapshotSpec == SnapshotInit /\ [][SnapshotNext]_snapshotVars

-----------------------------------------------------------------------------
\* "Not stale where it matters": no question is answered from a snapshot older
\* than what it saw itself of the problems, or, once that is a minute old, of
\* the hosts, whoever built it and whatever others dropped or began meanwhile
\* (assistantSnapshot.ts:443-445).  Excepted is one that somebody else built
\* and that still misses its SLA, which is answered from without a look.
SnapshotCurrent ==
  \A c \in Question :
    ask[c].at = "answered" /\ (ask[c].given.complete \/ ask[c].built) =>
      /\ ask[c].given.problems >= ask[c].problems
      /\ ask[c].given.hosts >= ask[c].hosts \/ ~ask[c].given.old
=============================================================================
