--------------------------- MODULE LiveStream_proofs ---------------------------
(***************************************************************************)
(* The live problem list is right for any number of screens, any limits    *)
(* and any length of a tick: what the screens show, what the hub remembers *)
(* and what its reads found always agree, no read from before a write has  *)
(* the last word, and the ticker is never late.                            *)
(***************************************************************************)
EXTENDS LiveStream, SequenceLemmas, TLAPS

-----------------------------------------------------------------------------
(* The strengthenings.                                                     *)

\* A screen that counts as up to date is, and before the first frame none
\* shows anything: what a drain relies on to send or not to send.
CurrentShowLatest ==
  /\ \A c \in Clients : screens[c].current => screens[c].ended \/ screens[c].shown = latest
  /\ latest = Nothing => \A c \in Clients : screens[c].shown = Nothing

\* A read that was applied left a frame.
SeenLeftFrame == latest = Nothing => seen = Nothing

\* What has every write the BFF has handled, or is no list at all.
UpToDate(x) == x \in {Pending, Error} \/ x.w >= written

\* Nothing stored or yet to be stored is older than the last handled write.
CopyUpToDate ==
  /\ world.w >= written
  /\ copy # Nothing => copy.list.w >= written

\* Every out-of-date read comes too late ...
OnlyLateAreStale == \A j \in 1..Len(reads) : UpToDate(reads[j].got) \/ reads[j].late

\* ... and what was found last is up to date, or a read that will be applied
\* makes every out-of-date one late.
WriteIsSeen == seen # Nothing /\ UpToDate(seen) /\ OnlyLateAreStale

WriteIsOnItsWay ==
  \E i \in 1..Len(reads) :
    ~reads[i].late /\ \A j \in i..Len(reads) : UpToDate(reads[j].got)

WritesReachScreens ==
  \A c \in Clients : screens[c].since < written => WriteIsSeen \/ WriteIsOnItsWay

\* At most one read of the ticker's is under way, and if one is late then what
\* was found last was sent.
TickerReads ==
  /\ \A i, j \in 1..Len(reads) : ~reads[i].force /\ ~reads[j].force => i = j
  /\ \A i \in 1..Len(reads) :
       ~reads[i].force /\ reads[i].late => sent = Nothing \/ sent.list = seen

\* A change held back leaves a tick's time before its limit, less what has
\* passed of the tick.
HeldBackInTime ==
  sent # Nothing /\ sent.list # seen /\ ~Ticking => sent.age + TickMs <= MaxQuietMs + phase

ScreenInv == TypeOK /\ CurrentShowLatest /\ UnblockedShowLatest

HubInv == TypeOK /\ SeenLeftFrame /\ FrameTracksReads

WriteInv == CopyUpToDate /\ WritesReachScreens

TickerInv == TickerReads /\ HeldBackInTime

-----------------------------------------------------------------------------
(* What the operators on screens and reads do.                             *)

LEMMA NoConfusion ==
  /\ Nothing # Error /\ Nothing # Pending /\ Error # Pending
  /\ \A l \in List : l # Nothing /\ l # Error /\ l # Pending
  /\ \A A, B : Nothing \notin [list: A, age: B]
<1>1. DOMAIN Nothing = {"none"} /\ DOMAIN Error = {"error"} /\ DOMAIN Pending = {"pending"}
  BY DEF Nothing, Error, Pending
<1>2. "none" # "error" /\ "none" # "pending" /\ "error" # "pending"
  OBVIOUS
<1>3. \A l \in List : DOMAIN l = {"w", "o", "n"}
  BY DEF List
<1>4. \A A, B : \A x \in [list: A, age: B] : DOMAIN x = {"list", "age"}
  OBVIOUS
<1> QED BY <1>1, <1>2, <1>3, <1>4

LEMMA OlderIsInRange ==
  ASSUME NEW cap \in Nat, NEW age \in 0..cap
  PROVE  Older(age, cap) \in 0..cap
BY DEF Older

\* Screens as deliver() and broadcast() find them.
ScreensType(cs) == DOMAIN cs \subseteq Screen /\ \A c \in DOMAIN cs : cs[c] \in ScreenRecord

\* A write only decides who has room, and who was spoken to.
LEMMA WriteEffect ==
  ASSUME NEW cs, ScreensType(cs), NEW D, NEW full
  PROVE  LET out == Write(cs, D, full)
         IN  /\ ScreensType(out)
             /\ DOMAIN out = DOMAIN cs
             /\ \A c \in DOMAIN cs :
                  /\ out[c].ended = cs[c].ended
                  /\ out[c].current = cs[c].current
                  /\ out[c].shown = cs[c].shown
                  /\ out[c].since = cs[c].since
                  /\ c \notin D \/ cs[c].ended => out[c] = cs[c]
                  /\ c \in D /\ ~cs[c].ended => out[c].quiet = 0
<1> DEFINE out == Write(cs, D, full)
<1>1. DOMAIN out = DOMAIN cs
  BY DEF Write
<1>2. ASSUME NEW c \in DOMAIN cs
      PROVE  /\ out[c] \in ScreenRecord
             /\ out[c].ended = cs[c].ended
             /\ out[c].current = cs[c].current
             /\ out[c].shown = cs[c].shown
             /\ out[c].since = cs[c].since
             /\ c \notin D \/ cs[c].ended => out[c] = cs[c]
             /\ c \in D /\ ~cs[c].ended => out[c].quiet = 0
  <2>1. cs[c] \in ScreenRecord /\ 0 \in 0..KeepaliveMs /\ (c \in full) \in BOOLEAN
    BY <1>2, StreamAssumption DEF ScreensType, StreamAssumption
  <2>2. out[c] = IF c \in D /\ ~cs[c].ended
                 THEN [cs[c] EXCEPT !.quiet = 0, !.blocked = c \in full] ELSE cs[c]
    BY <1>2 DEF Write
  <2> HIDE DEF out
  <2> QED BY <2>1, <2>2 DEF ScreenRecord
<1> HIDE DEF out
<1>3. ScreensType(out)
  BY <1>1, <1>2 DEF ScreensType
<1> QED BY <1>1, <1>2, <1>3 DEF out

\* A delivered frame shows, unless the response has ended.
LEMMA DeliverEffect ==
  ASSUME NEW cs, ScreensType(cs), NEW D, NEW full,
         NEW frame \in List \cup {Nothing, Error}
  PROVE  LET out == Deliver(cs, frame, D, full)
         IN  /\ ScreensType(out)
             /\ DOMAIN out = DOMAIN cs
             /\ \A c \in DOMAIN cs :
                  /\ out[c].ended = cs[c].ended
                  /\ out[c].since = cs[c].since
                  /\ c \notin D => out[c] = cs[c]
                  /\ c \in D => out[c].current
                  /\ c \in D /\ ~cs[c].ended => out[c].shown = frame
<1> DEFINE mid == [c \in DOMAIN cs |->
                     IF c \in D THEN [cs[c] EXCEPT !.current = TRUE,
                                                   !.shown = IF cs[c].ended THEN @ ELSE frame]
                     ELSE cs[c]]
           out == Deliver(cs, frame, D, full)
<1>1. DOMAIN mid = DOMAIN cs
  OBVIOUS
<1>2. ASSUME NEW c \in DOMAIN cs
      PROVE  /\ mid[c] \in ScreenRecord
             /\ mid[c].ended = cs[c].ended
             /\ mid[c].since = cs[c].since
             /\ c \notin D => mid[c] = cs[c]
             /\ c \in D => mid[c].current
             /\ c \in D /\ ~cs[c].ended => mid[c].shown = frame
  BY <1>2 DEF ScreensType, ScreenRecord
<1>3. out = Write(mid, D, full)
  BY DEF Deliver
<1> HIDE DEF mid, out
<1>4. ScreensType(mid)
  BY <1>1, <1>2 DEF ScreensType
<1>5. /\ ScreensType(out)
      /\ DOMAIN out = DOMAIN mid
      /\ \A c \in DOMAIN mid :
           /\ out[c].ended = mid[c].ended
           /\ out[c].current = mid[c].current
           /\ out[c].shown = mid[c].shown
           /\ out[c].since = mid[c].since
           /\ c \notin D => out[c] = mid[c]
  BY <1>3, <1>4, WriteEffect
<1> QED BY <1>1, <1>2, <1>5 DEF out

LEMMA AppendEffect ==
  ASSUME NEW s \in Seq(ReadRecord), NEW r \in ReadRecord
  PROVE  /\ Append(s, r) \in Seq(ReadRecord)
         /\ Len(Append(s, r)) = Len(s) + 1
         /\ Len(s) \in Nat
         /\ \A j \in 1..Len(s) : Append(s, r)[j] = s[j] /\ Append(s, r)[j] \in ReadRecord
         /\ Append(s, r)[Len(s) + 1] = r
BY AppendProperties

\* The read of index i goes, and the earlier ones are late.
LEMMA AppliedEffect ==
  ASSUME reads \in Seq(ReadRecord), NEW i \in 1..Len(reads)
  PROVE  /\ Applied(i) \in Seq(ReadRecord)
         /\ Len(Applied(i)) = Len(reads) - 1
         /\ \A j \in 1..(Len(reads) - 1) :
              /\ j < i => /\ Applied(i)[j].late
                          /\ Applied(i)[j].got = reads[j].got
                          /\ Applied(i)[j].force = reads[j].force
              /\ j >= i => Applied(i)[j] = reads[j + 1]
<1> DEFINE s == [j \in 1..Len(reads) |-> IF j < i THEN [reads[j] EXCEPT !.late = TRUE]
                                         ELSE reads[j]]
<1>1. Len(reads) \in Nat /\ \A j \in 1..Len(reads) : reads[j] \in ReadRecord
  OBVIOUS
<1>2. \A j \in 1..Len(reads) : s[j] \in ReadRecord
  BY <1>1 DEF ReadRecord
<1>3. s \in Seq(ReadRecord) /\ Len(s) = Len(reads)
  BY <1>1, <1>2
<1>4. /\ RemoveAt(s, i) \in Seq(ReadRecord)
      /\ Len(RemoveAt(s, i)) = Len(s) - 1
      /\ \A j \in 1..(Len(s) - 1) : RemoveAt(s, i)[j] = IF j < i THEN s[j] ELSE s[j + 1]
  BY <1>3, RemoveAtProperties
<1>5. Applied(i) = RemoveAt(s, i)
  BY DEF Applied
<1>6. \A j \in 1..(Len(reads) - 1) :
        /\ j < i => s[j].late /\ s[j].got = reads[j].got /\ s[j].force = reads[j].force
        /\ j >= i => s[j + 1] = reads[j + 1]
  BY <1>1 DEF ReadRecord
<1> HIDE DEF s
<1> QED BY <1>1, <1>3, <1>4, <1>5, <1>6

-----------------------------------------------------------------------------
(* Type correctness.                                                       *)

LEMMA TypeFacts ==
  ASSUME TypeOK
  PROVE  /\ ScreensType(screens)
         /\ reads \in Seq(ReadRecord) /\ Len(reads) \in Nat
         /\ \A i \in 1..Len(reads) : reads[i] \in ReadRecord
BY DEF TypeOK, ScreensType, Clients

LEMMA NewReadType ==
  ASSUME NEW force \in BOOLEAN, NEW hit \in BOOLEAN, hit => copy.list \in List
  PROVE  NewRead(force, hit) \in ReadRecord
BY DEF NewRead, ReadRecord

\* A broadcast changes the frame and who shows it.
LEMMA BroadcastEffect ==
  ASSUME ScreensType(screens), NEW frame \in List \cup {Nothing, Error}, Broadcast(frame)
  PROVE  /\ ScreensType(screens')
         /\ DOMAIN screens' = DOMAIN screens
         /\ latest' = frame
         /\ \A c \in DOMAIN screens :
              /\ screens'[c].ended = screens[c].ended
              /\ screens'[c].since = screens[c].since
              /\ screens'[c].blocked \/ screens'[c].ended \/ screens'[c].shown = frame
              /\ screens'[c].current => screens'[c].ended \/ screens'[c].shown = frame
<1> DEFINE cs == [c \in Clients |-> [screens[c] EXCEPT !.current = FALSE]]
           D == Unblocked(screens)
<1>1. PICK full : screens' = Deliver(cs, frame, D, full)
  BY DEF Broadcast
<1>2. /\ DOMAIN cs = DOMAIN screens
      /\ \A c \in DOMAIN screens :
           /\ cs[c] \in ScreenRecord
           /\ ~cs[c].current
           /\ cs[c].ended = screens[c].ended
           /\ cs[c].since = screens[c].since
           /\ cs[c].blocked = screens[c].blocked
  BY DEF Clients, ScreensType, ScreenRecord
<1> HIDE DEF cs
<1>3. ScreensType(cs)
  BY <1>2 DEF ScreensType
<1>4. /\ ScreensType(screens')
      /\ DOMAIN screens' = DOMAIN cs
      /\ \A c \in DOMAIN cs :
           /\ screens'[c].ended = cs[c].ended
           /\ screens'[c].since = cs[c].since
           /\ c \notin D => screens'[c] = cs[c]
           /\ c \in D /\ ~cs[c].ended => screens'[c].shown = frame
  BY <1>1, <1>3, DeliverEffect
<1>5. \A c \in DOMAIN screens : c \in D \/ screens[c].blocked
  BY DEF Unblocked
<1> QED BY <1>2, <1>4, <1>5 DEF Broadcast

\* Time leaves what was sent and what is cached alone but for its age.
LEMMA TimeEffect ==
  ASSUME TypeOK, TimePasses
  PROVE  /\ sent' \in {Nothing} \cup [list: List, age: 0..AgeCap]
         /\ copy' \in {Nothing} \cup [list: List, age: 0..CacheTtl]
         /\ sent' = Nothing <=> sent = Nothing
         /\ copy' = Nothing <=> copy = Nothing
         /\ sent # Nothing => sent'.list = sent.list /\ sent'.age = Older(sent.age, AgeCap)
         /\ copy # Nothing => copy'.list = copy.list
<1>1. AgeCap \in Nat /\ CacheTtl \in Nat
  BY StreamAssumption DEF StreamAssumption, AgeCap
<1>2. ASSUME sent # Nothing
      PROVE  /\ sent' \in [list: List, age: 0..AgeCap]
             /\ sent'.list = sent.list /\ sent'.age = Older(sent.age, AgeCap)
  <2>1. sent \in [list: List, age: 0..AgeCap]
    BY <1>2 DEF TypeOK
  <2>2. Older(sent.age, AgeCap) \in 0..AgeCap
    BY <1>1, <2>1, OlderIsInRange
  <2> QED BY <1>2, <2>1, <2>2 DEF TimePasses
<1>3. ASSUME copy # Nothing
      PROVE  copy' \in [list: List, age: 0..CacheTtl] /\ copy'.list = copy.list
  <2>1. copy \in [list: List, age: 0..CacheTtl]
    BY <1>3 DEF TypeOK
  <2>2. Older(copy.age, CacheTtl) \in 0..CacheTtl
    BY <1>1, <2>1, OlderIsInRange
  <2> QED BY <1>3, <2>1, <2>2 DEF TimePasses
<1>4. copy = Nothing => copy' = Nothing
  BY DEF TimePasses
<1>5. sent = Nothing => sent' = Nothing
  BY DEF TimePasses
<1> QED BY <1>2, <1>3, <1>4, <1>5, NoConfusion

\* Ageing only counts how long a screen was not spoken to.
LEMMA AgedEffect ==
  ASSUME ScreensType(screens)
  PROVE  /\ ScreensType(Aged(screens))
         /\ DOMAIN Aged(screens) = DOMAIN screens
         /\ \A c \in DOMAIN screens :
              Aged(screens)[c] = [screens[c] EXCEPT !.quiet = Older(@, KeepaliveMs)]
<1>1. DOMAIN Aged(screens) = DOMAIN screens
  BY DEF Aged
<1>2. ASSUME NEW c \in DOMAIN screens
      PROVE  /\ Aged(screens)[c] = [screens[c] EXCEPT !.quiet = Older(@, KeepaliveMs)]
             /\ Aged(screens)[c] \in ScreenRecord
  <2>1. screens[c] \in ScreenRecord
    BY <1>2 DEF ScreensType
  <2>2. KeepaliveMs \in Nat /\ screens[c].quiet \in 0..KeepaliveMs
    BY <2>1, StreamAssumption DEF StreamAssumption, ScreenRecord
  <2>3. Older(screens[c].quiet, KeepaliveMs) \in 0..KeepaliveMs
    BY <2>2, OlderIsInRange
  <2>4. Aged(screens)[c] = [screens[c] EXCEPT !.quiet = Older(@, KeepaliveMs)]
    BY <1>2 DEF Aged
  <2> QED BY <2>1, <2>3, <2>4 DEF ScreenRecord
<1> QED BY <1>1, <1>2 DEF ScreensType

\* A newcomer is given a record of its own, and nobody else's changes.
LEMMA JoinEffect ==
  ASSUME TypeOK, NEW c \in Screen, c \notin Clients
  PROVE  /\ ScreensType(Join(c))
         /\ DOMAIN Join(c) = Clients \cup {c}
         /\ Join(c)[c] = NewScreen
         /\ \A x \in Clients : Join(c)[x] = screens[x]
<1>1. NewScreen \in ScreenRecord
  BY StreamAssumption DEF StreamAssumption, NewScreen, ScreenRecord, TypeOK
<1> QED BY <1>1, TypeFacts DEF Join, ScreensType, Clients

\* The type of what each action changes; the rest keeps its own.
LEMMA TypeStep == TypeOK /\ [Next]_vars => TypeOK'
<1> SUFFICES ASSUME TypeOK, [Next]_vars PROVE TypeOK'
  OBVIOUS
<1>a. /\ ScreensType(screens) /\ DOMAIN screens \subseteq Screen
      /\ reads \in Seq(ReadRecord) /\ Len(reads) \in Nat
      /\ \A i \in 1..Len(reads) : reads[i] \in ReadRecord
  BY TypeFacts DEF ScreensType
<1>b. /\ {CacheTtl, AgeCap, MaxW, MaxO, MaxN, MaxFailures} \subseteq Nat
      /\ TickMs \in Nat \ {0}
  BY StreamAssumption DEF StreamAssumption, AgeCap
<1>1. ASSUME NEW i \in 1..Len(reads), Sample(i) PROVE TypeOK'
  <2>1. reads' \in Seq(ReadRecord)
    <3>1. [reads[i] EXCEPT !.got = world] \in ReadRecord
      BY <1>a DEF ReadRecord, TypeOK
    <3> QED BY <1>1, <1>a, <3>1 DEF Sample
  <2>2. copy' \in {Nothing} \cup [list: List, age: 0..CacheTtl]
    BY <1>1, <1>b DEF Sample, TypeOK
  <2> QED BY <1>1, <2>1, <2>2 DEF Sample, TypeOK, Clients
<1>2. ASSUME NEW i \in 1..Len(reads), Fail(i) PROVE TypeOK'
  <2>1. reads' \in Seq(ReadRecord)
    <3>1. [reads[i] EXCEPT !.got = Error] \in ReadRecord
      BY <1>a DEF ReadRecord
    <3> QED BY <1>2, <1>a, <3>1 DEF Fail
  <2>2. failures' \in 0..MaxFailures
    BY <1>2, <1>b DEF Fail, TypeOK
  <2> QED BY <1>2, <2>1, <2>2 DEF Fail, TypeOK, Clients
<1>3. ASSUME NEW i \in 1..Len(reads), Land(i) PROVE TypeOK'
  <2>1. reads' \in Seq(ReadRecord)
    BY <1>3, <1>a, AppliedEffect, RemoveAtProperties DEF Land
  <2>2. reads[i].got \in List \cup {Error}
    BY <1>3, <1>a DEF Land, ReadRecord
  <2>3. seen' \in List \cup {Nothing, Error}
    BY <1>3, <2>2 DEF Land, TypeOK
  <2>4. sent' \in {Nothing} \cup [list: List, age: 0..AgeCap]
    BY <1>3, <1>b, <2>2 DEF Land, TypeOK, Remembered
  <2>5. ScreensType(screens') /\ latest' \in List \cup {Nothing, Error}
    <3>1. CASE UNCHANGED <<screens, latest>>
      BY <1>a, <3>1 DEF TypeOK, ScreensType
    <3>2. CASE Broadcast(reads[i].got)
      BY <1>a, <2>2, <3>2, BroadcastEffect
    <3> QED BY <1>3, <3>1, <3>2 DEF Land
  <2> QED BY <1>3, <2>1, <2>3, <2>4, <2>5 DEF Land, TypeOK, ScreensType, Clients
<1>4. ASSUME Wait PROVE TypeOK'
  <2>1. ScreensType(screens')
    BY <1>4, <1>a, AgedEffect DEF Wait
  <2>2. phase' \in 0..(TickMs - 1)
    BY <1>4, <1>b DEF Wait, TypeOK
  <2> QED BY <1>4, <2>1, <2>2, TimeEffect DEF Wait, TypeOK, ScreensType, Clients
<1>5. ASSUME Tick PROVE TypeOK'
  <2>1. ScreensType(screens')
    <3>1. PICK full : screens' = Write(Aged(screens), Pinged, full)
      BY <1>5 DEF Tick
    <3> QED BY <1>a, <3>1, AgedEffect, WriteEffect
  <2>2. phase' \in 0..(TickMs - 1)
    BY <1>5, <1>b DEF Tick
  <2>3. reads' \in Seq(ReadRecord)
    <3>1. NewRead(FALSE, copy # Nothing /\ copy'.age < CacheTtl) \in ReadRecord
      BY NewReadType DEF TypeOK
    <3> QED BY <1>5, <1>a, <3>1, AppendEffect DEF Tick
  <2> QED BY <1>5, <2>1, <2>2, <2>3, TimeEffect DEF Tick, TypeOK, ScreensType, Clients
<1>6. ASSUME NEW c \in Screen, Subscribe(c) PROVE TypeOK'
  <2>1. ScreensType(Join(c))
    BY <1>6, JoinEffect DEF Subscribe
  <2>2. ScreensType(screens')
    BY <1>6, <2>1, DeliverEffect DEF Subscribe, TypeOK
  <2>3. phase' \in 0..(TickMs - 1)
    BY <1>6, <1>b DEF Subscribe, TypeOK
  <2>4. reads' \in Seq(ReadRecord)
    <3>1. NewRead(FALSE, CacheHit) \in ReadRecord
      BY NewReadType DEF TypeOK, CacheHit
    <3> QED BY <1>6, <1>a, <3>1, AppendEffect DEF Subscribe, StartRead
  <2> QED BY <1>6, <2>2, <2>3, <2>4 DEF Subscribe, TypeOK, ScreensType, Clients
<1>7. ASSUME NEW c \in Screen, Leave(c) PROVE TypeOK'
  <2>1. ScreensType(screens')
    BY <1>7, <1>a DEF Leave, ScreensType, Clients
  <2>2. phase' \in 0..(TickMs - 1)
    BY <1>7, <1>b DEF Leave, TypeOK
  <2> QED BY <1>7, <2>1, <2>2 DEF Leave, TypeOK, ScreensType, Clients
<1>8. ASSUME NEW c \in Screen, EndStreamOf(c) PROVE TypeOK'
  <2>1. ScreensType(screens')
    BY <1>8, <1>a DEF EndStreamOf, ScreensType, Clients, ScreenRecord
  <2> QED BY <1>8, <2>1 DEF EndStreamOf, TypeOK, ScreensType, Clients
<1>9. ASSUME NEW c \in Screen, Drain(c) PROVE TypeOK'
  <2> DEFINE free == [screens EXCEPT ![c].blocked = FALSE]
  <2>1. ScreensType(free)
    BY <1>9, <1>a DEF Drain, ScreensType, Clients, ScreenRecord
  <2>2. \/ screens' = free
        \/ \E full \in SUBSET {c} : screens' = Deliver(free, latest, {c}, full)
    BY <1>9 DEF Drain
  <2>3. latest \in List \cup {Nothing, Error}
    BY DEF TypeOK
  <2> HIDE DEF free
  <2>4. ScreensType(screens')
    BY <2>1, <2>2, <2>3, DeliverEffect
  <2> QED BY <1>9, <2>4 DEF Drain, TypeOK, ScreensType, Clients
<1>10. ASSUME Change PROVE TypeOK'
  <2>1. world' \in List
    <3>1. world \in List /\ world.w \in 0..MaxW /\ world.o \in 0..MaxO /\ world.n \in 0..MaxN
      BY DEF TypeOK, List
    <3>2. /\ world.o < MaxO => world.o + 1 \in 0..MaxO
          /\ world.n < MaxN => world.n + 1 \in 0..MaxN
          /\ world.w < MaxW => world.w + 1 \in 0..MaxW
      BY <1>b, <3>1
    <3> QED BY <1>10, <3>1, <3>2 DEF Change, List
  <2> QED BY <1>10, <2>1 DEF Change, TypeOK, Clients
<1>11. ASSUME WriteReturns PROVE TypeOK'
  <2> DEFINE cancelled == [i \in 1..Len(reads) |-> [reads[i] EXCEPT !.stores = FALSE]]
  <2>1. \A i \in 1..Len(reads) : cancelled[i] \in ReadRecord
    BY <1>a DEF ReadRecord
  <2>2. cancelled \in Seq(ReadRecord)
    BY <1>a, <2>1
  <2> HIDE DEF cancelled
  <2>3. NewRead(TRUE, FALSE) \in ReadRecord
    BY NewReadType
  <2>4. reads' \in Seq(ReadRecord)
    BY <1>11, <2>2, <2>3, AppendEffect DEF WriteReturns, cancelled
  <2> QED BY <1>11, <2>4 DEF WriteReturns, TypeOK, List, Clients
<1>12. ASSUME OtherReader PROVE TypeOK'
  <2>1. copy' \in [list: List, age: 0..CacheTtl]
    BY <1>12, <1>b DEF OtherReader, TypeOK
  <2> QED BY <1>12, <2>1 DEF OtherReader, TypeOK, Clients
<1>13. CASE UNCHANGED vars
  BY <1>13 DEF vars, TypeOK, Clients
<1> QED
  BY <1>1, <1>2, <1>3, <1>4, <1>5, <1>6, <1>7, <1>8, <1>9, <1>10, <1>11, <1>12, <1>13
  DEF Next

\* At the start nobody listens.
LEMMA InitType == Init => TypeOK
BY StreamAssumption, EmptySeq DEF StreamAssumption, Init, TypeOK, List, AgeCap, Clients

\* Whatever screens, reads, time and Zabbix do, the hub's state is of the
\* shape stream.ts declares.
THEOREM TypeCorrect == Spec => []TypeOK
BY InitType, TypeStep, PTL DEF Spec

-----------------------------------------------------------------------------
(* What the screens show.                                                  *)

\* A step that leaves the frame alone, and of each screen what it shows, and
\* makes room or ends no screen again.
LEMMA ShownStays ==
  ASSUME CurrentShowLatest, UnblockedShowLatest, latest' = latest,
         DOMAIN screens' \subseteq DOMAIN screens,
         \A c \in DOMAIN screens' :
           /\ screens'[c].shown = screens[c].shown
           /\ screens[c].ended => screens'[c].ended
           /\ screens'[c].current => screens[c].current
           /\ screens[c].blocked => screens'[c].blocked \/ screens'[c].ended
  PROVE  CurrentShowLatest' /\ UnblockedShowLatest'
BY DEF CurrentShowLatest, UnblockedShowLatest, Clients

LEMMA ScreenStep == ScreenInv /\ [Next]_vars => ScreenInv'
<1> SUFFICES ASSUME TypeOK, CurrentShowLatest, UnblockedShowLatest, [Next]_vars
             PROVE  CurrentShowLatest' /\ UnblockedShowLatest'
  BY TypeStep DEF ScreenInv
<1>a. ScreensType(screens) /\ latest \in List \cup {Nothing, Error}
  BY TypeFacts DEF TypeOK
<1>1. ASSUME UNCHANGED <<screens, latest>> PROVE CurrentShowLatest' /\ UnblockedShowLatest'
  BY <1>1, ShownStays
<1>2. ASSUME NEW i \in 1..Len(reads), Land(i) PROVE CurrentShowLatest' /\ UnblockedShowLatest'
  <2>1. CASE Broadcast(reads[i].got)
    <3>1. reads[i].got \in List \cup {Error}
      BY <1>2, TypeFacts DEF Land, ReadRecord
    <3>2. latest' # Nothing
      BY <2>1, <3>1, NoConfusion DEF Broadcast
    <3>3. /\ DOMAIN screens' = DOMAIN screens
          /\ latest' = reads[i].got
          /\ \A c \in DOMAIN screens :
               /\ screens'[c].blocked \/ screens'[c].ended \/ screens'[c].shown = reads[i].got
               /\ screens'[c].current
                    => screens'[c].ended \/ screens'[c].shown = reads[i].got
      BY <1>a, <2>1, <3>1, BroadcastEffect
    <3> QED BY <3>2, <3>3 DEF CurrentShowLatest, UnblockedShowLatest, Clients
  <2> QED BY <1>1, <1>2, <2>1 DEF Land
<1>3. ASSUME NEW cs, cs = Aged(screens), NEW D, NEW full, latest' = latest,
             screens' = cs \/ screens' = Write(cs, D, full),
             D \subseteq Unblocked(screens)
      PROVE  CurrentShowLatest' /\ UnblockedShowLatest'
  <2>1. /\ ScreensType(cs) /\ DOMAIN cs = DOMAIN screens
        /\ \A c \in DOMAIN screens : cs[c] = [screens[c] EXCEPT !.quiet = Older(@, KeepaliveMs)]
    BY <1>a, <1>3, AgedEffect
  <2>2. \A c \in DOMAIN screens :
          /\ cs[c].shown = screens[c].shown
          /\ cs[c].ended = screens[c].ended
          /\ cs[c].current = screens[c].current
          /\ cs[c].blocked = screens[c].blocked
    BY <1>a, <2>1 DEF ScreensType, ScreenRecord
  <2>3. CASE screens' = cs
    BY <1>3, <2>1, <2>2, <2>3, ShownStays
  <2>4. CASE screens' = Write(cs, D, full)
    <3>1. /\ DOMAIN screens' = DOMAIN cs
          /\ \A c \in DOMAIN cs :
               /\ screens'[c].ended = cs[c].ended
               /\ screens'[c].current = cs[c].current
               /\ screens'[c].shown = cs[c].shown
               /\ c \notin D => screens'[c] = cs[c]
      BY <2>1, <2>4, WriteEffect
    <3>2. \A c \in DOMAIN screens : screens[c].blocked => c \notin D
      BY <1>3 DEF Unblocked
    <3> QED BY <1>3, <2>1, <2>2, <3>1, <3>2, ShownStays
  <2> QED BY <1>3, <2>3, <2>4
<1>4. ASSUME Wait PROVE CurrentShowLatest' /\ UnblockedShowLatest'
  BY <1>3, <1>4 DEF Wait
<1>5. ASSUME Tick PROVE CurrentShowLatest' /\ UnblockedShowLatest'
  <2>1. Pinged \subseteq Unblocked(screens)
    BY DEF Pinged
  <2> QED BY <1>3, <1>5, <2>1 DEF Tick
<1>6. ASSUME NEW c \in Screen, Subscribe(c) PROVE CurrentShowLatest' /\ UnblockedShowLatest'
  <2>1. /\ ScreensType(Join(c)) /\ DOMAIN Join(c) = DOMAIN screens \cup {c}
        /\ Join(c)[c] = NewScreen
        /\ \A x \in DOMAIN screens : Join(c)[x] = screens[x]
    BY <1>6, JoinEffect DEF Subscribe, Clients
  <2>2. latest' = latest
    BY <1>6 DEF Subscribe
  <2>3. CASE latest = Nothing
    <3>1. screens' = Join(c)
      BY <1>6, <2>3 DEF Subscribe
    <3>2. \A x \in DOMAIN screens' : screens'[x].shown = Nothing
      BY <2>1, <2>3, <3>1 DEF CurrentShowLatest, Clients, NewScreen
    <3> QED BY <2>2, <2>3, <3>2 DEF CurrentShowLatest, UnblockedShowLatest, Clients
  <2>4. CASE latest # Nothing
    <3>1. PICK full : screens' = Deliver(Join(c), latest, {c}, full)
      BY <1>6, <2>4 DEF Subscribe
    <3>2. /\ DOMAIN screens' = DOMAIN Join(c)
          /\ \A x \in DOMAIN Join(c) :
               /\ screens'[x].ended = Join(c)[x].ended
               /\ x \notin {c} => screens'[x] = Join(c)[x]
               /\ x \in {c} /\ ~Join(c)[x].ended => screens'[x].shown = latest
      BY <1>a, <2>1, <3>1, DeliverEffect
    <3>3. screens'[c].shown = latest
      BY <2>1, <3>2 DEF NewScreen
    <3>4. \A x \in DOMAIN screens' : x = c \/ (x \in DOMAIN screens /\ screens'[x] = screens[x])
      BY <2>1, <3>2
    <3> QED BY <2>2, <2>4, <3>3, <3>4 DEF CurrentShowLatest, UnblockedShowLatest, Clients
  <2> QED BY <2>3, <2>4
<1>7. ASSUME NEW c \in Screen, Leave(c) PROVE CurrentShowLatest' /\ UnblockedShowLatest'
  <2>1. DOMAIN screens' = Clients \ {c} /\ \A x \in DOMAIN screens' : screens'[x] = screens[x]
    BY <1>7 DEF Leave
  <2>2. CASE Clients = {c}
    BY <2>1, <2>2 DEF CurrentShowLatest, UnblockedShowLatest, Clients
  <2>3. CASE Clients # {c}
    BY <1>7, <2>1, <2>3, ShownStays DEF Leave, Clients
  <2> QED BY <2>2, <2>3
<1>8. ASSUME NEW c \in Screen, EndStreamOf(c) PROVE CurrentShowLatest' /\ UnblockedShowLatest'
  <2>1. /\ DOMAIN screens' = DOMAIN screens /\ latest' = latest
        /\ screens' = [screens EXCEPT ![c].ended = TRUE]
    BY <1>8 DEF EndStreamOf
  <2>2. \A x \in DOMAIN screens :
          /\ screens'[x].shown = screens[x].shown
          /\ screens'[x].current = screens[x].current
          /\ screens'[x].blocked = screens[x].blocked
          /\ screens[x].ended => screens'[x].ended
    BY <1>a, <2>1 DEF ScreensType, ScreenRecord
  <2> QED BY <2>1, <2>2, ShownStays
<1>9. ASSUME NEW c \in Screen, Drain(c) PROVE CurrentShowLatest' /\ UnblockedShowLatest'
  <2> DEFINE free == [screens EXCEPT ![c].blocked = FALSE]
  <2>1. c \in DOMAIN screens /\ latest' = latest
    BY <1>9 DEF Drain, Clients
  <2>2. /\ DOMAIN free = DOMAIN screens
        /\ \A x \in DOMAIN screens :
             /\ free[x] \in ScreenRecord
             /\ free[x].shown = screens[x].shown
             /\ free[x].current = screens[x].current
             /\ free[x].ended = screens[x].ended
             /\ x # c => free[x] = screens[x]
    BY <1>a, <2>1 DEF ScreensType, ScreenRecord
  <2>3. \/ /\ latest # Nothing
           /\ \E full : screens' = Deliver(free, latest, {c}, full)
        \/ (latest = Nothing \/ screens[c].current) /\ screens' = free
    BY <1>9 DEF Drain
  <2> HIDE DEF free
  <2>4. CASE \E full : screens' = Deliver(free, latest, {c}, full)
    <3>1. ScreensType(free)
      BY <1>a, <2>2 DEF ScreensType
    <3>2. /\ DOMAIN screens' = DOMAIN free
          /\ \A x \in DOMAIN free :
               /\ screens'[x].ended = free[x].ended
               /\ x \notin {c} => screens'[x] = free[x]
               /\ x \in {c} /\ ~free[x].ended => screens'[x].shown = latest
      BY <1>a, <2>4, <3>1, DeliverEffect
    <3>3. screens'[c].ended \/ screens'[c].shown = latest
      BY <2>1, <2>2, <3>2
    <3>4. \A x \in DOMAIN screens' : x = c \/ (x \in DOMAIN screens /\ screens'[x] = screens[x])
      BY <2>2, <3>2
    <3>5. latest = Nothing => \A x \in DOMAIN screens : screens[x].shown = Nothing
      BY DEF CurrentShowLatest, Clients
    <3>6. CASE latest # Nothing
      BY <2>1, <3>3, <3>4, <3>6 DEF CurrentShowLatest, UnblockedShowLatest, Clients
    <3> QED BY <2>1, <2>2, <2>3, <3>6 DEF CurrentShowLatest, UnblockedShowLatest, Clients
  <2>5. CASE (latest = Nothing \/ screens[c].current) /\ screens' = free
    BY <2>1, <2>2, <2>5 DEF CurrentShowLatest, UnblockedShowLatest, Clients
  <2> QED BY <2>3, <2>4, <2>5
<1> QED
  BY <1>1, <1>2, <1>4, <1>5, <1>6, <1>7, <1>8, <1>9
  DEF Next, vars, Sample, Fail, Change, WriteReturns, OtherReader

\* `UnblockedShowLatest', whatever frames, full buffers, drains, joins and
\* expiries do: broadcast(), deliver(), subscribe() and the drain handler miss
\* no screen.
THEOREM ScreensShowLatest == Spec => []UnblockedShowLatest
<1>1. Init => ScreenInv
  BY InitType DEF Init, ScreenInv, CurrentShowLatest, UnblockedShowLatest, Clients
<1>2. ScreenInv => UnblockedShowLatest
  BY DEF ScreenInv
<1> QED BY <1>1, <1>2, ScreenStep, PTL DEF Spec

-----------------------------------------------------------------------------
(* What the hub remembers.                                                 *)

LEMMA HubStep == HubInv /\ [Next]_vars => HubInv'
<1> SUFFICES ASSUME TypeOK, SeenLeftFrame, FrameTracksReads, [Next]_vars
             PROVE  SeenLeftFrame' /\ FrameTracksReads'
  BY TypeStep DEF HubInv
<1>a. ScreensType(screens)
  BY TypeFacts
<1>1. ASSUME UNCHANGED <<latest, sent, seen>>, DOMAIN screens' = {} => latest = Nothing
      PROVE  SeenLeftFrame' /\ FrameTracksReads'
  BY <1>1 DEF SeenLeftFrame, FrameTracksReads, Clients, SameFingerprint
<1>2. ASSUME TimePasses, UNCHANGED <<latest, seen>>, DOMAIN screens' = DOMAIN screens
      PROVE  SeenLeftFrame' /\ FrameTracksReads'
  <2>1. /\ sent' = Nothing <=> sent = Nothing
        /\ sent # Nothing => sent'.list = sent.list
    BY <1>2, TimeEffect
  <2> QED BY <1>2, <2>1 DEF SeenLeftFrame, FrameTracksReads, Clients, SameFingerprint
<1>3. ASSUME NEW i \in 1..Len(reads), Land(i) PROVE SeenLeftFrame' /\ FrameTracksReads'
  <2> DEFINE got == reads[i].got
  <2>1. got \in List \cup {Error}
    BY <1>3, TypeFacts DEF Land, ReadRecord
  <2>2. CASE UNCHANGED <<screens, latest, sent, seen>>
    BY <1>1, <2>2 DEF FrameTracksReads, Clients
  <2>3. ASSUME ~Dropped(reads[i]), seen' = got, Broadcast(got), sent' = Remembered(got)
        PROVE  SeenLeftFrame' /\ FrameTracksReads'
    <3>1. DOMAIN screens' = DOMAIN screens /\ latest' = got
      BY <1>a, <2>1, <2>3, BroadcastEffect
    <3>2. DOMAIN screens # {}
      BY <2>3 DEF Dropped, Clients
    <3>3. sent' = IF got = Error THEN Nothing ELSE [list |-> got, age |-> 0]
      BY <2>3 DEF Remembered
    <3>4. got \in List => sent' \in [list: List, age: {0}] /\ sent' # Nothing /\ sent'.list = got
      BY <3>3, NoConfusion
    <3> HIDE DEF got
    <3> QED BY <2>1, <2>3, <3>1, <3>2, <3>3, <3>4, NoConfusion
            DEF SeenLeftFrame, FrameTracksReads, Clients, SameFingerprint
  <2>4. ASSUME ~Dropped(reads[i]), seen' = got, got # Error, ~ShouldSend(got),
               UNCHANGED <<screens, latest, sent>>
        PROVE  SeenLeftFrame' /\ FrameTracksReads'
    <3>1. sent # Nothing /\ SameFingerprint(sent.list, got)
      BY <2>4 DEF ShouldSend
    <3>2. latest \in List /\ sent.list = latest
      BY <3>1 DEF FrameTracksReads
    <3> HIDE DEF got
    <3> QED BY <2>1, <2>4, <3>1, <3>2, NoConfusion
            DEF SeenLeftFrame, FrameTracksReads, Clients
  <2> QED BY <1>3, <2>2, <2>3, <2>4 DEF Land
<1>4. ASSUME Wait PROVE SeenLeftFrame' /\ FrameTracksReads'
  BY <1>2, <1>4, <1>a, AgedEffect DEF Wait
<1>5. ASSUME Tick PROVE SeenLeftFrame' /\ FrameTracksReads'
  <2>1. DOMAIN screens' = DOMAIN screens
    BY <1>5, <1>a, AgedEffect, WriteEffect DEF Tick
  <2> QED BY <1>2, <1>5, <2>1 DEF Tick
<1>6. ASSUME NEW c \in Screen, Subscribe(c) PROVE SeenLeftFrame' /\ FrameTracksReads'
  <2>1. ScreensType(Join(c)) /\ DOMAIN Join(c) = Clients \cup {c}
    BY <1>6, JoinEffect DEF Subscribe
  <2>2. latest \in List \cup {Nothing, Error}
    BY DEF TypeOK
  <2>3. DOMAIN screens' = Clients \cup {c}
    BY <1>6, <2>1, <2>2, DeliverEffect DEF Subscribe
  <2> QED BY <1>1, <1>6, <2>3 DEF Subscribe
<1>7. ASSUME NEW c \in Screen, Leave(c) PROVE SeenLeftFrame' /\ FrameTracksReads'
  <2>1. DOMAIN screens' = Clients \ {c}
    BY <1>7 DEF Leave
  <2>2. CASE Clients = {c}
    BY <1>7, <2>2, NoConfusion DEF Leave, SeenLeftFrame, FrameTracksReads
  <2>3. CASE Clients # {c}
    BY <1>1, <1>7, <2>1, <2>3 DEF Leave
  <2> QED BY <2>2, <2>3
<1>8. ASSUME NEW c \in Screen, EndStreamOf(c) PROVE SeenLeftFrame' /\ FrameTracksReads'
  <2>1. DOMAIN screens' = DOMAIN screens
    BY <1>8 DEF EndStreamOf
  <2> QED BY <1>1, <1>8, <2>1 DEF EndStreamOf, FrameTracksReads, Clients
<1>9. ASSUME NEW c \in Screen, Drain(c) PROVE SeenLeftFrame' /\ FrameTracksReads'
  <2>1. DOMAIN screens' = DOMAIN screens
    BY <1>9 DEF Drain, Deliver, Write
  <2> QED BY <1>1, <1>9, <2>1 DEF Drain, FrameTracksReads, Clients
<1>10. ASSUME UNCHANGED <<screens, latest, sent, seen>> PROVE SeenLeftFrame' /\ FrameTracksReads'
  BY <1>1, <1>10 DEF FrameTracksReads, Clients
<1> QED
  BY <1>3, <1>4, <1>5, <1>6, <1>7, <1>8, <1>9, <1>10
  DEF Next, vars, Sample, Fail, Change, WriteReturns, OtherReader

LEMMA InitHub == Init => HubInv
BY InitType, NoConfusion DEF Init, HubInv, SeenLeftFrame, FrameTracksReads, Clients

\* `FrameTracksReads': refresh() and remove() keep the latest frame, `lastSent'
\* and what was read in step, through failures, forced reads and unsent ones.
THEOREM HubAgrees == Spec => []FrameTracksReads
<1>1. HubInv => FrameTracksReads
  BY DEF HubInv
<1> QED BY <1>1, InitHub, HubStep, PTL DEF Spec

-----------------------------------------------------------------------------
(* What a write does to the screens.                                       *)

\* Reads that start, or are answered, with an up-to-date list do no harm.
LEMMA ReadsStayInOrder ==
  ASSUME Len(reads) \in Nat, Len(reads') \in Nat, Len(reads') >= Len(reads),
         written' = written,
         \A j \in 1..Len(reads) :
           /\ reads'[j].late = reads[j].late
           /\ reads'[j].got = reads[j].got \/ UpToDate(reads'[j].got),
         \A j \in (Len(reads) + 1)..Len(reads') : UpToDate(reads'[j].got)
  PROVE  /\ OnlyLateAreStale => OnlyLateAreStale'
         /\ WriteIsOnItsWay => WriteIsOnItsWay'
<1>1. ASSUME OnlyLateAreStale, NEW j \in 1..Len(reads')
      PROVE  UpToDate(reads[j].got)' \/ reads'[j].late
  <2>1. CASE j \in 1..Len(reads)
    BY <1>1, <2>1 DEF OnlyLateAreStale, UpToDate
  <2>2. CASE j \in (Len(reads) + 1)..Len(reads')
    BY <2>2 DEF UpToDate
  <2> QED BY <1>1, <2>1, <2>2
<1>2. ASSUME NEW i \in 1..Len(reads), ~reads[i].late,
             \A j \in i..Len(reads) : UpToDate(reads[j].got)
      PROVE  i \in 1..Len(reads') /\ ~reads'[i].late
             /\ \A j \in i..Len(reads') : UpToDate(reads[j].got)'
  <2>1. ASSUME NEW j \in i..Len(reads') PROVE UpToDate(reads[j].got)'
    <3>1. CASE j \in i..Len(reads)
      BY <1>2, <3>1 DEF UpToDate
    <3>2. CASE j \in (Len(reads) + 1)..Len(reads')
      BY <3>2 DEF UpToDate
    <3> QED BY <1>2, <2>1, <3>1, <3>2
  <2> QED BY <1>2, <2>1
<1>3. OnlyLateAreStale => OnlyLateAreStale'
  BY <1>1 DEF OnlyLateAreStale
<1>4. WriteIsOnItsWay => WriteIsOnItsWay'
  BY <1>2 DEF WriteIsOnItsWay
<1> QED BY <1>3, <1>4

\* A read that is dropped was late, so nothing depended on it.
LEMMA DroppedReadIsNoLoss ==
  ASSUME reads \in Seq(ReadRecord), NEW i \in 1..Len(reads), reads[i].late,
         reads' = RemoveAt(reads, i), written' = written
  PROVE  /\ OnlyLateAreStale => OnlyLateAreStale'
         /\ WriteIsOnItsWay => WriteIsOnItsWay'
<1>1. /\ Len(reads) \in Nat /\ Len(reads') = Len(reads) - 1
      /\ \A j \in 1..(Len(reads) - 1) : reads'[j] = IF j < i THEN reads[j] ELSE reads[j + 1]
  <2> DEFINE rest == RemoveAt(reads, i)
  <2>1. /\ Len(rest) = Len(reads) - 1
        /\ \A j \in 1..(Len(reads) - 1) : rest[j] = IF j < i THEN reads[j] ELSE reads[j + 1]
    BY RemoveAtProperties
  <2> HIDE DEF rest
  <2>2. reads' = rest /\ Len(reads) \in Nat
    BY DEF rest
  <2> QED BY <2>1, <2>2
<1>2. ASSUME OnlyLateAreStale, NEW j \in 1..Len(reads')
      PROVE  UpToDate(reads[j].got)' \/ reads'[j].late
  BY <1>1, <1>2 DEF OnlyLateAreStale, UpToDate
<1>3. ASSUME NEW k \in 1..Len(reads), ~reads[k].late,
             \A j \in k..Len(reads) : UpToDate(reads[j].got)
      PROVE  WriteIsOnItsWay'
  <2> DEFINE m == IF k < i THEN k ELSE k - 1
  <2>1. k # i
    BY <1>3
  <2>2. m \in 1..Len(reads') /\ ~reads'[m].late
    BY <1>1, <1>3, <2>1
  <2>3. \A j \in m..Len(reads') : UpToDate(reads[j].got)'
    <3>1. ASSUME NEW j \in m..Len(reads') PROVE UpToDate(reads'[j].got)
      <4>1. j \in 1..(Len(reads) - 1)
        BY <1>1, <2>2
      <4>2. CASE j < i
        <5>1. j \in k..Len(reads) /\ reads'[j] = reads[j]
          BY <1>1, <2>1, <4>1, <4>2
        <5> QED BY <1>3, <5>1
      <4>3. CASE j >= i
        <5>1. j + 1 \in k..Len(reads) /\ reads'[j] = reads[j + 1]
          BY <1>1, <2>1, <4>1, <4>3
        <5> QED BY <1>3, <5>1
      <4> QED BY <4>1, <4>2, <4>3
    <3> QED BY <3>1 DEF UpToDate
  <2> HIDE DEF m
  <2> QED BY <2>2, <2>3 DEF WriteIsOnItsWay
<1>4. OnlyLateAreStale => OnlyLateAreStale'
  BY <1>2 DEF OnlyLateAreStale
<1>5. WriteIsOnItsWay => WriteIsOnItsWay'
  BY <1>3 DEF WriteIsOnItsWay
<1> QED BY <1>4, <1>5

\* A read that is applied brings the write, or leaves the read that does alone.
LEMMA AppliedReadBringsWrite ==
  ASSUME reads \in Seq(ReadRecord), NEW i \in 1..Len(reads), ~reads[i].late,
         reads[i].got \in List \cup {Error}, seen' = reads[i].got,
         reads' = Applied(i), written' = written,
         WriteIsSeen \/ WriteIsOnItsWay
  PROVE  WriteIsSeen' \/ WriteIsOnItsWay'
<1>1. /\ Len(reads) \in Nat /\ Len(reads') = Len(reads) - 1
      /\ \A j \in 1..(Len(reads) - 1) :
           /\ j < i => reads'[j].late
           /\ j >= i => reads'[j] = reads[j + 1]
  <2> DEFINE rest == Applied(i)
  <2>1. /\ Len(rest) = Len(reads) - 1
        /\ \A j \in 1..(Len(reads) - 1) :
             /\ j < i => rest[j].late
             /\ j >= i => rest[j] = reads[j + 1]
    BY AppliedEffect
  <2> HIDE DEF rest
  <2>2. reads' = rest /\ Len(reads) \in Nat
    BY DEF rest
  <2> QED BY <2>1, <2>2
<1>2. ASSUME UpToDate(reads[i].got),
             \A j \in (i + 1)..Len(reads) : UpToDate(reads[j].got) \/ reads[j].late
      PROVE  WriteIsSeen'
  <2>1. ASSUME NEW j \in 1..Len(reads') PROVE UpToDate(reads[j].got)' \/ reads'[j].late
    <3>1. CASE j < i
      BY <1>1, <3>1
    <3>2. CASE j >= i
      <4>1. j + 1 \in (i + 1)..Len(reads) /\ reads'[j] = reads[j + 1]
        BY <1>1, <3>2
      <4> QED BY <1>2, <4>1 DEF UpToDate
    <3> QED BY <1>1, <3>1, <3>2
  <2>2. UpToDate(seen)' /\ seen' # Nothing
    BY <1>2, NoConfusion DEF UpToDate
  <2> QED BY <2>1, <2>2 DEF WriteIsSeen, OnlyLateAreStale
<1>3. CASE WriteIsSeen
  BY <1>1, <1>2, <1>3 DEF WriteIsSeen, OnlyLateAreStale
<1>4. ASSUME NEW k \in 1..Len(reads), ~reads[k].late,
             \A j \in k..Len(reads) : UpToDate(reads[j].got)
      PROVE  WriteIsSeen' \/ WriteIsOnItsWay'
  <2>1. CASE k <= i
    BY <1>1, <1>2, <1>4, <2>1
  <2>2. CASE k > i
    <3>1. k - 1 \in 1..Len(reads') /\ reads'[k - 1] = reads[k]
      BY <1>1, <2>2
    <3>2. ASSUME NEW j \in (k - 1)..Len(reads') PROVE UpToDate(reads[j].got)'
      <4>1. j + 1 \in k..Len(reads) /\ reads'[j] = reads[j + 1]
        BY <1>1, <2>2
      <4> QED BY <1>4, <4>1 DEF UpToDate
    <3> QED BY <1>4, <3>1, <3>2 DEF WriteIsOnItsWay
  <2> QED BY <1>1, <2>1, <2>2
<1> QED BY <1>3, <1>4 DEF WriteIsOnItsWay

\* Screens that were there before are still owed no more than the same writes.
LEMMA WriteStillReaches ==
  ASSUME WritesReachScreens, written' = written,
         \A c \in DOMAIN screens' : screens'[c].since < written =>
           c \in DOMAIN screens /\ screens'[c].since = screens[c].since,
         WriteIsSeen \/ WriteIsOnItsWay => WriteIsSeen' \/ WriteIsOnItsWay'
  PROVE  WritesReachScreens'
BY DEF WritesReachScreens, Clients

LEMMA CopyStep == TypeOK /\ CopyUpToDate /\ [Next]_vars => CopyUpToDate'
<1> SUFFICES ASSUME TypeOK, CopyUpToDate, [Next]_vars PROVE CopyUpToDate'
  OBVIOUS
<1>a. world.w \in Nat /\ written \in Nat /\ world.w >= written
  BY DEF TypeOK, List, CopyUpToDate
<1>1. ASSUME UNCHANGED <<world, written, copy>> PROVE CopyUpToDate'
  BY <1>1 DEF CopyUpToDate
<1>2. ASSUME UNCHANGED <<world, written>>, TimePasses PROVE CopyUpToDate'
  BY <1>2, TimeEffect DEF CopyUpToDate
<1>3. ASSUME UNCHANGED <<world, written>>, copy' = [list |-> world, age |-> 0] PROVE CopyUpToDate'
  BY <1>a, <1>3 DEF CopyUpToDate
<1>4. ASSUME Change PROVE CopyUpToDate'
  <2>a. world \in List
    BY DEF TypeOK
  <2>b. world'.w = world.w \/ world'.w = world.w + 1
    <3>1. CASE world' = [world EXCEPT !.o = @ + 1] \/ world' = [world EXCEPT !.n = @ + 1]
      BY <2>a, <3>1 DEF List
    <3>2. CASE world' = [world EXCEPT !.w = @ + 1]
      BY <2>a, <3>2 DEF List
    <3> QED BY <1>4, <3>1, <3>2 DEF Change
  <2>1. world'.w >= world.w
    BY <1>a, <2>b
  <2>2. world'.w \in Nat
    BY <1>a, <2>b
  <2> QED BY <1>4, <1>a, <2>1, <2>2 DEF Change, CopyUpToDate
<1>5. ASSUME WriteReturns PROVE CopyUpToDate'
  BY <1>5, <1>a DEF WriteReturns, CopyUpToDate
<1>6. ASSUME NEW i \in 1..Len(reads), Sample(i) PROVE CopyUpToDate'
  BY <1>1, <1>3, <1>6 DEF Sample
<1> QED
  BY <1>1, <1>2, <1>3, <1>4, <1>5, <1>6
  DEF Next, vars, Fail, Land, Wait, Tick, Subscribe, Leave, EndStreamOf, Drain, OtherReader

\* A cache hit is up to date, and a read without one is pending.
LEMMA NewReadUpToDate ==
  ASSUME CopyUpToDate, NEW force, NEW hit, hit => copy # Nothing
  PROVE  UpToDate(NewRead(force, hit).got)
BY DEF UpToDate, CopyUpToDate, NewRead

\* One more read at the end.
LEMMA AppendedRead ==
  ASSUME reads \in Seq(ReadRecord), NEW r \in ReadRecord, UpToDate(r.got),
         reads' = Append(reads, r), written' = written
  PROVE  /\ OnlyLateAreStale => OnlyLateAreStale'
         /\ WriteIsOnItsWay => WriteIsOnItsWay'
<1> DEFINE out == Append(reads, r)
<1>1. /\ Len(reads) \in Nat /\ Len(out) = Len(reads) + 1
      /\ \A j \in 1..Len(reads) : out[j] = reads[j]
      /\ out[Len(reads) + 1] = r
  BY AppendEffect
<1> HIDE DEF out
<1>2. reads' = out
  BY DEF out
<1>3. \A j \in (Len(reads) + 1)..Len(reads') : UpToDate(reads'[j].got)
  <2>1. \A j \in (Len(reads) + 1)..Len(reads') : j = Len(reads) + 1
    BY <1>1, <1>2
  <2> QED BY <1>1, <1>2, <2>1
<1> QED BY <1>1, <1>2, <1>3, ReadsStayInOrder

LEMMA WriteStep == TypeOK /\ WriteInv /\ [Next]_vars => WriteInv'
<1> SUFFICES ASSUME TypeOK, CopyUpToDate, WritesReachScreens, [Next]_vars
             PROVE  WritesReachScreens'
  BY CopyStep DEF WriteInv
<1>a. /\ ScreensType(screens) /\ reads \in Seq(ReadRecord) /\ Len(reads) \in Nat
      /\ \A i \in 1..Len(reads) : reads[i] \in ReadRecord
  BY TypeFacts
<1>b. written \in Nat /\ \A c \in DOMAIN screens : screens[c].since \in Nat
  BY <1>a DEF TypeOK, ScreensType, ScreenRecord
<1> DEFINE SameSince == \A c \in DOMAIN screens' : screens'[c].since < written =>
                           c \in DOMAIN screens /\ screens'[c].since = screens[c].since
<1>1. ASSUME UNCHANGED <<written, reads, seen>>, SameSince PROVE WritesReachScreens'
  <2>1. WriteIsSeen \/ WriteIsOnItsWay => WriteIsSeen' \/ WriteIsOnItsWay'
    BY <1>1 DEF WriteIsSeen, WriteIsOnItsWay, OnlyLateAreStale, UpToDate
  <2> QED BY <1>1, <2>1, WriteStillReaches
<1>2. ASSUME UNCHANGED <<written, seen>>, SameSince,
             OnlyLateAreStale => OnlyLateAreStale', WriteIsOnItsWay => WriteIsOnItsWay'
      PROVE  WritesReachScreens'
  <2>1. WriteIsSeen \/ WriteIsOnItsWay => WriteIsSeen' \/ WriteIsOnItsWay'
    BY <1>2 DEF WriteIsSeen, UpToDate
  <2> QED BY <1>2, <2>1, WriteStillReaches
<1>3. ASSUME NEW i \in 1..Len(reads), NEW x \in List \cup {Error}, UpToDate(x),
             reads' = [reads EXCEPT ![i].got = x], UNCHANGED <<written, seen, screens>>
      PROVE  WritesReachScreens'
  <2>1. Len(reads') = Len(reads)
    BY <1>3, <1>a
  <2>2. \A j \in 1..Len(reads) :
          /\ reads'[j].late = reads[j].late
          /\ reads'[j].got = reads[j].got \/ UpToDate(reads'[j].got)
    BY <1>3, <1>a DEF ReadRecord
  <2>3. \A j \in (Len(reads) + 1)..Len(reads') : UpToDate(reads'[j].got)
    BY <1>a, <2>1
  <2> QED BY <1>2, <1>3, <1>a, <2>1, <2>2, <2>3, ReadsStayInOrder
<1>4. ASSUME NEW i \in 1..Len(reads), Sample(i) PROVE WritesReachScreens'
  BY <1>3, <1>4 DEF Sample, CopyUpToDate, UpToDate, TypeOK
<1>5. ASSUME NEW i \in 1..Len(reads), Fail(i) PROVE WritesReachScreens'
  BY <1>3, <1>5 DEF Fail, UpToDate
<1>6. ASSUME NEW i \in 1..Len(reads), Land(i) PROVE WritesReachScreens'
  <2>1. reads[i].got \in List \cup {Error} /\ written' = written
    BY <1>6, <1>a DEF Land, ReadRecord
  <2>2. SameSince
    <3>1. CASE screens' = screens
      BY <3>1
    <3>2. CASE Broadcast(reads[i].got)
      BY <1>a, <2>1, <3>2, BroadcastEffect
    <3> QED BY <1>6, <3>1, <3>2 DEF Land
  <2>3. CASE Dropped(reads[i])
    <3>1. reads' = RemoveAt(reads, i) /\ UNCHANGED <<screens, seen>>
      BY <1>6, <2>3 DEF Land
    <3>2. CASE reads[i].late
      BY <1>2, <1>a, <2>1, <2>2, <3>1, <3>2, DroppedReadIsNoLoss
    <3>3. CASE Clients = {}
      BY <3>1, <3>3 DEF WritesReachScreens, Clients
    <3> QED BY <2>3, <3>2, <3>3 DEF Dropped
  <2>4. CASE ~Dropped(reads[i])
    <3>1. reads' = Applied(i) /\ seen' = reads[i].got /\ ~reads[i].late
      BY <1>6, <2>4 DEF Land, Dropped
    <3>2. WriteIsSeen \/ WriteIsOnItsWay => WriteIsSeen' \/ WriteIsOnItsWay'
      BY <1>a, <2>1, <3>1, AppliedReadBringsWrite
    <3> QED BY <2>1, <2>2, <3>2, WriteStillReaches
  <2> QED BY <2>3, <2>4
<1>7. ASSUME Wait PROVE WritesReachScreens'
  <2>1. SameSince
    BY <1>7, <1>a, AgedEffect DEF Wait, ScreensType, ScreenRecord
  <2> QED BY <1>1, <1>7, <2>1 DEF Wait
<1>8. ASSUME Tick PROVE WritesReachScreens'
  <2>1. PICK full : screens' = Write(Aged(screens), Pinged, full)
    BY <1>8 DEF Tick
  <2>2. /\ ScreensType(Aged(screens)) /\ DOMAIN Aged(screens) = DOMAIN screens
        /\ \A c \in DOMAIN screens : Aged(screens)[c].since = screens[c].since
    BY <1>a, AgedEffect DEF ScreensType, ScreenRecord
  <2>3. SameSince
    BY <2>1, <2>2, WriteEffect
  <2>4. CASE reads' = reads
    BY <1>1, <1>8, <2>3, <2>4 DEF Tick
  <2>5. ASSUME NEW hit \in BOOLEAN, hit => copy # Nothing,
               reads' = Append(reads, NewRead(FALSE, hit))
        PROVE  WritesReachScreens'
    <3>1. NewRead(FALSE, hit) \in ReadRecord /\ UpToDate(NewRead(FALSE, hit).got)
      BY <2>5, NewReadType, NewReadUpToDate DEF TypeOK
    <3> QED BY <1>2, <1>8, <1>a, <2>3, <2>5, <3>1, AppendedRead DEF Tick
  <2> QED BY <1>8, <2>4, <2>5 DEF Tick
<1>9. ASSUME NEW c \in Screen, Subscribe(c) PROVE WritesReachScreens'
  <2>1. /\ ScreensType(Join(c)) /\ DOMAIN Join(c) = DOMAIN screens \cup {c}
        /\ Join(c)[c].since = written
        /\ \A x \in DOMAIN screens : Join(c)[x] = screens[x]
    <3>1. NewScreen.since = written
      BY DEF NewScreen
    <3> QED BY <1>9, <3>1, JoinEffect DEF Subscribe, Clients
  <2>2. \/ screens' = Join(c)
        \/ \E full : screens' = Deliver(Join(c), latest, {c}, full)
    BY <1>9 DEF Subscribe
  <2>3. latest \in List \cup {Nothing, Error}
    BY DEF TypeOK
  <2>4. DOMAIN screens' = DOMAIN Join(c)
        /\ \A x \in DOMAIN Join(c) : screens'[x].since = Join(c)[x].since
    BY <2>1, <2>2, <2>3, DeliverEffect
  <2>5. SameSince
    BY <1>b, <2>1, <2>4
  <2>6. CASE reads' = reads
    BY <1>1, <1>9, <2>5, <2>6 DEF Subscribe
  <2>7. CASE StartRead
    <3>1. NewRead(FALSE, CacheHit) \in ReadRecord /\ UpToDate(NewRead(FALSE, CacheHit).got)
      BY NewReadType, NewReadUpToDate DEF TypeOK, CacheHit
    <3> QED BY <1>2, <1>9, <1>a, <2>5, <2>7, <3>1, AppendedRead DEF Subscribe, StartRead
  <2> QED BY <1>9, <2>6, <2>7 DEF Subscribe
<1>10. ASSUME NEW c \in Screen, Leave(c) PROVE WritesReachScreens'
  <2>1. DOMAIN screens' = Clients \ {c} /\ \A x \in DOMAIN screens' : screens'[x] = screens[x]
    BY <1>10 DEF Leave
  <2>2. CASE Clients = {c}
    BY <2>1, <2>2 DEF WritesReachScreens, Clients
  <2>3. CASE Clients # {c}
    BY <1>1, <1>10, <2>1, <2>3 DEF Leave, Clients
  <2> QED BY <2>2, <2>3
<1>11. ASSUME NEW c \in Screen, EndStreamOf(c) PROVE WritesReachScreens'
  <2>1. SameSince
    BY <1>11, <1>a DEF EndStreamOf, ScreensType, ScreenRecord
  <2> QED BY <1>1, <1>11, <2>1 DEF EndStreamOf
<1>12. ASSUME NEW c \in Screen, Drain(c) PROVE WritesReachScreens'
  <2> DEFINE free == [screens EXCEPT ![c].blocked = FALSE]
  <2>1. /\ ScreensType(free) /\ DOMAIN free = DOMAIN screens
        /\ \A x \in DOMAIN screens : free[x].since = screens[x].since
    BY <1>a DEF ScreensType, ScreenRecord
  <2>2. screens' = free \/ \E full : screens' = Deliver(free, latest, {c}, full)
    BY <1>12 DEF Drain
  <2>3. latest \in List \cup {Nothing, Error}
    BY DEF TypeOK
  <2> HIDE DEF free
  <2>4. SameSince
    BY <2>1, <2>2, <2>3, DeliverEffect
  <2> QED BY <1>1, <1>12, <2>4 DEF Drain
<1>13. ASSUME WriteReturns PROVE WritesReachScreens'
  <2> DEFINE cancelled == [i \in 1..Len(reads) |-> [reads[i] EXCEPT !.stores = FALSE]]
             r == NewRead(TRUE, FALSE)
  <2>1. CASE Clients = {}
    BY <1>13, <2>1 DEF WriteReturns, WritesReachScreens, Clients
  <2>2. CASE Clients # {}
    <3>1. \A i \in 1..Len(reads) : cancelled[i] \in ReadRecord
      BY <1>a DEF ReadRecord
    <3>2. cancelled \in Seq(ReadRecord) /\ Len(cancelled) = Len(reads)
      BY <1>a, <3>1
    <3>3. r \in ReadRecord /\ r.got = Pending /\ ~r.late
      BY NewReadType DEF NewRead
    <3>4. reads' = Append(cancelled, r)
      BY <1>13, <2>2 DEF WriteReturns
    <3> HIDE DEF cancelled, r
    <3>5. Len(reads') = Len(reads) + 1 /\ reads'[Len(reads) + 1] = r
      BY <3>2, <3>3, <3>4, AppendEffect
    <3>6. UpToDate(r.got)'
      BY <3>3 DEF UpToDate, r, NewRead
    <3>7. \A j \in (Len(reads) + 1)..Len(reads') : reads'[j].got = Pending
      BY <1>a, <3>3, <3>5
    <3>8. WriteIsOnItsWay'
      BY <1>a, <3>3, <3>5, <3>7 DEF WriteIsOnItsWay, UpToDate
    <3> QED BY <3>8 DEF WritesReachScreens
  <2> QED BY <2>1, <2>2
<1>14. ASSUME UNCHANGED <<written, reads, seen, screens>> PROVE WritesReachScreens'
  BY <1>1, <1>14
<1> QED
  BY <1>4, <1>5, <1>6, <1>7, <1>8, <1>9, <1>10, <1>11, <1>12, <1>13, <1>14
  DEF Next, vars, Change, OtherReader

\* Who shows the latest frame shows what was found last.
LEMMA WriteInvSuffices == ScreenInv /\ HubInv /\ WriteInv => NotifiedScreensCurrent
<1> SUFFICES ASSUME ScreenInv, HubInv, WriteInv, reads = <<>>, NEW c \in Clients,
                    ~screens[c].blocked, ~screens[c].ended, screens[c].since < written
             PROVE  screens[c].shown = Error \/ screens[c].shown.w >= written
  BY DEF NotifiedScreensCurrent
<1>1. WriteIsSeen
  BY DEF WriteInv, WritesReachScreens, WriteIsOnItsWay
<1>2. seen \in List \cup {Error}
  BY <1>1 DEF WriteIsSeen, HubInv, TypeOK
<1>3. seen = Error \/ (seen \in List /\ seen.w >= written)
  BY <1>1, <1>2, NoConfusion DEF WriteIsSeen, UpToDate
<1>4. screens[c].shown = latest
  BY DEF ScreenInv, UnblockedShowLatest
<1>5. CASE seen = Error
  BY <1>4, <1>5 DEF HubInv, FrameTracksReads
<1>6. CASE seen \in List /\ seen.w >= written
  <2>1. latest \in List /\ latest.w = seen.w
    BY <1>6, NoConfusion DEF HubInv, FrameTracksReads, SeenLeftFrame, SameFingerprint, TypeOK
  <2> QED BY <1>4, <1>6, <2>1
<1> QED BY <1>3, <1>5, <1>6

\* `NotifiedScreensCurrent': what streamNotify() and the overtaking check of
\* refresh() are for, for any number of writes, reads and screens.
THEOREM WritesReachConnected == Spec => []NotifiedScreensCurrent
<1> DEFINE Inv == ScreenInv /\ HubInv /\ WriteInv
<1>1. Init => Inv
  <2>1. Init => ScreenInv
    BY InitType DEF Init, ScreenInv, CurrentShowLatest, UnblockedShowLatest, Clients
  <2>2. Init => WriteInv
    BY DEF Init, WriteInv, CopyUpToDate, WritesReachScreens, Clients
  <2> QED BY <2>1, <2>2, InitHub
<1>2. Inv /\ [Next]_vars => Inv'
  BY ScreenStep, HubStep, WriteStep DEF ScreenInv
<1>3. Inv => NotifiedScreensCurrent
  BY WriteInvSuffices
<1> QED BY <1>1, <1>2, <1>3, PTL DEF Spec

-----------------------------------------------------------------------------
(* The ticker.                                                             *)

\* Steps that change no read's kind or lateness, nor what was sent and found.
LEMMA TickerStays ==
  ASSUME TickerReads, HeldBackInTime, UNCHANGED <<sent, seen, phase>>,
         Len(reads') = Len(reads),
         \A j \in 1..Len(reads) :
           reads'[j].force = reads[j].force /\ reads'[j].late = reads[j].late
  PROVE  TickerReads' /\ HeldBackInTime'
BY DEF TickerReads, HeldBackInTime, Ticking

\* Nothing was sent, or what was found last: then only the number of the
\* ticker's reads matters.
LEMMA NothingHeldBack ==
  ASSUME sent' = Nothing \/ sent'.list = seen',
         \A i, j \in 1..Len(reads') : ~reads'[i].force /\ ~reads'[j].force => i = j
  PROVE  TickerReads' /\ HeldBackInTime'
BY DEF TickerReads, HeldBackInTime

\* A forced read more.
LEMMA ForcedReadAppended ==
  ASSUME TickerReads, HeldBackInTime, UNCHANGED <<sent, seen, phase>>,
         NEW s \in Seq(ReadRecord), NEW r \in ReadRecord, r.force,
         Len(s) = Len(reads),
         \A j \in 1..Len(reads) : s[j].force = reads[j].force /\ s[j].late = reads[j].late,
         reads' = Append(s, r)
  PROVE  TickerReads' /\ HeldBackInTime'
<1> DEFINE out == Append(s, r)
<1>1. /\ Len(reads) \in Nat /\ Len(out) = Len(reads) + 1
      /\ \A j \in 1..Len(reads) : out[j] = s[j]
      /\ out[Len(reads) + 1] = r
  BY AppendEffect
<1> HIDE DEF out
<1>2. \A j \in 1..Len(reads') :
        \/ j = Len(reads) + 1 /\ reads'[j].force
        \/ /\ j \in 1..Len(reads)
           /\ reads'[j].force = reads[j].force
           /\ reads'[j].late = reads[j].late
  BY <1>1 DEF out
<1>3. Ticking => Ticking'
  BY <1>1 DEF Ticking, out
<1>4. TickerReads'
  BY <1>2 DEF TickerReads
<1> QED BY <1>3, <1>4 DEF HeldBackInTime

\* The ticker's own read, started when it has none.
LEMMA TickerReadAppended ==
  ASSUME TickerReads, ~Ticking, seen' = seen,
         sent' = Nothing <=> sent = Nothing, sent # Nothing => sent'.list = sent.list,
         reads \in Seq(ReadRecord), NEW r \in ReadRecord, ~r.force, ~r.late,
         reads' = Append(reads, r)
  PROVE  TickerReads' /\ HeldBackInTime'
<1> DEFINE out == Append(reads, r)
<1>1. /\ Len(reads) \in Nat /\ Len(out) = Len(reads) + 1
      /\ \A j \in 1..Len(reads) : out[j] = reads[j]
      /\ out[Len(reads) + 1] = r
  BY AppendEffect
<1> HIDE DEF out
<1>2. \A j \in 1..Len(reads') :
        \/ j = Len(reads) + 1 /\ reads'[j] = r
        \/ j \in 1..Len(reads) /\ reads'[j].force
  BY <1>1 DEF Ticking, out
<1>3. Ticking'
  BY <1>1 DEF Ticking, out
<1>4. TickerReads'
  BY <1>2 DEF TickerReads
<1> QED BY <1>3, <1>4 DEF HeldBackInTime

\* A read that ends leaves the ticker's one alone, or was it.
LEMMA ReadGone ==
  ASSUME TickerReads, reads \in Seq(ReadRecord), NEW i \in 1..Len(reads),
         reads' = RemoveAt(reads, i) \/ reads' = Applied(i)
  PROVE  /\ \A j, k \in 1..Len(reads') : ~reads'[j].force /\ ~reads'[k].force => j = k
         /\ reads[i].force /\ Ticking => Ticking'
         /\ ~reads[i].force => ~Ticking'
<1>1. /\ Len(reads) \in Nat /\ Len(reads') = Len(reads) - 1
      /\ \A j \in 1..(Len(reads) - 1) :
           /\ j < i => reads'[j].force = reads[j].force
           /\ j >= i => reads'[j] = reads[j + 1]
  <2>1. CASE reads' = RemoveAt(reads, i)
    <3> DEFINE rest == RemoveAt(reads, i)
    <3>1. /\ Len(rest) = Len(reads) - 1
          /\ \A j \in 1..(Len(reads) - 1) : rest[j] = IF j < i THEN reads[j] ELSE reads[j + 1]
      BY RemoveAtProperties
    <3> HIDE DEF rest
    <3>2. reads' = rest /\ Len(reads) \in Nat
      BY <2>1 DEF rest
    <3> QED BY <3>1, <3>2
  <2>2. CASE reads' = Applied(i)
    <3> DEFINE rest == Applied(i)
    <3>1. /\ Len(rest) = Len(reads) - 1
          /\ \A j \in 1..(Len(reads) - 1) :
               /\ j < i => rest[j].force = reads[j].force
               /\ j >= i => rest[j] = reads[j + 1]
      BY AppliedEffect
    <3> HIDE DEF rest
    <3>2. reads' = rest /\ Len(reads) \in Nat
      BY <2>2 DEF rest
    <3> QED BY <3>1, <3>2
  <2> QED BY <2>1, <2>2
<1> DEFINE was(j) == IF j < i THEN j ELSE j + 1
<1>2. \A j \in 1..Len(reads') :
        was(j) \in 1..Len(reads) /\ was(j) # i /\ reads'[j].force = reads[was(j)].force
  BY <1>1
<1>3. \A j, k \in 1..Len(reads') : was(j) = was(k) => j = k
  BY <1>1
<1>4. ASSUME NEW k \in 1..Len(reads), k # i
      PROVE  \E j \in 1..Len(reads') : was(j) = k
  <2>1. CASE k < i
    BY <1>1, <2>1
  <2>2. CASE k > i
    <3>1. k - 1 \in 1..Len(reads') /\ was(k - 1) = k
      BY <1>1, <2>2
    <3> QED BY <3>1
  <2> QED BY <1>1, <1>4, <2>1, <2>2
<1> HIDE DEF was
<1>5. \A j, k \in 1..Len(reads') : ~reads'[j].force /\ ~reads'[k].force => j = k
  BY <1>2, <1>3 DEF TickerReads
<1>6. ASSUME reads[i].force, Ticking PROVE Ticking'
  <2>1. PICK k \in 1..Len(reads) : ~reads[k].force
    BY <1>6 DEF Ticking
  <2> QED BY <1>2, <1>4, <1>6, <2>1 DEF Ticking
<1>7. ASSUME ~reads[i].force PROVE ~Ticking'
  BY <1>2, <1>7 DEF Ticking, TickerReads
<1> QED BY <1>5, <1>6, <1>7

\* A read that is dropped: if it was the ticker's, a later one was sent.
LEMMA TickerDrop ==
  ASSUME TypeOK, HubInv, TickerInv, NEW i \in 1..Len(reads), Dropped(reads[i]),
         reads' = RemoveAt(reads, i), UNCHANGED <<sent, seen, phase>>
  PROVE  TickerInv'
<1>1. /\ \A j, k \in 1..Len(reads') : ~reads'[j].force /\ ~reads'[k].force => j = k
      /\ reads[i].force /\ Ticking => Ticking'
  BY TypeFacts, ReadGone DEF TickerInv
<1>2. CASE sent = Nothing \/ sent.list = seen
  BY <1>1, <1>2, NothingHeldBack DEF TickerInv
<1>3. CASE sent # Nothing /\ sent.list # seen
  <2>1. Clients # {}
    BY <1>3, NoConfusion DEF HubInv, FrameTracksReads, TypeOK
  <2>2. reads[i].force
    BY <1>3, <2>1 DEF Dropped, TickerInv, TickerReads
  <2>3. HeldBackInTime'
    BY <1>1, <2>2 DEF TickerInv, HeldBackInTime
  <2>4. TickerReads'
    <3> DEFINE rest == RemoveAt(reads, i)
    <3>1. /\ Len(rest) = Len(reads) - 1
          /\ \A j \in 1..(Len(reads) - 1) : rest[j] = IF j < i THEN reads[j] ELSE reads[j + 1]
      BY TypeFacts, RemoveAtProperties
    <3> HIDE DEF rest
    <3>2. reads' = rest /\ Len(reads) \in Nat
      BY TypeFacts DEF rest
    <3>3. \A j \in 1..Len(reads) : ~reads[j].force => ~reads[j].late
      BY <1>3 DEF TickerInv, TickerReads
    <3>4. \A j \in 1..Len(reads') : ~reads'[j].force => ~reads'[j].late
      <4> SUFFICES ASSUME NEW j \in 1..Len(reads'), ~reads'[j].force PROVE ~reads'[j].late
        OBVIOUS
      <4>1. j \in 1..(Len(reads) - 1)
        BY <3>1, <3>2
      <4>2. reads'[j] = IF j < i THEN reads[j] ELSE reads[j + 1]
        BY <3>1, <3>2, <4>1
      <4>3. j \in 1..Len(reads) /\ j + 1 \in 1..Len(reads)
        BY <3>2, <4>1
      <4> QED BY <3>3, <4>2, <4>3
    <3> QED BY <1>1, <3>4 DEF TickerReads
  <2> QED BY <2>3, <2>4 DEF TickerInv
<1> QED BY <1>2, <1>3

LEMMA AgeFacts ==
  ASSUME TypeOK
  PROVE  /\ AgeCap \in Nat /\ MaxQuietMs \in Nat /\ TickMs \in Nat /\ phase \in Nat
         /\ sent # Nothing => sent \in [list: List, age: 0..AgeCap] /\ sent.age \in 0..AgeCap
<1>1. TickMs \in Nat /\ MaxQuietMs \in Nat
  BY StreamAssumption
<1>2. AgeCap \in Nat
  BY <1>1 DEF AgeCap
<1>3. phase \in Nat
  BY <1>1 DEF TypeOK
<1>4. sent # Nothing => sent \in [list: List, age: 0..AgeCap]
  BY DEF TypeOK
<1>5. sent # Nothing => sent.age \in 0..AgeCap
  BY <1>4
<1> QED BY <1>1, <1>2, <1>3, <1>4, <1>5

\* A read that is applied is sent, or was the ticker's and is held back in time.
LEMMA TickerApply ==
  ASSUME TypeOK, TickerInv, NEW i \in 1..Len(reads), ~Dropped(reads[i]), Land(i)
  PROVE  TickerInv'
<1>1. /\ reads' = Applied(i) /\ seen' = reads[i].got /\ phase' = phase
      /\ reads[i].got # Pending
  BY DEF Land
<1>2. /\ \A j, k \in 1..Len(reads') : ~reads'[j].force /\ ~reads'[k].force => j = k
      /\ ~reads[i].force => ~Ticking'
  BY <1>1, TypeFacts, ReadGone DEF TickerInv
<1>3. CASE sent' = Remembered(reads[i].got)
  <2>1. sent' = Nothing \/ sent'.list = seen'
    BY <1>1, <1>3 DEF Remembered
  <2> QED BY <1>2, <2>1, NothingHeldBack DEF TickerInv
<1>4. CASE ~reads[i].force /\ ~ShouldSend(reads[i].got) /\ sent' = sent
  <2>1. TickerReads'
    BY <1>2, <1>4 DEF TickerReads, Ticking
  <2>2. sent # Nothing /\ (sent.list # seen' => ~(sent.age + TickMs > MaxQuietMs))
    BY <1>1, <1>4 DEF ShouldSend
  <2>3. /\ sent \in [list: List, age: 0..AgeCap]
        /\ AgeCap \in Nat /\ MaxQuietMs \in Nat /\ TickMs \in Nat /\ phase \in Nat
    BY <2>2, AgeFacts
  <2>4. HeldBackInTime'
    BY <1>1, <1>4, <2>2, <2>3 DEF HeldBackInTime
  <2> QED BY <2>1, <2>4 DEF TickerInv
<1> QED BY <1>3, <1>4 DEF Land

LEMMA TickerStep == HubInv /\ TickerInv /\ [Next]_vars => TickerInv'
<1> SUFFICES ASSUME TypeOK, HubInv, TickerReads, HeldBackInTime, [Next]_vars
             PROVE  TickerReads' /\ HeldBackInTime'
  BY DEF TickerInv, HubInv
<1>a. /\ reads \in Seq(ReadRecord) /\ Len(reads) \in Nat
      /\ \A i \in 1..Len(reads) : reads[i] \in ReadRecord
  BY TypeFacts
<1>b. Clients = {} => sent = Nothing
  BY NoConfusion DEF HubInv, FrameTracksReads
<1>1. ASSUME UNCHANGED <<reads, sent, seen, phase>> PROVE TickerReads' /\ HeldBackInTime'
  BY <1>1, TickerStays
<1>2. ASSUME NEW i \in 1..Len(reads), NEW x, reads' = [reads EXCEPT ![i].got = x],
             UNCHANGED <<sent, seen, phase>>
      PROVE  TickerReads' /\ HeldBackInTime'
  <2>1. /\ Len(reads') = Len(reads)
        /\ \A j \in 1..Len(reads) :
             reads'[j].force = reads[j].force /\ reads'[j].late = reads[j].late
    BY <1>2, <1>a DEF ReadRecord
  <2> QED BY <1>2, <2>1, TickerStays
<1>3. ASSUME NEW i \in 1..Len(reads), Land(i) PROVE TickerReads' /\ HeldBackInTime'
  <2>1. CASE Dropped(reads[i])
    BY <1>3, <2>1, TickerDrop DEF Land, TickerInv
  <2>2. CASE ~Dropped(reads[i])
    BY <1>3, <2>2, TickerApply DEF TickerInv
  <2> QED BY <2>1, <2>2
<1>4. ASSUME Wait PROVE TickerReads' /\ HeldBackInTime'
  <2>1. /\ sent' = Nothing <=> sent = Nothing
        /\ sent # Nothing => sent'.list = sent.list /\ sent'.age = Older(sent.age, AgeCap)
    BY <1>4, TimeEffect DEF Wait
  <2>2. TickerReads'
    BY <1>4, <2>1 DEF Wait, TickerReads
  <2>3. ASSUME sent # Nothing, sent.age + TickMs <= MaxQuietMs + phase
        PROVE  sent'.age + TickMs <= MaxQuietMs + phase'
    <3>1. phase' = phase + 1 /\ phase \in Nat
      BY <1>4, <1>b, <2>3, StreamAssumption DEF Wait, TypeOK, StreamAssumption
    <3>2. /\ sent.age \in 0..AgeCap /\ AgeCap \in Nat
          /\ TickMs \in Nat /\ MaxQuietMs \in Nat
      BY <2>3, AgeFacts
    <3>3. sent'.age <= sent.age + 1 /\ sent'.age \in Nat
      BY <2>1, <2>3, <3>2 DEF Older
    <3> QED BY <2>3, <3>1, <3>2, <3>3
  <2>4. HeldBackInTime'
    BY <1>4, <2>1, <2>3 DEF Wait, HeldBackInTime, Ticking
  <2> QED BY <2>2, <2>4
<1>5. ASSUME Tick PROVE TickerReads' /\ HeldBackInTime'
  <2>1. /\ sent' = Nothing <=> sent = Nothing
        /\ sent # Nothing => sent'.list = sent.list
    BY <1>5, TimeEffect DEF Tick
  <2>2. CASE Ticking
    BY <1>5, <2>1, <2>2 DEF Tick, TickerReads, HeldBackInTime, Ticking
  <2>3. CASE ~Ticking
    <3> DEFINE r == NewRead(FALSE, copy # Nothing /\ copy'.age < CacheTtl)
    <3>1. r \in ReadRecord /\ ~r.force /\ ~r.late
      BY NewReadType DEF TypeOK, NewRead
    <3> QED BY <1>5, <1>a, <2>1, <2>3, <3>1, TickerReadAppended DEF Tick
  <2> QED BY <2>2, <2>3
<1>6. ASSUME NEW c \in Screen, Subscribe(c) PROVE TickerReads' /\ HeldBackInTime'
  <2>1. CASE reads' = reads /\ Clients # {}
    BY <1>1, <1>6, <2>1 DEF Subscribe
  <2>2. CASE reads' = reads /\ Clients = {}
    BY <1>6, <1>b, <2>2, NothingHeldBack DEF Subscribe, TickerReads
  <2>3. CASE ~Ticking /\ StartRead
    <3>1. NewRead(FALSE, CacheHit) \in ReadRecord
      BY NewReadType DEF TypeOK, CacheHit
    <3>2. ~NewRead(FALSE, CacheHit).force /\ ~NewRead(FALSE, CacheHit).late
      BY DEF NewRead
    <3> QED BY <1>6, <1>a, <2>3, <3>1, <3>2, TickerReadAppended DEF Subscribe, StartRead
  <2> QED BY <1>6, <2>1, <2>2, <2>3 DEF Subscribe
<1>7. ASSUME NEW c \in Screen, Leave(c) PROVE TickerReads' /\ HeldBackInTime'
  <2>1. CASE Clients = {c}
    BY <1>7, <2>1, NothingHeldBack DEF Leave, TickerReads
  <2>2. CASE Clients # {c}
    BY <1>1, <1>7, <2>2 DEF Leave
  <2> QED BY <2>1, <2>2
<1>8. ASSUME WriteReturns PROVE TickerReads' /\ HeldBackInTime'
  <2> DEFINE cancelled == [i \in 1..Len(reads) |-> [reads[i] EXCEPT !.stores = FALSE]]
             r == NewRead(TRUE, FALSE)
  <2>1. \A i \in 1..Len(reads) :
          /\ cancelled[i] \in ReadRecord
          /\ cancelled[i].force = reads[i].force /\ cancelled[i].late = reads[i].late
    BY <1>a DEF ReadRecord
  <2>2. cancelled \in Seq(ReadRecord) /\ Len(cancelled) = Len(reads)
    BY <1>a, <2>1
  <2>3. r \in ReadRecord /\ r.force
    BY NewReadType DEF NewRead
  <2>4. /\ reads' = cancelled \/ reads' = Append(cancelled, r)
        /\ UNCHANGED <<sent, seen, phase>>
    BY <1>8 DEF WriteReturns
  <2> HIDE DEF cancelled, r
  <2>5. CASE reads' = cancelled
    BY <2>1, <2>2, <2>4, <2>5, TickerStays
  <2>6. CASE reads' = Append(cancelled, r)
    BY <2>1, <2>2, <2>3, <2>4, <2>6, ForcedReadAppended
  <2> QED BY <2>4, <2>5, <2>6
<1> QED
  BY <1>1, <1>2, <1>3, <1>4, <1>5, <1>6, <1>7, <1>8
  DEF Next, vars, Sample, Fail, EndStreamOf, Drain, Change, OtherReader

\* The ticker fires only in Tick: elsewhere the phase is reset with the screens.
LEMMA FiresIsTick == TypeOK /\ [Next]_vars /\ Fires => Tick
<1> SUFFICES ASSUME TypeOK, [Next]_vars, Fires PROVE Tick
  OBVIOUS
<1>1. phase \in Nat /\ phase' # phase
  BY StreamAssumption DEF Fires, TypeOK, StreamAssumption
<1>2. ~Wait
  BY <1>1 DEF Wait, Fires
<1>3. ASSUME NEW c \in Screen PROVE ~Subscribe(c)
  <2>1. ASSUME Subscribe(c) PROVE FALSE
    <3>1. /\ ScreensType(Join(c)) /\ c \in DOMAIN Join(c)
          /\ latest \in List \cup {Nothing, Error}
      BY <2>1, JoinEffect DEF Subscribe, TypeOK
    <3>2. c \in DOMAIN screens'
      BY <2>1, <3>1, DeliverEffect DEF Subscribe
    <3> QED BY <2>1, <3>2 DEF Subscribe, Fires, Clients
  <2> QED BY <2>1
<1>4. ASSUME NEW c \in Screen PROVE ~Leave(c)
  BY DEF Leave, Fires, Clients
<1> QED
  BY <1>1, <1>2, <1>3, <1>4
  DEF Next, vars, Sample, Fail, Land, EndStreamOf, Drain, Change, WriteReturns, OtherReader

\* `NameChangesTimely': shouldSend() looks far enough ahead, for every length of
\* a tick and every MAX_QUIET_MS.
THEOREM HeldBackNoLonger == Spec => NameChangesTimely
<1> DEFINE Timely == Fires /\ sent # Nothing /\ seen # sent.list /\ ~Ticking
                       => sent'.age <= MaxQuietMs
<1>1. Init => HubInv /\ TickerInv
  BY InitHub, EmptySeq DEF Init, TickerInv, TickerReads, HeldBackInTime
<1>2. HubInv /\ TickerInv /\ [Next]_vars => (HubInv /\ TickerInv)'
  BY HubStep, TickerStep
<1>3. HubInv /\ TickerInv /\ [Next]_vars => Timely
  <2> SUFFICES ASSUME TypeOK, HeldBackInTime, Tick,
                      sent # Nothing, seen # sent.list, ~Ticking
               PROVE  sent'.age <= MaxQuietMs
    BY FiresIsTick DEF HubInv, TickerInv
  <2>1. sent.age + TickMs <= MaxQuietMs + phase /\ phase + 1 = TickMs
    BY DEF HeldBackInTime, Tick
  <2>2. sent'.age = Older(sent.age, AgeCap)
    BY TimeEffect DEF Tick
  <2>3. /\ sent.age \in 0..AgeCap /\ AgeCap \in Nat /\ phase \in Nat
        /\ TickMs \in Nat /\ MaxQuietMs \in Nat
    BY AgeFacts
  <2>4. sent'.age <= sent.age + 1 /\ sent'.age \in Nat
    BY <2>2, <2>3 DEF Older
  <2> QED BY <2>1, <2>3, <2>4
<1>4. HubInv /\ TickerInv /\ [Next]_vars => [Timely]_vars
  BY <1>3
<1> QED BY <1>1, <1>2, <1>4, PTL DEF Spec, NameChangesTimely

\* `NoTickLeavesQuiet': tick() speaks to every screen that would otherwise be
\* quiet for KEEPALIVE_MS, as long as that is any time at all.
THEOREM KeptAlive ==
  ASSUME KeepaliveMs # 0
  PROVE  Spec => NoTickLeavesQuiet
<1> DEFINE Spoken == Fires => \A c \in Clients : screens'[c].blocked \/ screens'[c].ended
                                               \/ screens'[c].quiet < KeepaliveMs
<1>1. TypeOK /\ [Next]_vars => Spoken
  <2> SUFFICES ASSUME TypeOK, Tick, NEW c \in DOMAIN screens,
                      ~screens'[c].blocked, ~screens'[c].ended
               PROVE  screens'[c].quiet < KeepaliveMs
    BY FiresIsTick DEF Clients
  <2>1. PICK full : screens' = Write(Aged(screens), Pinged, full)
    BY DEF Tick
  <2>2. /\ ScreensType(Aged(screens)) /\ DOMAIN Aged(screens) = DOMAIN screens
        /\ Aged(screens)[c].quiet = Older(screens[c].quiet, KeepaliveMs)
        /\ Aged(screens)[c].blocked = screens[c].blocked
        /\ Aged(screens)[c].ended = screens[c].ended
    BY TypeFacts, AgedEffect DEF ScreensType, ScreenRecord
  <2>3. KeepaliveMs \in Nat \ {0} /\ Aged(screens)[c].quiet \in 0..KeepaliveMs
    BY <2>2, StreamAssumption DEF StreamAssumption, ScreensType, ScreenRecord
  <2>4. /\ screens'[c].ended = Aged(screens)[c].ended
        /\ c \notin Pinged => screens'[c] = Aged(screens)[c]
        /\ c \in Pinged /\ ~Aged(screens)[c].ended => screens'[c].quiet = 0
    BY <2>1, <2>2, WriteEffect
  <2>5. CASE c \in Pinged
    BY <2>3, <2>4, <2>5
  <2>6. CASE c \notin Pinged
    <3>1. ~screens[c].blocked
      BY <2>2, <2>4, <2>6
    <3>2. ~(Older(screens[c].quiet, KeepaliveMs) >= KeepaliveMs)
      BY <2>6, <3>1 DEF Pinged, Unblocked
    <3> QED BY <2>2, <2>3, <2>4, <2>6, <3>2
  <2> QED BY <2>5, <2>6
<1>2. TypeOK /\ [Next]_vars => [Spoken]_vars
  BY <1>1
<1> QED BY <1>2, TypeCorrect, PTL DEF Spec, NoTickLeavesQuiet

=============================================================================
