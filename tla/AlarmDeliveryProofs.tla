------------------------ MODULE AlarmDeliveryProofs ------------------------
(***************************************************************************)
(* Proofs about AlarmDelivery, for any alarms, causes and channels, any     *)
(* number of attempts and stalls, any suppression time and set of           *)
(* operations; the clock ends where the model says.                         *)
(***************************************************************************)
EXTENDS AlarmDelivery, TLAPS

NoticeSet == [pc : {"none", "set", "add", "queued", "suppressed", "failed", "lost"},
              cause : Causes \cup {"none"}, took : SUBSET Nat, at : Nat,
              doubt : BOOLEAN, again : BOOLEAN]
JobSet == [pc : {"none", "waiting", "running", "done", "failed"},
           next : DOMAIN Channels, tries : 0 .. Attempts,
           stalls : 0 .. Stalls + 1, clean : BOOLEAN]

(* A job that is still to run has attempts and stalls left.                  *)
JobAlive(j) ==
  j.pc \in {"none", "waiting", "running"} => j.tries < Attempts /\ j.stalls <= Stalls
JobsAlive == \A a \in AlarmIds : JobAlive(job[a])

(* Whoever holds a suppression key is told, or was to be told, unless Redis's *)
(* answer was lost.                                                           *)
Told == {"add", "queued", "lost"}
NoticesCaused ==
  \A a \in AlarmIds : IF notice[a].pc = "none" THEN notice[a].took = {}
                      ELSE notice[a].cause \in Causes
Taker(b) == notice[b].pc \in Told \/ notice[b].doubt
Holds(b, c) ==
  /\ notice[b].cause = c /\ Taker(b)
  /\ \E t \in notice[b].took : until[c] = t + Suppress /\ t <= now
KeysHeld == \A c \in Causes : until[c] = 0 \/ \E b \in AlarmIds : Holds(b, c)

(* The job is added by whoever was told that it has taken the key.           *)
NotYetQueued ==
  \A a \in AlarmIds :
    notice[a].pc \in {"none", "set"} \/ (notice[a].pc = "add" /\ ~notice[a].again)
      => job[a].pc = "none"

JobTypes == job \in [AlarmIds -> JobSet] /\ sent \in [AlarmIds -> [AnyChannel -> 0 .. 2]]
NoticeTypes ==
  now \in 0 .. MaxTime /\ until \in [Causes -> Nat] /\ notice \in [AlarmIds -> NoticeSet]

JobInv == JobTypes /\ JobsAlive
NoticeInv == NoticeTypes /\ NoticesCaused /\ KeysHeld /\ SilentUnderAKey

IInv == JobInv /\ NoticeInv /\ NotYetQueued

LEMMA TypesSplit == TypeOK <=> JobTypes /\ NoticeTypes
  BY DEF TypeOK, JobTypes, NoticeTypes, JobSet, NoticeSet

LEMMA ChannelsTyped ==
  /\ Len(Channels) \in Nat \ {0} /\ DOMAIN Channels = 1 .. Len(Channels)
  /\ \A i \in DOMAIN Channels : Channels[i] \in AnyChannel
  BY ChannelsAssumption

-----------------------------------------------------------------------------
(* What a step makes of a job.                                               *)
LEMMA NoJobTyped == NoJob \in JobSet /\ JobAlive(NoJob) /\ NoJob.pc = "none"
  BY ChannelsTyped, CountsAssumption DEF NoJob, JobSet, JobAlive

LEMMA AdvancedTyped ==
  ASSUME NEW j \in JobSet, JobAlive(j), j.pc = "running"
  PROVE  Advanced(j) \in JobSet /\ JobAlive(Advanced(j))
<1>1. CASE j.next = Len(Channels)
  <2>1. Advanced(j) = [j EXCEPT !.pc = "done"]  BY <1>1 DEF Advanced
  <2>. QED  BY <2>1 DEF JobSet, JobAlive
<1>2. CASE j.next # Len(Channels)
  <2>1. Advanced(j) = [j EXCEPT !.next = @ + 1]  BY <1>2 DEF Advanced
  <2>2. j.next + 1 \in DOMAIN Channels  BY <1>2, ChannelsTyped DEF JobSet
  <2>. QED  BY <2>1, <2>2 DEF JobSet, JobAlive
<1>. QED  BY <1>1, <1>2

LEMMA AttemptOverTyped ==
  ASSUME NEW j \in JobSet, JobAlive(j), j.pc = "running"
  PROVE  AttemptOver(j) \in JobSet /\ JobAlive(AttemptOver(j))
<1>. DEFINE p == IF j.tries + 1 < Attempts THEN "waiting" ELSE "failed"
<1>1. AttemptOver(j) = [j EXCEPT !.pc = p, !.tries = @ + 1]  BY DEF AttemptOver
<1>2. /\ p \in {"waiting", "failed"} /\ j.tries + 1 \in 0 .. Attempts
      /\ p = "waiting" => j.tries + 1 < Attempts
  BY CountsAssumption DEF JobSet, JobAlive
<1>. HIDE DEF p
<1>. QED  BY <1>1, <1>2 DEF JobSet, JobAlive

LEMMA UncleanTyped ==
  ASSUME NEW j \in JobSet, JobAlive(j)
  PROVE  LET k == [j EXCEPT !.clean = FALSE]
         IN  k \in JobSet /\ JobAlive(k) /\ k.pc = j.pc /\ ~k.clean
  BY DEF JobSet, JobAlive

LEMMA AfterFailureTyped ==
  ASSUME NEW a \in AlarmIds, NEW j \in JobSet, JobAlive(j), j.pc = "running"
  PROVE  AfterFailure(a, j) \in JobSet /\ JobAlive(AfterFailure(a, j))
  BY AdvancedTyped, AttemptOverTyped DEF AfterFailure

-----------------------------------------------------------------------------
(* Alarm a's job becomes j.                                                  *)
Becomes(a, j) == job' = [job EXCEPT ![a] = j]

LEMMA JobMoves ==
  ASSUME JobInv, NEW a \in AlarmIds, NEW j \in JobSet, JobAlive(j), Becomes(a, j),
         UNCHANGED sent \/ Sends(a)
  PROVE  JobInv'
<1>1. job' \in [AlarmIds -> JobSet] /\ JobsAlive'
  BY DEF JobInv, JobTypes, JobsAlive, Becomes
<1>2. CASE Sends(a)
  <2>. DEFINE n == IF sent[a][Channel(a)] = 0 THEN 1 ELSE 2
              f == [sent[a] EXCEPT ![Channel(a)] = n]
  <2>1. sent[a] \in [AnyChannel -> 0 .. 2] /\ n \in 0 .. 2  BY DEF JobInv, JobTypes
  <2>3. sent' = [sent EXCEPT ![a] = f]  BY <1>2 DEF Sends
  <2>. HIDE DEF n
  <2>2. f \in [AnyChannel -> 0 .. 2]  BY <2>1
  <2>. HIDE DEF f
  <2>4. sent' \in [AlarmIds -> [AnyChannel -> 0 .. 2]]
    BY <2>2, <2>3 DEF JobInv, JobTypes
  <2>. QED  BY <1>1, <2>4 DEF JobInv, JobTypes
<1>3. CASE UNCHANGED sent  BY <1>1, <1>3 DEF JobInv, JobTypes
<1>. QED  BY <1>2, <1>3

LEMMA JobAt ==
  ASSUME IInv, NEW a \in AlarmIds
  PROVE  job[a] \in JobSet /\ JobAlive(job[a])
  BY DEF IInv, JobInv, JobTypes, JobsAlive

(* A step that leaves the notices and the keys alone.                        *)
LEMMA NoticesLeft ==
  ASSUME NoticeInv, UNCHANGED <<now, until, notice>>
  PROVE  NoticeInv'
  BY DEF NoticeInv, NoticeTypes, NoticesCaused, KeysHeld, Holds, Taker, Told, SilentUnderAKey

LEMMA JobStep ==
  ASSUME IInv, NEW a \in AlarmIds, job[a].pc # "none",
         NEW j \in JobSet, JobAlive(j), Becomes(a, j),
         UNCHANGED sent \/ Sends(a), UNCHANGED <<now, until, notice>>
  PROVE  IInv'
<1>1. JobInv'  BY JobMoves DEF IInv
<1>2. NoticeInv'  BY NoticesLeft DEF IInv
<1>3. NotYetQueued'
  BY DEF IInv, NotYetQueued, Becomes, JobInv, JobTypes
<1>. QED  BY <1>1, <1>2, <1>3 DEF IInv

LEMMA TakeStep ==
  ASSUME IInv, NEW a \in AlarmIds, Take(a)
  PROVE  IInv'
<1>. DEFINE j == [job[a] EXCEPT !.pc = "running", !.next = 1]
<1>1. job[a] \in JobSet /\ JobAlive(job[a]) /\ job[a].pc = "waiting"
  BY JobAt DEF Take
<1>2. j \in JobSet /\ JobAlive(j)
  <2>1. 1 \in DOMAIN Channels  BY ChannelsTyped
  <2>. QED  BY <1>1, <2>1 DEF JobSet, JobAlive
<1>3. Becomes(a, j) /\ UNCHANGED <<now, until, notice, sent>>
  BY DEF Becomes, Take
<1>. HIDE DEF j
<1>. QED  BY <1>1, <1>2, <1>3, JobStep

LEMMA AttemptStep ==
  ASSUME IInv, NEW a \in AlarmIds, Attempt(a)
  PROVE  IInv'
<1>1. job[a] \in JobSet /\ JobAlive(job[a]) /\ job[a].pc = "running"
  BY JobAt DEF Attempt, Deliver, Skip, Fail, RecordFails
<1>. DEFINE k == [job[a] EXCEPT !.clean = FALSE]
<1>2. k \in JobSet /\ JobAlive(k) /\ k.pc = "running"  BY <1>1, UncleanTyped
<1>3. \E j \in {Advanced(job[a]), AfterFailure(a, job[a]), AfterFailure(a, k),
                AttemptOver(k)} : Becomes(a, j)
  BY DEF Attempt, Deliver, Skip, Fail, RecordFails, Becomes
<1>. HIDE DEF k
<1>4. PICK j \in JobSet : JobAlive(j) /\ Becomes(a, j)
  BY <1>1, <1>2, <1>3, AdvancedTyped, AttemptOverTyped, AfterFailureTyped
<1>5. UNCHANGED <<now, until, notice>> /\ (UNCHANGED sent \/ Sends(a))
  BY DEF Attempt, Deliver, Skip, Fail, RecordFails
<1>. QED  BY <1>1, <1>4, <1>5, JobStep

-----------------------------------------------------------------------------
(* A notice that was given stays given, and nothing else falls silent.       *)
NoticesStay ==
  /\ \A b \in AlarmIds : notice[b].took # {} =>
       /\ notice'[b].cause = notice[b].cause
       /\ notice[b].took \subseteq notice'[b].took
       /\ notice[b].pc \in Told => notice'[b].pc \in Told
       /\ notice[b].doubt => notice'[b].doubt
  /\ \A a \in AlarmIds : notice'[a].pc = "suppressed" =>
       /\ notice[a].pc = "suppressed" /\ notice'[a].at = notice[a].at
       /\ notice'[a].cause = notice[a].cause

LEMMA SilentStays ==
  ASSUME SilentUnderAKey, NoticesStay
  PROVE  SilentUnderAKey'
<1>. SUFFICES ASSUME NEW a \in AlarmIds, notice'[a].pc = "suppressed"
              PROVE  \E b \in AlarmIds :
                       /\ notice'[b].cause = notice'[a].cause
                       /\ \E t \in notice'[b].took :
                            t <= notice'[a].at /\ notice'[a].at < t + Suppress
                       /\ \/ b # a /\ notice'[b].pc \in Told
                          \/ notice'[b].doubt
  BY DEF SilentUnderAKey, Told
<1>1. PICK b \in AlarmIds :
        /\ notice[b].cause = notice[a].cause
        /\ \E t \in notice[b].took : t <= notice[a].at /\ notice[a].at < t + Suppress
        /\ \/ b # a /\ notice[b].pc \in Told
           \/ notice[b].doubt
  BY DEF SilentUnderAKey, NoticesStay, Told
<1>2. notice[b].took # {}  BY <1>1
<1>. QED  BY <1>1, <1>2 DEF NoticesStay

LEMMA KeysStay ==
  ASSUME KeysHeld, NoticesStay, UNCHANGED <<now, until>>
  PROVE  KeysHeld'
<1>. SUFFICES ASSUME NEW c \in Causes, until[c] # 0
              PROVE  \E b \in AlarmIds : Holds(b, c)'
  BY DEF KeysHeld
<1>1. PICK b \in AlarmIds : Holds(b, c)  BY DEF KeysHeld
<1>2. Holds(b, c)'  BY <1>1 DEF Holds, Taker, NoticesStay
<1>. QED  BY <1>2

LEMMA NoticesStep ==
  ASSUME IInv, NoticesStay, UNCHANGED <<now, until>>, NotYetQueued',
         notice' \in [AlarmIds -> NoticeSet], NoticesCaused', JobInv'
  PROVE  IInv'
  BY SilentStays, KeysStay DEF IInv, NoticeInv, NoticeTypes

LEMMA NoticeAt ==
  ASSUME IInv, NEW a \in AlarmIds
  PROVE  /\ notice[a] \in NoticeSet
         /\ notice[a].pc # "none" => notice[a].cause \in Causes
         /\ notice[a].pc \in {"none", "set"} => job[a].pc = "none"
         /\ notice[a].pc = "add" /\ ~notice[a].again => job[a].pc = "none"
  BY DEF IInv, NoticeInv, NoticeTypes, NoticesCaused, NotYetQueued

LEMMA OpenStep ==
  ASSUME IInv, NEW a \in AlarmIds, NEW c \in Causes, Open(a, c)
  PROVE  IInv'
<1>. DEFINE u == Untold
            n == [u EXCEPT !.pc = "set", !.cause = c]
<1>1. u \in NoticeSet  BY DEF Untold, NoticeSet
<1>2. notice' = [notice EXCEPT ![a] = n]  BY DEF Open
<1>. HIDE DEF u
<1>3. n \in NoticeSet /\ n.pc = "set" /\ n.cause = c  BY <1>1 DEF NoticeSet
<1>4. /\ notice \in [AlarmIds -> NoticeSet] /\ notice[a].pc = "none"
      /\ notice[a].took = {}
  BY DEF IInv, NoticeInv, NoticeTypes, NoticesCaused, Open
<1>. HIDE DEF n
<1>5. notice' \in [AlarmIds -> NoticeSet] /\ NoticesCaused' /\ NoticesStay
  BY <1>2, <1>3, <1>4 DEF NoticesCaused, NoticesStay, Told, IInv, NoticeInv
<1>6. NotYetQueued' /\ JobInv'
  BY <1>2, <1>3, <1>4
     DEF Open, NotYetQueued, IInv, JobInv, JobTypes, JobsAlive
<1>. QED  BY <1>5, <1>6, NoticesStep DEF Open

(* A step of alarm a's notice that takes no key and finds none taken.        *)
LEMMA NoticeMoves ==
  ASSUME IInv, NEW a \in AlarmIds, NEW n \in NoticeSet,
         notice' = [notice EXCEPT ![a] = n], UNCHANGED <<now, until>>,
         notice[a].pc \in {"set", "add"}, n.cause = notice[a].cause, n.took = notice[a].took,
         n.doubt = notice[a].doubt, n.pc \notin {"none", "suppressed"},
         notice[a].pc \in Told => n.pc \in Told, JobInv', NotYetQueued'
  PROVE  IInv'
<1>1. /\ notice \in [AlarmIds -> NoticeSet] /\ notice[a].cause \in Causes
      /\ notice'[a] = n /\ \A b \in AlarmIds \ {a} : notice'[b] = notice[b]
  BY NoticeAt DEF IInv, NoticeInv, NoticeTypes
<1>2. notice' \in [AlarmIds -> NoticeSet]  BY <1>1
<1>3. NoticesCaused'  BY <1>1 DEF NoticesCaused, IInv, NoticeInv
<1>4. NoticesStay  BY <1>1 DEF NoticesStay
<1>. QED  BY <1>2, <1>3, <1>4, NoticesStep

LEMMA AddedTyped ==
  ASSUME IInv, NEW a \in AlarmIds, Added(a), UNCHANGED sent
  PROVE  JobInv' /\ \A b \in AlarmIds \ {a} : job'[b] = job[b]
<1>1. job \in [AlarmIds -> JobSet]  BY DEF IInv, JobInv, JobTypes
<1>2. ASSUME NEW j \in JobSet, JobAlive(j), Becomes(a, j) PROVE JobInv'
  BY <1>2, JobMoves DEF IInv
<1>3. CASE job[a].pc = "none"
  <2>. DEFINE j == [job[a] EXCEPT !.pc = "waiting"]
  <2>1. j \in JobSet /\ JobAlive(j)  BY <1>3, JobAt DEF JobSet, JobAlive
  <2>2. Becomes(a, j)  BY <1>3 DEF Added, Becomes
  <2>. QED  BY <1>1, <1>2, <2>1, <2>2 DEF Becomes
<1>4. CASE job[a].pc = "done"
  <2>. DEFINE j == [NoJob EXCEPT !.pc = "waiting", !.clean = FALSE]
  <2>1. j \in JobSet /\ JobAlive(j)  BY NoJobTyped DEF JobSet, JobAlive
  <2>2. Becomes(a, j)  BY <1>4 DEF Added, Becomes
  <2>. HIDE DEF j
  <2>. QED  BY <1>1, <1>2, <2>1, <2>2 DEF Becomes
<1>5. CASE job[a].pc \notin {"none", "done"}
  BY <1>5 DEF Added, IInv, JobInv, JobTypes, JobsAlive
<1>. QED  BY <1>3, <1>4, <1>5

LEMMA AddJobStep ==
  ASSUME IInv, NEW a \in AlarmIds, AddJob(a)
  PROVE  IInv'
<1>. DEFINE n == [notice[a] EXCEPT !.pc = "queued"]
<1>1. /\ notice \in [AlarmIds -> NoticeSet] /\ notice[a] \in NoticeSet
      /\ notice[a].pc = "add" /\ notice[a].cause \in Causes
  BY NoticeAt DEF IInv, NoticeInv, NoticeTypes, AddJob
<1>2. /\ n \in NoticeSet /\ n.pc = "queued" /\ n.cause = notice[a].cause
      /\ n.took = notice[a].took /\ n.doubt = notice[a].doubt
  BY <1>1 DEF NoticeSet
<1>3. notice' = [notice EXCEPT ![a] = n] /\ UNCHANGED <<now, until, sent>> /\ Added(a)
  BY DEF AddJob
<1>4. JobInv' /\ \A b \in AlarmIds \ {a} : job'[b] = job[b]  BY <1>3, AddedTyped
<1>. HIDE DEF n
<1>5. NotYetQueued'  BY <1>1, <1>2, <1>3, <1>4 DEF NotYetQueued, IInv
<1>6. n.pc \notin {"none", "suppressed"} /\ n.pc \in Told  BY <1>2 DEF Told
<1>. QED  BY <1>1, <1>2, <1>3, <1>4, <1>5, <1>6, NoticeMoves

LEMMA AddUnansweredStep ==
  ASSUME IInv, NEW a \in AlarmIds, AddUnanswered(a)
  PROVE  IInv'
<1>. DEFINE n == [notice[a] EXCEPT !.again = TRUE]
<1>1. /\ notice \in [AlarmIds -> NoticeSet] /\ notice[a] \in NoticeSet
      /\ notice[a].pc = "add" /\ notice[a].cause \in Causes
  BY NoticeAt DEF IInv, NoticeInv, NoticeTypes, AddUnanswered
<1>2. /\ n \in NoticeSet /\ n.pc = "add" /\ n.cause = notice[a].cause
      /\ n.took = notice[a].took /\ n.doubt = notice[a].doubt /\ n.again
  BY <1>1 DEF NoticeSet
<1>3. notice' = [notice EXCEPT ![a] = n] /\ UNCHANGED <<now, until, sent>> /\ Added(a)
  BY DEF AddUnanswered
<1>4. JobInv' /\ \A b \in AlarmIds \ {a} : job'[b] = job[b]  BY <1>3, AddedTyped
<1>. HIDE DEF n
<1>5. NotYetQueued'  BY <1>1, <1>2, <1>3, <1>4 DEF NotYetQueued, IInv
<1>6. n.pc \notin {"none", "suppressed"} /\ n.pc \in Told  BY <1>2 DEF Told
<1>. QED  BY <1>1, <1>2, <1>3, <1>4, <1>5, <1>6, NoticeMoves

LEMMA RedisFailsStep ==
  ASSUME IInv, NEW a \in AlarmIds, RedisFails(a)
  PROVE  IInv'
<1>. DEFINE q == IF notice[a].pc = "set" THEN "failed" ELSE "lost"
            n == [notice[a] EXCEPT !.pc = q]
<1>1. /\ notice \in [AlarmIds -> NoticeSet] /\ notice[a] \in NoticeSet
      /\ notice[a].pc \in {"set", "add"} /\ notice[a].cause \in Causes
  BY NoticeAt DEF IInv, NoticeInv, NoticeTypes, RedisFails
<1>2. \/ notice[a].pc = "set" /\ q = "failed"
      \/ notice[a].pc = "add" /\ q = "lost"
  BY <1>1
<1>3. notice' = [notice EXCEPT ![a] = n]  BY DEF RedisFails
<1>. HIDE DEF q
<1>4. /\ n \in NoticeSet /\ n.pc = q /\ n.cause = notice[a].cause
      /\ n.took = notice[a].took /\ n.doubt = notice[a].doubt
  BY <1>1, <1>2 DEF NoticeSet
<1>. HIDE DEF n
<1>5. NotYetQueued' /\ JobInv'
  BY <1>1, <1>2, <1>3, <1>4
     DEF RedisFails, NotYetQueued, IInv, JobInv, JobTypes, JobsAlive
<1>6. n.pc \notin {"none", "suppressed"} /\ (notice[a].pc \in Told => n.pc \in Told)
  BY <1>2, <1>4 DEF Told
<1>. QED  BY <1>1, <1>3, <1>4, <1>5, <1>6, NoticeMoves DEF RedisFails

(* A SET that finds the key free: alarm a takes it, at state q of its call.  *)
TakesKey(a, q, d) ==
  /\ until[notice[a].cause] <= now
  /\ until' = [until EXCEPT ![notice[a].cause] = now + Suppress]
  /\ notice' = [notice EXCEPT ![a] = [notice[a] EXCEPT !.pc = q, !.took = @ \cup {now},
                                                       !.doubt = d]]

LEMMA TakenStep ==
  ASSUME IInv, NEW a \in AlarmIds, notice[a].pc = "set",
         NEW q \in {"set", "add"}, NEW d \in BOOLEAN, TakesKey(a, q, d),
         notice[a].doubt => d, q \in Told \/ d, UNCHANGED <<now, job, sent>>
  PROVE  IInv'
<1>. DEFINE c == notice[a].cause
            n == [notice[a] EXCEPT !.pc = q, !.took = @ \cup {now}, !.doubt = d]
<1>1. /\ notice \in [AlarmIds -> NoticeSet] /\ notice[a] \in NoticeSet /\ c \in Causes
      /\ job[a].pc = "none"
  BY NoticeAt DEF IInv, NoticeInv, NoticeTypes
<1>2. now \in Nat /\ until \in [Causes -> Nat] /\ Suppress \in Nat /\ MaxTime \in Nat
  BY CountsAssumption DEF IInv, NoticeInv, NoticeTypes
<1>3. /\ n \in NoticeSet /\ n.pc = q /\ n.cause = c /\ n.took = notice[a].took \cup {now}
      /\ n.doubt = d
  BY <1>1, <1>2 DEF NoticeSet
<1>4. notice' = [notice EXCEPT ![a] = n] /\ until' = [until EXCEPT ![c] = now + Suppress]
      /\ until[c] <= now
  BY DEF TakesKey
<1>. HIDE DEF n
<1>5. notice'[a] = n /\ \A b \in AlarmIds \ {a} : notice'[b] = notice[b]  BY <1>1, <1>4
<1>6. notice' \in [AlarmIds -> NoticeSet] /\ until' \in [Causes -> Nat]
  BY <1>1, <1>2, <1>3, <1>4
<1>7. NoticesCaused'  BY <1>1, <1>3, <1>5 DEF NoticesCaused, IInv, NoticeInv
<1>8. NoticesStay  BY <1>1, <1>3, <1>5 DEF NoticesStay, Told
<1>9. KeysHeld'
  <2>. SUFFICES ASSUME NEW x \in Causes, until'[x] # 0
                PROVE  \E b \in AlarmIds : Holds(b, x)'
    BY DEF KeysHeld
  <2>1. CASE x = c
    <3>1. until'[x] = now + Suppress /\ now <= now' /\ now \in notice'[a].took
      BY <2>1, <1>1, <1>2, <1>3, <1>4, <1>5
    <3>2. notice'[a].cause = x /\ (notice'[a].pc \in Told \/ notice'[a].doubt)
      BY <2>1, <1>3, <1>5
    <3>3. Holds(a, x)'  BY <3>1, <3>2 DEF Holds, Taker
    <3>. QED  BY <3>3
  <2>2. CASE x # c
    <3>1. until'[x] = until[x]  BY <2>2, <1>2, <1>4
    <3>2. PICK b \in AlarmIds : Holds(b, x)
      BY <3>1 DEF IInv, NoticeInv, KeysHeld
    <3>3. b # a  BY <2>2, <3>2 DEF Holds
    <3>4. Holds(b, x)'  BY <3>1, <3>2, <3>3, <1>5 DEF Holds, Taker
    <3>. QED  BY <3>4
  <2>. QED  BY <2>1, <2>2
<1>10. SilentUnderAKey'  BY <1>8, SilentStays DEF IInv, NoticeInv
<1>11. JobInv'  BY DEF IInv, JobInv, JobTypes, JobsAlive
<1>12. NotYetQueued'  BY <1>1, <1>5 DEF NotYetQueued, IInv
<1>13. NoticeTypes'  BY <1>6 DEF NoticeTypes, IInv, NoticeInv
<1>. QED  BY <1>7, <1>9, <1>10, <1>11, <1>12, <1>13 DEF IInv, NoticeInv

(* Who finds the key taken has a holder, itself if Redis's answer was lost.  *)
LEMMA SuppressedStep ==
  ASSUME IInv, NEW a \in AlarmIds, notice[a].pc = "set", now < until[notice[a].cause],
         notice' = [notice EXCEPT ![a].pc = "suppressed", ![a].at = now],
         UNCHANGED <<now, until, job, sent>>
  PROVE  IInv'
<1>. DEFINE c == notice[a].cause
            n == [notice[a] EXCEPT !.pc = "suppressed", !.at = now]
<1>1. /\ notice \in [AlarmIds -> NoticeSet] /\ notice[a] \in NoticeSet /\ c \in Causes
  BY NoticeAt DEF IInv, NoticeInv, NoticeTypes
<1>2. now \in Nat /\ until \in [Causes -> Nat] /\ Suppress \in Nat /\ MaxTime \in Nat
  BY CountsAssumption DEF IInv, NoticeInv, NoticeTypes
<1>3. /\ n \in NoticeSet /\ n.pc = "suppressed" /\ n.cause = c /\ n.took = notice[a].took
      /\ n.doubt = notice[a].doubt /\ n.at = now
  BY <1>1, <1>2 DEF NoticeSet
<1>4. notice' = [notice EXCEPT ![a] = n]  OBVIOUS
<1>. HIDE DEF n
<1>5. notice'[a] = n /\ \A b \in AlarmIds \ {a} : notice'[b] = notice[b]  BY <1>1, <1>4
<1>6. notice' \in [AlarmIds -> NoticeSet]  BY <1>1, <1>3, <1>4
<1>7. NoticesCaused'  BY <1>1, <1>3, <1>5 DEF NoticesCaused, IInv, NoticeInv
<1>8. KeysHeld'
  <2>. SUFFICES ASSUME NEW x \in Causes, until[x] # 0
                PROVE  \E b \in AlarmIds : Holds(b, x)'
    BY DEF KeysHeld
  <2>1. PICK b \in AlarmIds : Holds(b, x)  BY DEF IInv, NoticeInv, KeysHeld
  <2>2. CASE b = a
    <3>1. notice[a].doubt  BY <2>1, <2>2 DEF Holds, Taker, Told
    <3>2. Holds(b, x)'  BY <2>1, <2>2, <3>1, <1>3, <1>5 DEF Holds, Taker
    <3>. QED  BY <3>2
  <2>3. CASE b # a
    <3>1. Holds(b, x)'  BY <2>1, <2>3, <1>5 DEF Holds, Taker
    <3>. QED  BY <3>1
  <2>. QED  BY <2>2, <2>3
<1>9. SilentUnderAKey'
  <2>. SUFFICES ASSUME NEW s \in AlarmIds, notice'[s].pc = "suppressed"
                PROVE  \E b \in AlarmIds :
                         /\ notice'[b].cause = notice'[s].cause
                         /\ \E t \in notice'[b].took :
                              t <= notice'[s].at /\ notice'[s].at < t + Suppress
                         /\ \/ b # s /\ notice'[b].pc \in Told
                            \/ notice'[b].doubt
    BY DEF SilentUnderAKey, Told
  <2>1. CASE s = a
    <3>1. until[c] # 0  BY <1>1, <1>2
    <3>2. PICK b \in AlarmIds : Holds(b, c)
      BY <3>1, <1>1 DEF IInv, NoticeInv, KeysHeld
    <3>3. /\ notice[b].cause = c /\ (notice[b].pc \in Told \/ notice[b].doubt)
          /\ \E t \in notice[b].took : t <= now /\ now < t + Suppress
      BY <3>2 DEF Holds, Taker
    <3>4. /\ notice'[b].took = notice[b].took /\ notice'[b].doubt = notice[b].doubt
          /\ notice'[b].cause = notice[b].cause /\ notice'[s].cause = c /\ notice'[s].at = now
          /\ b # a => notice'[b].pc = notice[b].pc
      BY <2>1, <1>3, <1>5
    <3>5. notice[a].pc \notin Told  BY DEF Told
    <3>. QED  BY <2>1, <3>3, <3>4, <3>5
  <2>2. CASE s # a
    <3>1. notice'[s] = notice[s]  BY <2>2, <1>5
    <3>2. PICK b \in AlarmIds :
            /\ notice[b].cause = notice[s].cause
            /\ \E t \in notice[b].took : t <= notice[s].at /\ notice[s].at < t + Suppress
            /\ \/ b # s /\ notice[b].pc \in Told
               \/ notice[b].doubt
      BY <3>1 DEF IInv, NoticeInv, SilentUnderAKey, Told
    <3>3. CASE b = a  BY <3>1, <3>2, <3>3, <1>3, <1>5 DEF Told
    <3>4. CASE b # a  BY <3>1, <3>2, <3>4, <1>5
    <3>. QED  BY <3>3, <3>4
  <2>. QED  BY <2>1, <2>2
<1>10. JobInv'  BY DEF IInv, JobInv, JobTypes, JobsAlive
<1>11. NotYetQueued'  BY <1>3, <1>5 DEF NotYetQueued, IInv
<1>12. NoticeTypes'  BY <1>6 DEF NoticeTypes, IInv, NoticeInv
<1>. QED  BY <1>7, <1>8, <1>9, <1>10, <1>11, <1>12 DEF IInv, NoticeInv

(* The two outcomes of a SET whose answer arrives.                           *)
LEMMA SetKeySplit ==
  ASSUME IInv, NEW a \in AlarmIds, SetKey(a)
  PROVE  \/ TakesKey(a, "add", notice[a].doubt)
         \/ /\ now < until[notice[a].cause] /\ UNCHANGED until
            /\ notice' = [notice EXCEPT ![a].pc = "suppressed", ![a].at = now]
<1>1. notice[a] \in NoticeSet  BY NoticeAt
<1>. DEFINE n == [notice[a] EXCEPT !.pc = "add", !.took = @ \cup {now},
                                   !.doubt = notice[a].doubt]
<1>2. [notice EXCEPT ![a].pc = "add", ![a].took = @ \cup {now}] = [notice EXCEPT ![a] = n]
  BY <1>1 DEF IInv, NoticeInv, NoticeTypes, NoticeSet
<1>. QED  BY <1>2 DEF SetKey, TakesKey

LEMMA SetKeyStep ==
  ASSUME IInv, NEW a \in AlarmIds, SetKey(a)
  PROVE  IInv'
<1>1. notice[a] \in NoticeSet /\ notice[a].pc = "set"  BY NoticeAt DEF SetKey
<1>2. notice[a].doubt \in BOOLEAN /\ "add" \in Told  BY <1>1 DEF NoticeSet, Told
<1>3. UNCHANGED <<now, job, sent>>  BY DEF SetKey
<1>4. CASE TakesKey(a, "add", notice[a].doubt)  BY <1>1, <1>2, <1>3, <1>4, TakenStep
<1>5. CASE ~TakesKey(a, "add", notice[a].doubt)
  BY <1>1, <1>3, <1>5, SetKeySplit, SuppressedStep
<1>. QED  BY <1>4, <1>5

LEMMA SetUnansweredTakes ==
  ASSUME IInv, NEW a \in AlarmIds, SetUnanswered(a)
  PROVE  TakesKey(a, "set", TRUE) /\ notice[a].pc = "set"
<1>1. notice[a] \in NoticeSet /\ notice[a].pc = "set"  BY NoticeAt DEF SetUnanswered
<1>. DEFINE n == [notice[a] EXCEPT !.pc = "set", !.took = @ \cup {now}, !.doubt = TRUE]
<1>2. [notice EXCEPT ![a].took = @ \cup {now}, ![a].doubt = TRUE] = [notice EXCEPT ![a] = n]
  BY <1>1 DEF IInv, NoticeInv, NoticeTypes, NoticeSet
<1>. QED  BY <1>1, <1>2 DEF SetUnanswered, TakesKey

LEMMA SetUnansweredStep ==
  ASSUME IInv, NEW a \in AlarmIds, SetUnanswered(a)
  PROVE  IInv'
  BY SetUnansweredTakes, TakenStep DEF SetUnanswered

-----------------------------------------------------------------------------
LEMMA TimePassesStep ==
  ASSUME IInv, TimePasses
  PROVE  IInv'
<1>1. now \in Nat /\ MaxTime \in Nat /\ now' = now + 1 /\ now' \in 0 .. MaxTime
  BY CountsAssumption DEF IInv, NoticeInv, NoticeTypes, TimePasses
<1>2. UNCHANGED <<until, notice, job, sent>>  BY DEF TimePasses
<1>3. KeysHeld'
  <2>. SUFFICES ASSUME NEW c \in Causes, until[c] # 0
                PROVE  \E b \in AlarmIds : Holds(b, c)'
    BY <1>2 DEF KeysHeld
  <2>1. PICK b \in AlarmIds : Holds(b, c)  BY DEF IInv, NoticeInv, KeysHeld
  <2>2. notice[b] \in NoticeSet  BY DEF IInv, NoticeInv, NoticeTypes
  <2>3. notice[b].took \subseteq Nat  BY <2>2 DEF NoticeSet
  <2>4. Holds(b, c)'  BY <1>1, <1>2, <2>1, <2>3 DEF Holds, Taker
  <2>. QED  BY <2>4
<1>. QED
  BY <1>1, <1>2, <1>3
     DEF IInv, NoticeInv, NoticeTypes, NoticesCaused, SilentUnderAKey, NotYetQueued,
         JobInv, JobTypes, JobsAlive

LEMMA CrashStep ==
  ASSUME IInv, Crash
  PROVE  IInv'
<1>. DEFINE N(a) == [notice[a] EXCEPT !.pc = CASE @ = "set" -> "failed"
                                                [] @ = "add" -> "lost" [] OTHER -> @]
            J(a) == IF job[a].pc # "running" THEN job[a]
                    ELSE [job[a] EXCEPT !.pc = IF job[a].stalls < Stalls
                                                 THEN "waiting" ELSE "failed",
                                        !.stalls = @ + 1, !.clean = FALSE]
<1>1. notice' = [a \in AlarmIds |-> N(a)] /\ job' = [a \in AlarmIds |-> J(a)]
  BY DEF Crash
<1>2. ASSUME NEW a \in AlarmIds
      PROVE  /\ N(a) \in NoticeSet /\ N(a).cause = notice[a].cause
             /\ N(a).took = notice[a].took /\ N(a).doubt = notice[a].doubt
             /\ N(a).pc = (CASE notice[a].pc = "set" -> "failed"
                             [] notice[a].pc = "add" -> "lost" [] OTHER -> notice[a].pc)
             /\ notice[a].pc \notin {"set", "add"} => N(a) = notice[a]
  <2>1. notice[a] \in NoticeSet  BY DEF IInv, NoticeInv, NoticeTypes
  <2>2. CASE notice[a].pc = "set"  BY <2>1, <2>2 DEF NoticeSet
  <2>3. CASE notice[a].pc = "add"  BY <2>1, <2>3 DEF NoticeSet
  <2>4. CASE notice[a].pc \notin {"set", "add"}  BY <2>1, <2>4 DEF NoticeSet
  <2>. QED  BY <2>2, <2>3, <2>4
<1>3. ASSUME NEW a \in AlarmIds
      PROVE  /\ J(a) \in JobSet /\ JobAlive(J(a))
             /\ job[a].pc = "none" => J(a).pc = "none"
  <2>1. job[a] \in JobSet /\ JobAlive(job[a])  BY JobAt
  <2>2. CASE job[a].pc # "running"  BY <2>1, <2>2
  <2>3. CASE job[a].pc = "running"
    <3>. DEFINE q == IF job[a].stalls < Stalls THEN "waiting" ELSE "failed"
    <3>1. /\ q \in {"waiting", "failed"} /\ job[a].stalls + 1 \in 0 .. Stalls + 1
          /\ q = "waiting" => job[a].stalls + 1 <= Stalls
      BY <2>1, <2>3, CountsAssumption DEF JobSet, JobAlive
    <3>2. J(a) = [job[a] EXCEPT !.pc = q, !.stalls = @ + 1, !.clean = FALSE]  BY <2>3
    <3>. HIDE DEF q
    <3>3. J(a) \in JobSet  BY <2>1, <3>1, <3>2 DEF JobSet
    <3>4. JobAlive(J(a))  BY <2>1, <2>3, <3>1, <3>2 DEF JobAlive, JobSet
    <3>. QED  BY <2>3, <3>3, <3>4
  <2>. QED  BY <2>2, <2>3
<1>4. \A a \in AlarmIds : notice'[a] = N(a) /\ job'[a] = J(a)  BY <1>1
<1>5. /\ notice' \in [AlarmIds -> NoticeSet] /\ job' \in [AlarmIds -> JobSet]
  BY <1>1, <1>2, <1>3
<1>. HIDE DEF N, J
<1>6. NoticesCaused' /\ NoticesStay
  BY <1>2, <1>4 DEF NoticesCaused, NoticesStay, Told, IInv, NoticeInv
<1>7. NotYetQueued'
  BY <1>2, <1>3, <1>4 DEF NotYetQueued, IInv
<1>8. JobInv'
  BY <1>3, <1>4, <1>5 DEF JobInv, JobTypes, JobsAlive, IInv, Crash
<1>. QED  BY <1>5, <1>6, <1>7, <1>8, NoticesStep DEF Crash

-----------------------------------------------------------------------------
LEMMA InitIInv == Init => IInv
<1>. SUFFICES ASSUME Init PROVE IInv  OBVIOUS
<1>1. Untold \in NoticeSet /\ Untold.pc = "none" /\ Untold.took = {}
  BY DEF Untold, NoticeSet
<1>2. \A a \in AlarmIds : notice[a] = Untold /\ job[a] = NoJob  BY DEF Init
<1>3. JobInv  BY <1>2, NoJobTyped DEF Init, JobInv, JobTypes, JobsAlive
<1>4. NoticeTypes  BY <1>1, CountsAssumption DEF Init, NoticeTypes
<1>5. NoticesCaused /\ SilentUnderAKey /\ NotYetQueued
  BY <1>1, <1>2, NoJobTyped DEF NoticesCaused, SilentUnderAKey, NotYetQueued
<1>6. KeysHeld  BY DEF Init, KeysHeld
<1>. QED  BY <1>3, <1>4, <1>5, <1>6 DEF IInv, NoticeInv

LEMMA NextIInv ==
  ASSUME IInv, [Next]_vars
  PROVE  IInv'
<1>1. ASSUME NEW a \in AlarmIds, \E c \in Causes : Open(a, c) PROVE IInv'
  BY <1>1, OpenStep
<1>2. ASSUME NEW a \in AlarmIds,
             SetKey(a) \/ SetUnanswered(a) \/ AddJob(a) \/ AddUnanswered(a)
               \/ RedisFails(a) \/ Take(a) \/ Attempt(a)
      PROVE  IInv'
  BY <1>2, SetKeyStep, SetUnansweredStep, AddJobStep, AddUnansweredStep, RedisFailsStep,
     TakeStep, AttemptStep
<1>3. CASE TimePasses \/ Crash  BY <1>3, TimePassesStep, CrashStep
<1>4. CASE UNCHANGED vars
  <2>1. NoticeInv'  BY <1>4, NoticesLeft DEF vars, IInv
  <2>. QED
    BY <1>4, <2>1 DEF vars, IInv, JobInv, JobTypes, JobsAlive, NotYetQueued
<1>. QED  BY <1>1, <1>2, <1>3, <1>4 DEF Next

(* Jobs and notices stay what they are meant to be; no attempt begins        *)
(* without an attempt left, none goes past the plan of channels.             *)
THEOREM TypeCorrect == Spec => []TypeOK
<1>1. IInv /\ [Next]_vars => IInv'  BY NextIInv
<1>2. IInv => TypeOK  BY TypesSplit DEF IInv, JobInv, NoticeInv
<1>. QED  BY InitIInv, <1>1, <1>2, PTL DEF Spec

(* An alarm is silent only while a key of its kind lives, for any number of  *)
(* alarms and causes and any suppression time, whenever Redis fails, answers *)
(* of it are lost, commands are sent again or the API dies; and without a    *)
(* lost answer to its holder's SET, only for another that is or was to be    *)
(* told.                                                                     *)
THEOREM AlwaysSilentUnderAKey == Spec => []SilentUnderAKey
<1>1. IInv /\ [Next]_vars => IInv'  BY NextIInv
<1>2. IInv => SilentUnderAKey  BY DEF IInv, NoticeInv
<1>. QED  BY InitIInv, <1>1, <1>2, PTL DEF Spec

-----------------------------------------------------------------------------
(* Retries, for a plan that asks every channel once, the webhook first, as   *)
(* the default plans do.                                                     *)
WebhookFirst == \A i \in DOMAIN Channels : Channels[i] = "webhook" => i = 1
NoRepeats == \A i, k \in DOMAIN Channels : Channels[i] = Channels[k] => i = k

(* What a job whose records are sound has sent: nothing before an attempt,   *)
(* in an attempt only what lies behind.                                      *)
JobTold(j, s) ==
  j.clean =>
    /\ \A ch \in AnyChannel : s[ch] <= 1
    /\ j.pc \in {"none", "waiting"} => \A ch \in AnyChannel : s[ch] = 0
    /\ j.pc = "running" =>
         \A ch \in AnyChannel : s[ch] # 0 => \E i \in 1 .. j.next - 1 : Channels[i] = ch

ToldInv == IInv /\ \A a \in AlarmIds : JobTold(job[a], sent[a])

LEMMA AdvancedTold ==
  ASSUME NEW j \in JobSet, j.pc = "running", NEW s \in [AnyChannel -> 0 .. 2], JobTold(j, s)
  PROVE  JobTold(Advanced(j), s)
<1>1. CASE j.next = Len(Channels)
  <2>1. Advanced(j) = [j EXCEPT !.pc = "done"]  BY <1>1 DEF Advanced
  <2>. QED  BY <2>1 DEF JobSet, JobTold
<1>2. CASE j.next # Len(Channels)
  <2>. DEFINE k == [j EXCEPT !.next = @ + 1]
  <2>1. Advanced(j) = k  BY <1>2 DEF Advanced
  <2>2. k.clean = j.clean /\ k.pc = "running" /\ k.next = j.next + 1 /\ j.next \in Nat
    BY ChannelsTyped DEF JobSet
  <2>. HIDE DEF k
  <2>3. \A i : i \in 1 .. j.next - 1 => i \in 1 .. k.next - 1  BY <2>2
  <2>4. JobTold(k, s)  BY <2>2, <2>3 DEF JobTold
  <2>. QED  BY <2>1, <2>4
<1>. QED  BY <1>1, <1>2

(* The channel at hand has sent nothing yet; its delivery lies behind.       *)
LEMMA DeliveredTold ==
  ASSUME NoRepeats, NEW j \in JobSet, j.pc = "running",
         NEW s \in [AnyChannel -> 0 .. 2], JobTold(j, s)
  PROVE  JobTold(Advanced(j), [s EXCEPT ![Channels[j.next]] = IF @ = 0 THEN 1 ELSE 2])
<1>. DEFINE x == Channels[j.next]
            z == [s EXCEPT ![x] = IF @ = 0 THEN 1 ELSE 2]
<1>1. /\ j.next \in DOMAIN Channels /\ x \in AnyChannel /\ j.next \in 1 .. Len(Channels)
      /\ Len(Channels) \in Nat /\ DOMAIN Channels = 1 .. Len(Channels)
  BY ChannelsTyped DEF JobSet
<1>. SUFFICES ASSUME j.clean PROVE JobTold(Advanced(j), z)
  <2>1. ASSUME ~j.clean PROVE ~Advanced(j).clean
    BY <2>1 DEF JobSet, Advanced
  <2>. QED  BY <2>1 DEF JobTold
<1>2. s[x] = 0
  <2>1. \A i \in 1 .. j.next - 1 : Channels[i] # x
    BY <1>1 DEF NoRepeats
  <2>. QED  BY <1>1, <2>1 DEF JobTold
<1>3. \A ch \in AnyChannel : z[ch] = IF ch = x THEN 1 ELSE s[ch]  BY <1>1, <1>2
<1>. HIDE DEF z
<1>4. \A ch \in AnyChannel : z[ch] <= 1  BY <1>3 DEF JobTold
<1>5. CASE j.next = Len(Channels)
  <2>1. Advanced(j) = [j EXCEPT !.pc = "done"]  BY <1>5 DEF Advanced
  <2>. QED  BY <1>4, <2>1 DEF JobSet, JobTold
<1>6. CASE j.next # Len(Channels)
  <2>. DEFINE k == [j EXCEPT !.next = @ + 1]
  <2>1. Advanced(j) = k  BY <1>6 DEF Advanced
  <2>2. k.pc = "running" /\ k.next = j.next + 1
    BY DEF JobSet
  <2>. HIDE DEF k
  <2>3. ASSUME NEW ch \in AnyChannel, z[ch] # 0
        PROVE  \E i \in 1 .. k.next - 1 : Channels[i] = ch
    <3>1. CASE ch = x  BY <1>1, <2>2, <3>1
    <3>2. CASE ch # x
      <4>1. PICK i \in 1 .. j.next - 1 : Channels[i] = ch
        BY <1>3, <2>3, <3>2 DEF JobTold
      <4>2. i \in 1 .. k.next - 1  BY <1>1, <2>2, <4>1
      <4>. QED  BY <4>1, <4>2
    <3>. QED  BY <3>1, <3>2
  <2>4. JobTold(k, z)  BY <1>4, <2>2, <2>3 DEF JobTold
  <2>. QED  BY <2>1, <2>4
<1>. QED  BY <1>5, <1>6

(* A webhook that fails comes before everything else.                        *)
LEMMA FailedTold ==
  ASSUME WebhookFirst, NEW a \in AlarmIds, job[a] \in JobSet, job[a].pc = "running",
         NEW s \in [AnyChannel -> 0 .. 2], JobTold(job[a], s)
  PROVE  JobTold(AfterFailure(a, job[a]), s)
<1>. DEFINE j == job[a]
<1>1. CASE Channel(a) = "webhook"
  <2>1. j.next = 1  BY <1>1 DEF WebhookFirst, Channel, JobSet
  <2>. DEFINE q == IF j.tries + 1 < Attempts THEN "waiting" ELSE "failed"
              k == [j EXCEPT !.pc = q, !.tries = @ + 1]
  <2>2. AfterFailure(a, j) = k  BY <1>1 DEF AfterFailure, AttemptOver
  <2>3. q # "running"  OBVIOUS
  <2>. HIDE DEF q
  <2>4. k.clean = j.clean /\ k.pc = q  BY DEF JobSet
  <2>. HIDE DEF k
  <2>5. j.clean => \A ch \in AnyChannel : s[ch] = 0  BY <2>1 DEF JobTold
  <2>6. JobTold(k, s)  BY <2>3, <2>4, <2>5 DEF JobTold
  <2>. QED  BY <2>2, <2>6
<1>2. CASE Channel(a) # "webhook"
  BY <1>2, AdvancedTold DEF AfterFailure
<1>. QED  BY <1>1, <1>2

LEMMA UncleanTold ==
  ASSUME NEW a \in AlarmIds, NEW j \in JobSet, ~j.clean, NEW s,
         NEW k \in {Advanced(j), AttemptOver(j), AfterFailure(a, j)}
  PROVE  JobTold(k, s)
<1>1. ~Advanced(j).clean  BY DEF Advanced, JobSet
<1>2. ~AttemptOver(j).clean
  <2>. DEFINE q == IF j.tries + 1 < Attempts THEN "waiting" ELSE "failed"
              t == j.tries + 1
  <2>1. AttemptOver(j) = [j EXCEPT !.pc = q, !.tries = t]  BY DEF AttemptOver
  <2>. HIDE DEF q, t
  <2>. QED  BY <2>1 DEF JobSet
<1>. QED  BY <1>1, <1>2 DEF JobTold, AfterFailure

LEMMA SentAt ==
  ASSUME ToldInv, NEW a \in AlarmIds
  PROVE  /\ job[a] \in JobSet /\ sent[a] \in [AnyChannel -> 0 .. 2]
         /\ JobTold(job[a], sent[a])
         /\ job \in [AlarmIds -> JobSet] /\ sent \in [AlarmIds -> [AnyChannel -> 0 .. 2]]
  BY DEF ToldInv, IInv, JobInv, JobTypes

(* Alarm a's job becomes j, and s has been sent.                             *)
LEMMA ToldMoves ==
  ASSUME ToldInv, IInv', NEW a \in AlarmIds, NEW j, NEW s,
         job' = [job EXCEPT ![a] = j], sent' = [sent EXCEPT ![a] = s], JobTold(j, s)
  PROVE  ToldInv'
<1>1. \A b \in AlarmIds : job[b] \in JobSet /\ JobTold(job[b], sent[b])  BY SentAt
<1>2. \A b \in AlarmIds \ {a} : job'[b] = job[b] /\ sent'[b] = sent[b]  BY SentAt
<1>3. job'[a] = j /\ sent'[a] = s  BY SentAt
<1>. QED  BY <1>1, <1>2, <1>3 DEF ToldInv

LEMMA AttemptTold ==
  ASSUME WebhookFirst, NoRepeats, ToldInv, IInv', NEW a \in AlarmIds, Attempt(a)
  PROVE  ToldInv'
<1>. DEFINE j == job[a]
            k == [j EXCEPT !.clean = FALSE]
            s == sent[a]
            z == [s EXCEPT ![Channels[j.next]] = IF @ = 0 THEN 1 ELSE 2]
<1>1. j \in JobSet /\ s \in [AnyChannel -> 0 .. 2] /\ JobTold(j, s)  BY SentAt
<1>2. j.pc = "running"  BY DEF Attempt, Deliver, Skip, Fail, RecordFails
<1>3. k \in JobSet /\ ~k.clean  BY <1>1 DEF JobSet
<1>4. Sends(a) => sent' = [sent EXCEPT ![a] = z]  BY DEF Sends, Channel
<1>5. UNCHANGED sent => sent' = [sent EXCEPT ![a] = s]  BY SentAt
<1>6. JobTold(Advanced(j), s) /\ JobTold(Advanced(j), z) /\ JobTold(AfterFailure(a, j), s)
  BY <1>1, <1>2, AdvancedTold, DeliveredTold, FailedTold
<1>7. /\ JobTold(AfterFailure(a, k), z) /\ JobTold(AttemptOver(k), z)
      /\ JobTold(AfterFailure(a, k), s) /\ JobTold(AttemptOver(k), s)
  BY <1>3, UncleanTold
<1>8. \/ job' = [job EXCEPT ![a] = Advanced(j)] /\ (Sends(a) \/ UNCHANGED sent)
      \/ job' = [job EXCEPT ![a] = AfterFailure(a, j)] /\ UNCHANGED sent
      \/ job' = [job EXCEPT ![a] = AfterFailure(a, k)] /\ (Sends(a) \/ UNCHANGED sent)
      \/ job' = [job EXCEPT ![a] = AttemptOver(k)] /\ (Sends(a) \/ UNCHANGED sent)
  BY DEF Attempt, Deliver, Skip, Fail, RecordFails
<1>. HIDE DEF j, k, s, z
<1>. QED  BY <1>4, <1>5, <1>6, <1>7, <1>8, ToldMoves

LEMMA TakeTold ==
  ASSUME ToldInv, IInv', NEW a \in AlarmIds, Take(a)
  PROVE  ToldInv'
<1>. DEFINE k == [job[a] EXCEPT !.pc = "running", !.next = 1]
            s == sent[a]
<1>1. job[a] \in JobSet /\ s \in [AnyChannel -> 0 .. 2] /\ JobTold(job[a], s)  BY SentAt
<1>2. k.pc = "running" /\ k.clean = job[a].clean  BY <1>1 DEF JobSet
<1>3. JobTold(k, s)  BY <1>1, <1>2 DEF JobTold, Take
<1>4. job' = [job EXCEPT ![a] = k] /\ sent' = [sent EXCEPT ![a] = s]
  BY SentAt DEF Take
<1>. HIDE DEF k, s
<1>. QED  BY <1>3, <1>4, ToldMoves

LEMMA AddedTold ==
  ASSUME ToldInv, IInv', NEW a \in AlarmIds, Added(a), UNCHANGED sent
  PROVE  ToldInv'
<1>. DEFINE s == sent[a]
<1>1. job[a] \in JobSet /\ s \in [AnyChannel -> 0 .. 2] /\ JobTold(job[a], s)  BY SentAt
<1>2. sent' = [sent EXCEPT ![a] = s]  BY SentAt
<1>3. CASE job[a].pc = "none"
  <2>. DEFINE k == [job[a] EXCEPT !.pc = "waiting"]
  <2>1. k.pc = "waiting" /\ k.clean = job[a].clean  BY <1>1 DEF JobSet
  <2>2. job' = [job EXCEPT ![a] = k]  BY <1>3 DEF Added
  <2>. HIDE DEF k, s
  <2>3. JobTold(k, s)  BY <1>1, <1>3, <2>1 DEF JobTold
  <2>. QED  BY <1>2, <2>2, <2>3, ToldMoves
<1>4. CASE job[a].pc = "done"
  <2>. DEFINE k == [NoJob EXCEPT !.pc = "waiting", !.clean = FALSE]
  <2>1. ~k.clean  BY DEF NoJob
  <2>2. job' = [job EXCEPT ![a] = k]  BY <1>4 DEF Added
  <2>. HIDE DEF k, s
  <2>3. JobTold(k, s)  BY <2>1 DEF JobTold
  <2>. QED  BY <1>2, <2>2, <2>3, ToldMoves
<1>5. CASE job[a].pc \notin {"none", "done"}
  BY <1>5 DEF Added, ToldInv
<1>. QED  BY <1>3, <1>4, <1>5

LEMMA CrashTold ==
  ASSUME ToldInv, IInv', Crash
  PROVE  ToldInv'
<1>. SUFFICES ASSUME NEW a \in AlarmIds PROVE JobTold(job'[a], sent'[a])
  BY DEF ToldInv
<1>1. job[a] \in JobSet /\ JobTold(job[a], sent[a]) /\ sent' = sent
  BY SentAt DEF Crash
<1>2. CASE job[a].pc # "running"
  <2>1. job'[a] = job[a]  BY <1>2 DEF Crash
  <2>. QED  BY <1>1, <2>1
<1>3. CASE job[a].pc = "running"
  <2>. DEFINE q == IF job[a].stalls < Stalls THEN "waiting" ELSE "failed"
              n == job[a].stalls + 1
  <2>1. job'[a] = [job[a] EXCEPT !.pc = q, !.stalls = n, !.clean = FALSE]
    BY <1>3 DEF Crash
  <2>. HIDE DEF q, n
  <2>2. ~job'[a].clean  BY <1>1, <2>1 DEF JobSet
  <2>. QED  BY <2>2 DEF JobTold
<1>. QED  BY <1>2, <1>3

LEMMA InitTold == Init => ToldInv
<1>. SUFFICES ASSUME Init PROVE ToldInv  OBVIOUS
<1>1. \A a \in AlarmIds : job[a].pc = "none" /\ \A ch \in AnyChannel : sent[a][ch] = 0
  BY DEF Init, NoJob
<1>2. \A a \in AlarmIds : JobTold(job[a], sent[a])  BY <1>1 DEF JobTold
<1>. QED  BY <1>2, InitIInv DEF ToldInv

LEMMA NextTold ==
  ASSUME WebhookFirst, NoRepeats, ToldInv, [Next]_vars
  PROVE  ToldInv'
<1>1. IInv'  BY NextIInv DEF ToldInv
<1>2. ASSUME NEW a \in AlarmIds,
             (\E c \in Causes : Open(a, c)) \/ SetKey(a) \/ SetUnanswered(a) \/ RedisFails(a)
      PROVE  ToldInv'
  <2>1. UNCHANGED <<job, sent>>  BY <1>2 DEF Open, SetKey, SetUnanswered, RedisFails
  <2>. QED  BY <1>1, <2>1 DEF ToldInv
<1>3. ASSUME NEW a \in AlarmIds, AddJob(a) \/ AddUnanswered(a) \/ Take(a) \/ Attempt(a)
      PROVE  ToldInv'
  BY <1>1, <1>3, AddedTold, TakeTold, AttemptTold DEF AddJob, AddUnanswered
<1>4. CASE TimePasses \/ UNCHANGED vars
  <2>1. UNCHANGED <<job, sent>>  BY <1>4 DEF TimePasses, vars
  <2>. QED  BY <1>1, <2>1 DEF ToldInv
<1>5. CASE Crash  BY <1>1, <1>5, CrashTold
<1>. QED  BY <1>2, <1>3, <1>4, <1>5 DEF Next

(* Retries repeat no delivery as long as records are written and answers are *)
(* in time, for every plan that names no channel twice and begins with the   *)
(* webhook if it has one.                                                    *)
THEOREM AlwaysToldOnce ==
  ASSUME WebhookFirst, NoRepeats
  PROVE  Spec => []ToldOnce
<1>1. ToldInv /\ [Next]_vars => ToldInv'  BY NextTold
<1>2. ToldInv => ToldOnce  BY DEF ToldInv, ToldOnce, JobTold
<1>. QED  BY InitTold, <1>1, <1>2, PTL DEF Spec

-----------------------------------------------------------------------------
(* Suppression seen from the other side: a kind of alarm does not flood.     *)
FarApart(t, u) == t + Suppress <= u \/ u + Suppress <= t
NoFlood ==
  \A a, b \in AlarmIds : \A t \in notice[a].took, u \in notice[b].took :
    (a # b \/ t # u) /\ notice[a].cause = notice[b].cause => FarApart(t, u)

(* A key outlasts the suppression of everyone who has taken it; who is told  *)
(* has taken it.                                                             *)
KeysOutlast ==
  \A a \in AlarmIds : \A t \in notice[a].took : t + Suppress <= until[notice[a].cause]
ToldTook == \A a \in AlarmIds : notice[a].pc \in Told => notice[a].took # {}

FloodInv == NoFlood /\ KeysOutlast /\ ToldTook

(* A step by which nobody takes a key.                                       *)
LEMMA FloodStays ==
  ASSUME FloodInv, UNCHANGED until,
         \A a \in AlarmIds : /\ notice'[a].took = notice[a].took
                             /\ \/ notice[a].took = {}
                                \/ notice'[a].cause = notice[a].cause
                             /\ notice'[a].pc \in Told => notice[a].pc \in Told
  PROVE  FloodInv'
<1>1. NoFlood'  BY DEF FloodInv, NoFlood
<1>2. KeysOutlast'  BY DEF FloodInv, KeysOutlast
<1>3. ToldTook'  BY DEF FloodInv, ToldTook
<1>. QED  BY <1>1, <1>2, <1>3 DEF FloodInv

LEMMA TakenFlood ==
  ASSUME IInv, FloodInv, NEW a \in AlarmIds, notice[a].pc = "set",
         NEW q, NEW d, TakesKey(a, q, d)
  PROVE  FloodInv'
<1>. DEFINE c == notice[a].cause
            n == [notice[a] EXCEPT !.pc = q, !.took = @ \cup {now}, !.doubt = d]
<1>1. /\ notice \in [AlarmIds -> NoticeSet] /\ c \in Causes
      /\ \A b \in AlarmIds : notice[b].took # {} => notice[b].cause \in Causes
      /\ \A b \in AlarmIds : notice[b].took \subseteq Nat
      /\ now \in Nat /\ until \in [Causes -> Nat] /\ Suppress \in Nat
  BY NoticeAt, CountsAssumption
     DEF IInv, NoticeInv, NoticeTypes, NoticesCaused, NoticeSet
<1>2. notice[a] \in NoticeSet  BY <1>1
<1>3. n.took = notice[a].took \cup {now} /\ n.cause = c /\ n.pc = q
  BY <1>2 DEF NoticeSet
<1>4. /\ notice' = [notice EXCEPT ![a] = n] /\ until[c] <= now
      /\ until' = [until EXCEPT ![c] = now + Suppress]
  BY DEF TakesKey
<1>. HIDE DEF n
<1>5. /\ notice'[a] = n /\ \A b \in AlarmIds \ {a} : notice'[b] = notice[b]
      /\ \A x \in Causes : until'[x] = IF x = c THEN now + Suppress ELSE until[x]
  BY <1>1, <1>4
(* Whatever of this kind was taken before lies a suppression time behind.    *)
<1>6. ASSUME NEW b \in AlarmIds, notice'[b].cause = c, NEW t \in notice[b].took
      PROVE  t + Suppress <= now
  <2>1. notice[b].cause = c  BY <1>3, <1>5, <1>6
  <2>2. t + Suppress <= until[c]  BY <2>1, <1>6 DEF FloodInv, KeysOutlast
  <2>3. t \in Nat  BY <1>1
  <2>. QED  BY <1>1, <1>4, <2>2, <2>3
<1>7. ASSUME NEW b \in AlarmIds, NEW t \in notice'[b].took
      PROVE  /\ t \in Nat /\ notice'[b].cause = notice[b].cause
             /\ t \in notice[b].took \/ (b = a /\ t = now)
  BY <1>1, <1>3, <1>5, <1>7
<1>8. NoFlood'
  <2>. SUFFICES ASSUME NEW x \in AlarmIds, NEW y \in AlarmIds,
                       NEW t \in notice'[x].took, NEW u \in notice'[y].took,
                       x # y \/ t # u, notice'[x].cause = notice'[y].cause
                PROVE  FarApart(t, u)
    BY DEF NoFlood, FarApart
  <2>1. CASE t \in notice[x].took /\ u \in notice[y].took
    BY <2>1, <1>7 DEF FloodInv, NoFlood
  <2>2. CASE x = a /\ t = now /\ u \in notice[y].took
    <3>1. notice'[y].cause = c  BY <2>2, <1>3, <1>5
    <3>. QED  BY <2>2, <3>1, <1>6 DEF FarApart
  <2>3. CASE y = a /\ u = now /\ t \in notice[x].took
    <3>1. notice'[x].cause = c  BY <2>3, <1>3, <1>5
    <3>. QED  BY <2>3, <3>1, <1>6 DEF FarApart
  <2>4. t \in notice[x].took \/ (x = a /\ t = now)  BY <1>7
  <2>5. u \in notice[y].took \/ (y = a /\ u = now)  BY <1>7
  <2>. QED  BY <2>1, <2>2, <2>3, <2>4, <2>5
<1>9. KeysOutlast'
  <2>. SUFFICES ASSUME NEW b \in AlarmIds, NEW t \in notice'[b].took
                PROVE  t + Suppress <= until'[notice'[b].cause]
    BY DEF KeysOutlast
  <2>1. notice'[b].cause \in Causes  BY <1>1, <1>3, <1>5
  <2>2. CASE notice'[b].cause = c
    <3>1. until'[c] = now + Suppress  BY <1>1, <1>5
    <3>2. t = now \/ t + Suppress <= now  BY <2>2, <1>6, <1>7
    <3>. QED  BY <2>2, <3>1, <3>2, <1>1, <1>7
  <2>3. CASE notice'[b].cause # c
    <3>1. b # a /\ notice'[b] = notice[b]  BY <2>3, <1>3, <1>5
    <3>2. t + Suppress <= until[notice[b].cause]  BY <3>1 DEF FloodInv, KeysOutlast
    <3>. QED  BY <2>1, <2>3, <3>1, <3>2, <1>5
  <2>. QED  BY <2>2, <2>3
<1>10. ToldTook'  BY <1>3, <1>5 DEF FloodInv, ToldTook
<1>. QED  BY <1>8, <1>9, <1>10 DEF FloodInv

(* A step of one notice that takes no key.                                   *)
LEMMA NoticeFlood ==
  ASSUME IInv, FloodInv, UNCHANGED until, NEW a \in AlarmIds, NEW n,
         notice' = [notice EXCEPT ![a] = n], n.took = notice[a].took,
         notice[a].took = {} \/ n.cause = notice[a].cause,
         n.pc \in Told => notice[a].pc \in Told
  PROVE  FloodInv'
<1>1. notice \in [AlarmIds -> NoticeSet]  BY DEF IInv, NoticeInv, NoticeTypes
<1>2. notice'[a] = n /\ \A b \in AlarmIds \ {a} : notice'[b] = notice[b]  BY <1>1
<1>. QED  BY <1>2, FloodStays

LEMMA NextFlood ==
  ASSUME IInv, FloodInv, [Next]_vars
  PROVE  FloodInv'
<1>t. notice \in [AlarmIds -> NoticeSet] /\ \A a \in AlarmIds : notice[a] \in NoticeSet
  BY DEF IInv, NoticeInv, NoticeTypes
<1>1. ASSUME NEW a \in AlarmIds, NEW c \in Causes, Open(a, c) PROVE FloodInv'
  <2>. DEFINE n == [Untold EXCEPT !.pc = "set", !.cause = c]
  <2>1. n.took = {} /\ n.pc = "set" /\ n.pc \notin Told  BY DEF Untold, Told
  <2>2. notice[a].took = {}  BY <1>1 DEF Open, IInv, NoticeInv, NoticesCaused
  <2>3. notice' = [notice EXCEPT ![a] = n] /\ UNCHANGED until  BY <1>1 DEF Open
  <2>. HIDE DEF n
  <2>. QED  BY <2>1, <2>2, <2>3, NoticeFlood
<1>2. ASSUME NEW a \in AlarmIds, SetKey(a) PROVE FloodInv'
  <2>1. notice[a].pc = "set"  BY <1>2 DEF SetKey
  <2>2. CASE TakesKey(a, "add", notice[a].doubt)  BY <2>1, <2>2, TakenFlood
  <2>3. CASE ~TakesKey(a, "add", notice[a].doubt)
    <3>. DEFINE n == [notice[a] EXCEPT !.pc = "suppressed", !.at = now]
    <3>1. notice' = [notice EXCEPT ![a] = n] /\ UNCHANGED until
      BY <1>2, <2>3, SetKeySplit
    <3>2. n.took = notice[a].took /\ n.cause = notice[a].cause /\ n.pc \notin Told
      BY <1>t DEF NoticeSet, Told
    <3>. HIDE DEF n
    <3>. QED  BY <3>1, <3>2, NoticeFlood
  <2>. QED  BY <2>2, <2>3
<1>3. ASSUME NEW a \in AlarmIds, SetUnanswered(a) PROVE FloodInv'
  BY <1>3, SetUnansweredTakes, TakenFlood
<1>4. ASSUME NEW a \in AlarmIds, AddJob(a) \/ AddUnanswered(a) PROVE FloodInv'
  <2>. DEFINE m == [notice[a] EXCEPT !.pc = "queued"]
              n == [notice[a] EXCEPT !.again = TRUE]
  <2>1. /\ m.took = notice[a].took /\ m.cause = notice[a].cause
        /\ n.took = notice[a].took /\ n.cause = notice[a].cause
    BY <1>t DEF NoticeSet
  <2>2. notice[a].pc = "add" /\ "add" \in Told  BY <1>4 DEF AddJob, AddUnanswered, Told
  <2>3. /\ notice' = [notice EXCEPT ![a] = m] \/ notice' = [notice EXCEPT ![a] = n]
        /\ UNCHANGED until
    BY <1>4 DEF AddJob, AddUnanswered
  <2>. HIDE DEF m, n
  <2>. QED  BY <2>1, <2>2, <2>3, NoticeFlood
<1>5. ASSUME NEW a \in AlarmIds, RedisFails(a) PROVE FloodInv'
  <2>. DEFINE q == IF notice[a].pc = "set" THEN "failed" ELSE "lost"
              n == [notice[a] EXCEPT !.pc = q]
  <2>1. notice' = [notice EXCEPT ![a] = n] /\ UNCHANGED until  BY <1>5 DEF RedisFails
  <2>2. notice[a].pc \in {"set", "add"}  BY <1>5 DEF RedisFails
  <2>3. q \in Told => notice[a].pc \in Told  BY <2>2 DEF Told
  <2>. HIDE DEF q
  <2>4. n.took = notice[a].took /\ n.cause = notice[a].cause /\ n.pc = q
    BY <1>t DEF NoticeSet
  <2>. HIDE DEF n
  <2>. QED  BY <2>1, <2>3, <2>4, NoticeFlood
<1>6. CASE Crash
  <2>1. ASSUME NEW a \in AlarmIds
        PROVE  /\ notice'[a].took = notice[a].took /\ notice'[a].cause = notice[a].cause
               /\ notice'[a].pc \in Told => notice[a].pc \in Told
    <3>1. notice'[a] = [notice[a] EXCEPT !.pc = CASE @ = "set" -> "failed"
                                                  [] @ = "add" -> "lost" [] OTHER -> @]
      BY <1>6 DEF Crash
    <3>2. CASE notice[a].pc = "set"  BY <1>t, <3>1, <3>2 DEF NoticeSet, Told
    <3>3. CASE notice[a].pc = "add"  BY <1>t, <3>1, <3>3 DEF NoticeSet, Told
    <3>4. CASE notice[a].pc \notin {"set", "add"}
      BY <1>t, <3>1, <3>4 DEF NoticeSet, Told
    <3>. QED  BY <3>2, <3>3, <3>4
  <2>. QED  BY <1>6, <2>1, FloodStays DEF Crash
<1>7. ASSUME UNCHANGED <<until, notice>> PROVE FloodInv'
  BY <1>7, FloodStays
<1>8. ASSUME NEW a \in AlarmIds, Take(a) \/ Attempt(a) PROVE FloodInv'
  BY <1>7, <1>8 DEF Take, Attempt, Deliver, Skip, Fail, RecordFails
<1>9. CASE TimePasses \/ UNCHANGED vars
  BY <1>7, <1>9 DEF TimePasses, vars
<1>. QED  BY <1>1, <1>2, <1>3, <1>4, <1>5, <1>6, <1>8, <1>9 DEF Next

(* The key of a kind is taken at least the suppression time apart, by two    *)
(* alarms or by one whose SET was sent again, and only who took it is told   *)
(* (alarm-notifications.service.ts 82-89).                                   *)
THEOREM NeverFloods == Spec => [](NoFlood /\ ToldTook)
<1>1. Init => FloodInv
  BY DEF Init, FloodInv, NoFlood, KeysOutlast, ToldTook, Untold, Told
<1>2. IInv /\ [Next]_vars => IInv'  BY NextIInv
<1>3. IInv /\ FloodInv /\ [Next]_vars => FloodInv'  BY NextFlood
<1>4. FloodInv => NoFlood /\ ToldTook  BY DEF FloodInv
<1>. QED  BY InitIInv, <1>1, <1>2, <1>3, <1>4, PTL DEF Spec

-----------------------------------------------------------------------------
(* How a job moves: what JobsEnd needs besides the worker's fairness.        *)
(* Towards its end: over, or one of its attempts or stalls nearer to it, or  *)
(* taken up, or one channel further in the attempt at hand.                  *)
Nearer(j, k) ==
  \/ k.pc \in {"done", "failed"}
  \/ k.tries + k.stalls = j.tries + j.stalls + 1
  \/ /\ k.tries = j.tries /\ k.stalls = j.stalls /\ k.pc = "running"
     /\ j.pc = "running" => k.next = j.next + 1

(* A job that is done comes again only when the answer to its add was lost.  *)
JobMovesOn(a) ==
  /\ job[a].pc = "none" => job'[a].pc = "waiting"
  /\ job[a].pc \in {"waiting", "running"} => Nearer(job[a], job'[a])
  /\ job[a].pc = "done" => /\ notice[a].pc = "add" /\ notice[a].again
                          /\ notice'[a].pc = "queued" /\ job'[a].pc = "waiting"
  /\ job[a].pc # "failed"

JobsGoForward == [][\A a \in AlarmIds : job'[a] # job[a] => JobMovesOn(a)]_vars

LEMMA AttemptNearer ==
  ASSUME IInv, NEW a \in AlarmIds, Attempt(a)
  PROVE  Nearer(job[a], job'[a]) /\ job[a].pc = "running"
           /\ \A b \in AlarmIds \ {a} : job'[b] = job[b]
<1>. DEFINE j == job[a]
            k == [j EXCEPT !.clean = FALSE]
<1>1. j \in JobSet /\ j.pc = "running" /\ job \in [AlarmIds -> JobSet]
  BY JobAt DEF Attempt, Deliver, Skip, Fail, RecordFails, IInv, JobInv, JobTypes
<1>2. /\ k \in JobSet /\ k.pc = j.pc /\ k.next = j.next /\ k.tries = j.tries
      /\ k.stalls = j.stalls
  BY <1>1 DEF JobSet
<1>3. \E i \in {j, k} : \E m \in {Advanced(i), AttemptOver(i)} : Becomes(a, m)
  BY DEF Attempt, Deliver, Skip, Fail, RecordFails, AfterFailure, Becomes
<1>. HIDE DEF k
<1>4. PICK i \in JobSet : /\ i.pc = "running" /\ i.next = j.next /\ i.tries = j.tries
                          /\ i.stalls = j.stalls
                          /\ Becomes(a, Advanced(i)) \/ Becomes(a, AttemptOver(i))
  BY <1>1, <1>2, <1>3
<1>5. Nearer(j, Advanced(i))
  <2>1. CASE i.next = Len(Channels)
    BY <2>1 DEF Advanced, Nearer, JobSet
  <2>2. CASE i.next # Len(Channels)
    BY <1>1, <1>4, <2>2 DEF Advanced, Nearer, JobSet
  <2>. QED  BY <2>1, <2>2
<1>6. Nearer(j, AttemptOver(i))
  <2>. DEFINE q == IF i.tries + 1 < Attempts THEN "waiting" ELSE "failed"
              t == i.tries + 1
              m == [i EXCEPT !.pc = q, !.tries = t]
  <2>1. AttemptOver(i) = m  BY DEF AttemptOver
  <2>2. m.tries = t /\ m.stalls = i.stalls  BY DEF JobSet
  <2>. HIDE DEF m
  <2>3. m.tries + m.stalls = j.tries + j.stalls + 1
    BY <1>4, <2>2, CountsAssumption DEF JobSet
  <2>. QED  BY <2>1, <2>3 DEF Nearer
<1>. QED  BY <1>1, <1>4, <1>5, <1>6 DEF Becomes

LEMMA CrashNearer ==
  ASSUME IInv, Crash, NEW a \in AlarmIds, job'[a] # job[a]
  PROVE  Nearer(job[a], job'[a]) /\ job[a].pc = "running"
<1>. DEFINE q == IF job[a].stalls < Stalls THEN "waiting" ELSE "failed"
            n == job[a].stalls + 1
<1>1. job[a].pc = "running" /\ job'[a] = [job[a] EXCEPT !.pc = q, !.stalls = n, !.clean = FALSE]
  BY DEF Crash
<1>2. job[a] \in JobSet  BY JobAt
<1>3. n = job[a].stalls + 1 /\ job[a].stalls \in Int /\ job[a].tries \in Int
  BY <1>2, CountsAssumption DEF JobSet
<1>. HIDE DEF q, n
<1>4. job'[a].tries = job[a].tries /\ job'[a].stalls = n  BY <1>1, <1>2 DEF JobSet
<1>. QED  BY <1>1, <1>3, <1>4 DEF Nearer

(* A job never goes back: every step of it ends it, uses up one of its       *)
(* attempts or stalls, or goes on to the next channel; once over it is over, *)
(* unless the answer to its add was lost and the add, sent again, finds it   *)
(* done and removed.                                                         *)
(* With the bounds of TypeCorrect a job takes a bounded number of steps,     *)
(* whatever the channels answer and however often the API dies.              *)
THEOREM JobsAlwaysGoForward == Spec => JobsGoForward
<1>. DEFINE Forward == \A a \in AlarmIds : job'[a] # job[a] => JobMovesOn(a)
<1>1. IInv /\ [Next]_vars => IInv'  BY NextIInv
<1>2. IInv /\ [Next]_vars => [Forward]_vars
  <2>. SUFFICES ASSUME IInv, [Next]_vars, NEW a \in AlarmIds, job'[a] # job[a]
                PROVE  JobMovesOn(a)
    OBVIOUS
  <2>t. job \in [AlarmIds -> JobSet]  BY DEF IInv, JobInv, JobTypes
  <2>1. ASSUME NEW b \in AlarmIds, AddJob(b) \/ AddUnanswered(b) PROVE JobMovesOn(a)
    <3>a. Added(b)  BY <2>1 DEF AddJob, AddUnanswered
    <3>b. ASSUME job[b].pc = "none", job' = [job EXCEPT ![b].pc = "waiting"]
          PROVE  a = b /\ job'[a].pc = "waiting"
      <4>. DEFINE n == [job[b] EXCEPT !.pc = "waiting"]
      <4>1. n.pc = "waiting"  BY <2>t DEF JobSet
      <4>2. job' = [job EXCEPT ![b] = n]  BY <3>b
      <4>. HIDE DEF n
      <4>. QED  BY <2>t, <4>1, <4>2
    <3>c. ASSUME job[b].pc = "done",
                 job' = [job EXCEPT ![b] = [NoJob EXCEPT !.pc = "waiting", !.clean = FALSE]]
          PROVE  a = b /\ job'[a].pc = "waiting"
      <4>. DEFINE n == [NoJob EXCEPT !.pc = "waiting", !.clean = FALSE]
      <4>1. n.pc = "waiting"  BY DEF NoJob
      <4>2. job' = [job EXCEPT ![b] = n]  BY <3>c
      <4>. HIDE DEF n
      <4>. QED  BY <2>t, <4>1, <4>2
    <3>1. a = b /\ job[a].pc \in {"none", "done"} /\ job'[a].pc = "waiting"
      BY <3>a, <3>b, <3>c DEF Added
    <3>2. notice[a].pc = "add" /\ (job[a].pc = "done" => notice[a].again)
      BY <2>1, <3>1, NoticeAt DEF AddJob, AddUnanswered
    <3>3. job[a].pc = "done" => AddJob(a)  BY <2>1, <3>1, <3>2 DEF AddUnanswered
    <3>4. AddJob(a) => notice'[a].pc = "queued"
      BY NoticeAt DEF AddJob, NoticeSet, IInv, NoticeInv, NoticeTypes
    <3>. QED  BY <3>1, <3>2, <3>3, <3>4 DEF JobMovesOn
  <2>2. ASSUME NEW b \in AlarmIds, Take(b) PROVE JobMovesOn(a)
    <3>1. a = b /\ job[b].pc = "waiting"  BY <2>t, <2>2 DEF Take
    <3>2. /\ job'[b].pc = "running" /\ job'[b].tries = job[b].tries
          /\ job'[b].stalls = job[b].stalls
      BY <2>t, <2>2 DEF Take, JobSet
    <3>. QED  BY <3>1, <3>2 DEF JobMovesOn, Nearer
  <2>3. ASSUME NEW b \in AlarmIds, Attempt(b) PROVE JobMovesOn(a)
    <3>1. a = b  BY <2>3, AttemptNearer
    <3>2. Nearer(job[a], job'[a]) /\ job[a].pc = "running"  BY <2>3, <3>1, AttemptNearer
    <3>. QED  BY <3>2 DEF JobMovesOn
  <2>4. CASE Crash
    <3>1. Nearer(job[a], job'[a]) /\ job[a].pc = "running"  BY <2>4, CrashNearer
    <3>. QED  BY <3>1 DEF JobMovesOn
  <2>5. ASSUME NEW b \in AlarmIds,
               (\E c \in Causes : Open(b, c)) \/ SetKey(b) \/ SetUnanswered(b) \/ RedisFails(b)
        PROVE  FALSE
    BY <2>5 DEF Open, SetKey, SetUnanswered, RedisFails
  <2>6. ~(TimePasses \/ UNCHANGED vars)  BY DEF TimePasses, vars
  <2>. QED  BY <2>1, <2>2, <2>3, <2>4, <2>5, <2>6 DEF Next
<1>. QED  BY InitIInv, <1>1, <1>2, PTL DEF Spec, JobsGoForward
=============================================================================
