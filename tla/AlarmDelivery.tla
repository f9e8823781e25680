--------------------------- MODULE AlarmDelivery ---------------------------
(***************************************************************************)
(* How an alarm that opens is told: AlarmNotificationsService takes the     *)
(* suppression key in Redis and queues a job, AlarmNotificationProcessor    *)
(* runs the channels of the job in order (alarm-notifications.service.ts,   *)
(* alarm-notification.processor.ts).  BullMQ runs one job of the queue at a *)
(* time, again after a failed attempt, again when its worker has died.      *)
(* Alarms open at any time here; module Alarms is about their life.         *)
(***************************************************************************)
EXTENDS Integers, Sequences

CONSTANTS
  AlarmIds,    \* identities of alarms, in the order in which they open
  Causes,      \* types of alarm, each with one priority; the camera is one
  Channels,    \* resolveChannelPlan: the channels of a job, in order
  Attempts,    \* attempts of a job (4 in the code)
  Stalls,      \* how often BullMQ takes up a job whose worker died (1)
  Suppress,    \* alarmNotificationSuppressSeconds (45)
  MaxTime,     \* bound: the clock
  Ops          \* what this instance admits

AllOps == {"redisFails", "unset", "channelFails", "lateAnswer", "recordFails", "crash"}
AnyChannel == {"webhook", "email", "push"}

ASSUME ChannelsAssumption == Channels \in Seq(AnyChannel) /\ Channels # <<>>
ASSUME CountsAssumption ==
  /\ Attempts \in Nat \ {0} /\ Stalls \in Nat /\ Suppress \in Nat /\ MaxTime \in Nat
ASSUME OpsAssumption == Ops \subseteq AllOps

VARIABLES
  now,     \* the clock
  until,   \* until[c]: when the suppression key of cause c expires
  notice,  \* notice[a]: how far notifyOnOpen has come for alarm a
  job,     \* job[a]: the job for alarm a
  sent     \* sent[a]: how often each channel has delivered alarm a: never, once,
           \* more often (bound: counted to 2)

vars == <<now, until, notice, job, sent>>

(* took: history, when its SETs took the key.  at: history, when it found    *)
(* the key taken.  doubt, again: the answer to its SET, to its add was lost. *)
Untold == [pc |-> "none", cause |-> "none", took |-> {}, at |-> 0,
           doubt |-> FALSE, again |-> FALSE]

(* clean: history, the worker has not died under the job, its queries have   *)
(* not failed, what it sent was answered in time, and it was added once.     *)
NoJob == [pc |-> "none", next |-> 1, tries |-> 0, stalls |-> 0, clean |-> TRUE]

Init ==
  /\ now = 0
  /\ until = [c \in Causes |-> 0]
  /\ notice = [a \in AlarmIds |-> Untold]
  /\ job = [a \in AlarmIds |-> NoJob]
  /\ sent = [a \in AlarmIds |-> [ch \in AnyChannel |-> 0]]

-----------------------------------------------------------------------------
(* processEvent has created the alarm; it calls notifyOnOpen and does not    *)
(* await it.                                                                 *)
Open(a, c) ==
  /\ notice[a].pc = "none"
  /\ \A b \in AlarmIds : b < a => notice[b].pc # "none"
  /\ notice' = [notice EXCEPT ![a] = [Untold EXCEPT !.pc = "set", !.cause = c]]
  /\ UNCHANGED <<now, until, job, sent>>

\* Mutant: the key is set without an expiry.
SetKeyForEver(a) ==
  /\ notice[a].pc = "set"
  /\ LET c == notice[a].cause
     IN \/ /\ until[c] = 0
           /\ until' = [until EXCEPT ![c] = now + Suppress]
           /\ notice' = [notice EXCEPT ![a].pc = "add", ![a].took = @ \cup {now}]
        \/ /\ until[c] # 0
           /\ notice' = [notice EXCEPT ![a].pc = "suppressed", ![a].at = now]
           /\ UNCHANGED until
  /\ UNCHANGED <<now, job, sent>>

(* SET NX EX of the suppression key, and its answer.                         *)
SetKey(a) ==
  /\ notice[a].pc = "set"
  /\ LET c == notice[a].cause
     IN \/ /\ until[c] <= now
           /\ until' = [until EXCEPT ![c] = now + Suppress]
           /\ notice' = [notice EXCEPT ![a].pc = "add", ![a].took = @ \cup {now}]
        \/ /\ now < until[c]
           /\ notice' = [notice EXCEPT ![a].pc = "suppressed", ![a].at = now]
           /\ UNCHANGED until
  /\ UNCHANGED <<now, job, sent>>

(* The SET takes the key and its answer is lost with the connection: ioredis *)
(* sends the command again (autoResendUnfulfilledCommands) until it gives up. *)
SetUnanswered(a) ==
  /\ Ops \cap {"redisFails", "crash"} # {}
  /\ notice[a].pc = "set"
  /\ until[notice[a].cause] <= now
  /\ until' = [until EXCEPT ![notice[a].cause] = now + Suppress]
  /\ notice' = [notice EXCEPT ![a].took = @ \cup {now}, ![a].doubt = TRUE]
  /\ UNCHANGED <<now, job, sent>>

(* The job's identity is the alarm's with its first occurrence: adding it    *)
(* again does nothing, unless the job is done and was removed by then.       *)
Added(a) ==
  \/ job[a].pc = "none" /\ job' = [job EXCEPT ![a].pc = "waiting"]
  \/ /\ job[a].pc = "done"
     /\ job' = [job EXCEPT ![a] = [NoJob EXCEPT !.pc = "waiting", !.clean = FALSE]]
  \/ job[a].pc \notin {"none", "done"} /\ UNCHANGED job

AddJob(a) ==
  /\ notice[a].pc = "add"
  /\ Added(a)
  /\ notice' = [notice EXCEPT ![a].pc = "queued"]
  /\ UNCHANGED <<now, until, sent>>

(* The same for the add: the job is queued and sent again.  Bound: the       *)
(* answer to one add is lost once.                                           *)
AddUnanswered(a) ==
  /\ Ops \cap {"redisFails", "crash"} # {}
  /\ notice[a].pc = "add" /\ ~notice[a].again
  /\ Added(a)
  /\ notice' = [notice EXCEPT ![a].again = TRUE]
  /\ UNCHANGED <<now, until, sent>>

(* Redis cannot be reached, or ioredis has given up sending again.           *)
RedisFails(a) ==
  /\ "redisFails" \in Ops
  /\ notice[a].pc \in {"set", "add"}
  /\ notice' = [notice EXCEPT ![a].pc = IF @ = "set" THEN "failed" ELSE "lost"]
  /\ UNCHANGED <<now, until, job, sent>>

-----------------------------------------------------------------------------
(* process(), one job at a time; every attempt begins with the first channel. *)
Take(a) ==
  /\ job[a].pc = "waiting"
  /\ \A b \in AlarmIds : job[b].pc # "running"
  /\ job' = [job EXCEPT ![a].pc = "running", ![a].next = 1]
  /\ UNCHANGED <<now, until, notice, sent>>

Channel(a) == Channels[job[a].next]

Advanced(j) == IF j.next = Len(Channels) THEN [j EXCEPT !.pc = "done"]
                                         ELSE [j EXCEPT !.next = @ + 1]

\* Mutant: an attempt that failed is not counted.
AttemptOverUncounted(j) == [j EXCEPT !.pc = "waiting"]

AttemptOver(j) == [j EXCEPT !.pc = IF j.tries + 1 < Attempts THEN "waiting" ELSE "failed",
                            !.tries = @ + 1]

Sends(a) == sent' = [sent EXCEPT ![a][Channel(a)] = IF @ = 0 THEN 1 ELSE 2]

Deliver(a) ==
  /\ job[a].pc = "running"
  /\ Sends(a)
  /\ job' = [job EXCEPT ![a] = Advanced(@)]
  /\ UNCHANGED <<now, until, notice>>

(* A channel that is not configured, or has no registered device.            *)
Skip(a) ==
  /\ "unset" \in Ops
  /\ job[a].pc = "running"
  /\ job' = [job EXCEPT ![a] = Advanced(@)]
  /\ UNCHANGED <<now, until, notice, sent>>

\* Mutant: every channel that fails fails the job.
FailAny(a) ==
  /\ job[a].pc = "running"
  /\ \/ "channelFails" \in Ops /\ UNCHANGED sent
        /\ job' = [job EXCEPT ![a] = AttemptOver(@)]
     \/ "lateAnswer" \in Ops /\ Sends(a)
        /\ job' = [job EXCEPT ![a] = [AttemptOver(@) EXCEPT !.clean = FALSE]]
  /\ UNCHANGED <<now, until, notice>>

(* A webhook that fails fails the attempt, the others are passed over; an    *)
(* answer that comes after the timeout was delivered nonetheless.            *)
AfterFailure(a, j) == IF Channel(a) = "webhook" THEN AttemptOver(j) ELSE Advanced(j)

Fail(a) ==
  /\ job[a].pc = "running"
  /\ \/ /\ "channelFails" \in Ops
        /\ job' = [job EXCEPT ![a] = AfterFailure(a, @)]
        /\ UNCHANGED sent
     \/ /\ "lateAnswer" \in Ops
        /\ job' = [job EXCEPT ![a] = AfterFailure(a, [@ EXCEPT !.clean = FALSE])]
        /\ Sends(a)
  /\ UNCHANGED <<now, until, notice>>

(* appendDelivery or the audit log fails, whatever the channel did; the      *)
(* catch writes once more, and when that fails too it leaves process().  So  *)
(* does a query that fails before the first channel.                         *)
RecordFails(a) ==
  /\ "recordFails" \in Ops
  /\ job[a].pc = "running"
  /\ Sends(a) \/ UNCHANGED sent
  /\ LET j == [job[a] EXCEPT !.clean = FALSE] IN
     \E next \in {AfterFailure(a, j), AttemptOver(j)} : job' = [job EXCEPT ![a] = next]
  /\ UNCHANGED <<now, until, notice>>

(* The API dies: the calls in flight are lost (what they did to Redis is in  *)
(* SetUnanswered and AddUnanswered), the job at hand has stalled.            *)
Crash ==
  /\ "crash" \in Ops
  /\ notice' = [a \in AlarmIds |->
       [notice[a] EXCEPT !.pc = CASE @ = "set" -> "failed" [] @ = "add" -> "lost" [] OTHER -> @]]
  /\ job' = [a \in AlarmIds |->
       IF job[a].pc # "running" THEN job[a]
       ELSE [job[a] EXCEPT !.pc = IF job[a].stalls < Stalls THEN "waiting" ELSE "failed",
                           !.stalls = @ + 1, !.clean = FALSE]]
  /\ UNCHANGED <<now, until, sent>>

TimePasses ==
  /\ now < MaxTime
  /\ now' = now + 1
  /\ UNCHANGED <<until, notice, job, sent>>

Attempt(a) == Deliver(a) \/ Skip(a) \/ Fail(a) \/ RecordFails(a)

Next ==
  \/ \E a \in AlarmIds :
       \/ \E c \in Causes : Open(a, c)
       \/ SetKey(a) \/ SetUnanswered(a) \/ AddJob(a) \/ AddUnanswered(a)
       \/ RedisFails(a) \/ Take(a) \/ Attempt(a)
  \/ TimePasses \/ Crash

Spec == Init /\ [][Next]_vars

(* The worker takes the jobs there are one after the other, and a channel    *)
(* answers or times out.                                                     *)
Fairness == \A a \in AlarmIds : SF_vars(Take(a)) /\ WF_vars(Attempt(a))

FairSpec == Spec /\ Fairness

-----------------------------------------------------------------------------
TypeOK ==
  /\ now \in 0 .. MaxTime
  /\ until \in [Causes -> Nat]
  /\ notice \in [AlarmIds -> [pc : {"none", "set", "add", "queued", "suppressed",
                                    "failed", "lost"},
                              cause : Causes \cup {"none"}, took : SUBSET Nat,
                              at : Nat, doubt : BOOLEAN, again : BOOLEAN]]
  /\ job \in [AlarmIds -> [pc : {"none", "waiting", "running", "done", "failed"},
                           next : DOMAIN Channels, tries : 0 .. Attempts,
                           stalls : 0 .. Stalls + 1, clean : BOOLEAN]]
  /\ sent \in [AlarmIds -> [AnyChannel -> 0 .. 2]]

(* An alarm is silent only while a key lives that an alarm of its kind took, *)
(* no longer ago than the suppression lasts, and that one is another, told   *)
(* or to be told unless queue.add failed.  The one exception is a holder to  *)
(* whose SET Redis's answer was lost: that may be the alarm itself, which    *)
(* finds its own key when the SET is sent again, or one that nobody told     *)
(* (alarm-notifications.service.ts 82-89).                                   *)
SilentUnderAKey ==
  \A a \in AlarmIds : notice[a].pc = "suppressed" =>
    \E b \in AlarmIds :
      /\ notice[b].cause = notice[a].cause
      /\ \E t \in notice[b].took : t <= notice[a].at /\ notice[a].at < t + Suppress
      /\ \/ b # a /\ notice[b].pc \in {"add", "queued", "lost"}
         \/ notice[b].doubt

(* Retries repeat nothing that was delivered, whichever channels fail and    *)
(* how often, as long as the worker lives, its queries do not fail, no       *)
(* answer is late and the job is not added again after it was done: with the *)
(* channels in the order of the default plan                                 *)
(* (alarm-notification.processor.ts 252-308).                                *)
ToldOnce ==
  \A a \in AlarmIds : job[a].clean => \A ch \in AnyChannel : sent[a][ch] <= 1

(* A job that waits comes to an end and frees the worker for the next one,   *)
(* though its webhook fails for ever or the API dies again and again (the    *)
(* attempts and what BullMQ allows of stalls are counted apart).             *)
JobsEnd ==
  \A a \in AlarmIds : job[a].pc = "waiting" ~> job[a].pc \in {"done", "failed"}
=============================================================================
