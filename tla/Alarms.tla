------------------------------- MODULE Alarms -------------------------------
(***************************************************************************)
(* The life of one camera's alarms: AlarmsService.processEvent with what it *)
(* calls, operators who acknowledge and resolve, and the health check that  *)
(* closes quiet motion alarms (alarms/alarms.service.ts).  What becomes of  *)
(* the notification of an alarm that opens is in AlarmDelivery.             *)
(*                                                                         *)
(* registerEvent is awaited by its caller, and nothing keeps callers apart: *)
(* the health check, the AI service, the recorder and the ONVIF listener    *)
(* have events processed side by side.  A step ends where a query answers.  *)
(***************************************************************************)
EXTENDS Integers, FiniteSets, FiniteSetsExt

CONSTANTS
  AlarmIds,    \* identities of alarms, in the order in which they open
  Causes,      \* types of alarm
  Motion,      \* the causes that end by growing quiet
  Recoveries,  \* the causes each kind of recovery event puts an end to
  Handlers,    \* bound: events processed side by side
  Window,      \* dedupWindowSeconds of the rules
  Quiet,       \* MOTION_ALARM_QUIET_SECONDS, at least the window
  MaxEvents,   \* bound: failures reported
  MaxTime,     \* bound: the clock
  Ops          \* what this instance admits

AllOps == {"mute", "operator", "dbFails", "crash"}

ASSUME AlarmIdsAssumption == AlarmIds \subseteq Nat /\ IsFiniteSet(AlarmIds)
ASSUME HandlersAssumption == IsFiniteSet(Handlers)
ASSUME CausesAssumption ==
  /\ Motion \subseteq Causes /\ Recoveries \subseteq SUBSET (Causes \ Motion)
ASSUME TimesAssumption ==
  /\ Window \in Nat /\ Quiet \in Nat /\ Window <= Quiet
  /\ MaxEvents \in Nat /\ MaxTime \in Nat
ASSUME OpsAssumption == Ops \subseteq AllOps

VARIABLES
  now,       \* the clock
  alarm,     \* alarm[a]: the row
  ev,        \* ev[h]: what handler h is processing
  reported,  \* history: failures reported and processed, or being processed
  inTurn,    \* history: causes whose failures were processed one at a time
  said       \* history: what was last heard of a cause

historyVars == <<reported, inTurn, said>>
vars == <<now, alarm, ev, historyVars>>

-----------------------------------------------------------------------------
(* resolved: the row carries a resolvedAt, whatever its status now.          *)
NoRow == [cause |-> "none", status |-> "none", last |-> 0, count |-> 0, resolved |-> FALSE]

Event(pc, C, time) == [pc |-> pc, causes |-> C, at |-> time, found |-> {}]
Idle == Event("idle", {}, 0)

Active == {a \in AlarmIds : alarm[a].status \in {"OPEN", "ACKED"}}
ActiveOf(C) == {a \in Active : alarm[a].cause \in C}
Unused == {a \in AlarmIds : alarm[a].status = "none"}

(* Failures of cause c that are being processed; anything about c that is.   *)
Failing(c) ==
  {h \in Handlers : c \in ev[h].causes /\ ev[h].pc \in {"stale", "gate", "find", "write"}}
Busy(c) == {h \in Handlers : c \in ev[h].causes}
InProgress == UNION {Failing(c) : c \in Causes}

Resolve(S) ==
  alarm' = [a \in AlarmIds |-> IF a \in S
              THEN [alarm[a] EXCEPT !.status = "RESOLVED", !.resolved = TRUE] ELSE alarm[a]]
Unsure(C) == said' = [c \in Causes |-> IF c \in C THEN "unsure" ELSE said[c]]

Set(h, next) == ev' = [ev EXCEPT ![h] = next]
Goto(h, pc) == Set(h, [ev[h] EXCEPT !.pc = pc])
End(h) == Set(h, Idle)

-----------------------------------------------------------------------------
(* processEvent with a failure, or movement, of cause c.                     *)
Report(h, c) ==
  /\ ev[h] = Idle
  /\ reported < MaxEvents
  /\ Set(h, Event(IF c \in Motion THEN "stale" ELSE "gate", {c}, now))
  /\ reported' = reported + 1
  /\ inTurn' = IF Failing(c) = {} THEN inTurn ELSE inTurn \ {c}
  /\ said' = [said EXCEPT ![c] = IF Busy(c) \ Failing(c) = {} THEN "failing" ELSE "unsure"]
  /\ UNCHANGED <<now, alarm>>

(* resolveStaleMotionAlarms(now), of every health check.                     *)
Tick(h) ==
  /\ ev[h] = Idle
  /\ Set(h, Event("tick", {}, now))
  /\ UNCHANGED <<now, alarm, historyVars>>

Stale(h) == {a \in ActiveOf(Motion) : alarm[a].last <= ev[h].at - Quiet}

\* Mutant: what an operator has acknowledged is left to the operator.
ResolveStaleOpen(h) ==
  /\ ev[h].pc \in {"stale", "tick"}
  /\ Resolve({a \in Stale(h) : alarm[a].status = "OPEN"})
  /\ IF ev[h].pc = "tick" THEN End(h) ELSE Goto(h, "gate")
  /\ Unsure({alarm[a].cause : a \in Stale(h)})
  /\ UNCHANGED <<now, reported, inTurn>>

(* resolveStaleMotionAlarms: one UPDATE, after the rule was read.  The event *)
(* that is at hand comes after what it closes.                               *)
ResolveStale(h) ==
  /\ ev[h].pc \in {"stale", "tick"}
  /\ Resolve(Stale(h))
  /\ IF ev[h].pc = "tick" THEN End(h) ELSE Goto(h, "gate")
  /\ Unsure({alarm[a].cause : a \in Stale(h)} \ ev[h].causes)
  /\ UNCHANGED <<now, reported, inTurn>>

(* The camera's alarms are off, the rule is missing, disabled or muted.      *)
Dropped(h) ==
  /\ "mute" \in Ops
  /\ ev[h].pc = "gate"
  /\ End(h)
  /\ reported' = reported - 1
  /\ Unsure(ev[h].causes)
  /\ UNCHANGED <<now, alarm, inTurn>>

Passed(h) ==
  /\ ev[h].pc = "gate"
  /\ Goto(h, "find")
  /\ UNCHANGED <<now, alarm, historyVars>>

\* Mutant: an alarm at the very end of the window is not found.
RecentStrictly(h) == {a \in ActiveOf(ev[h].causes) : alarm[a].last > ev[h].at - Window}

(* findFirst: the latest active alarm within the window.                     *)
Recent(h) == {a \in ActiveOf(ev[h].causes) : alarm[a].last >= ev[h].at - Window}
Latest(S) == {a \in S : \A b \in S : alarm[b].last <= alarm[a].last}

\* Mutant: an alarm that was resolved is found again.
FindAny(h) ==
  /\ ev[h].pc = "find"
  /\ LET recent == {a \in AlarmIds : /\ alarm[a].cause \in ev[h].causes
                                     /\ alarm[a].last >= ev[h].at - Window}
     IN \E found \in IF recent = {} THEN {{}} ELSE {{a} : a \in Latest(recent)} :
          Set(h, [ev[h] EXCEPT !.pc = "write", !.found = found])
  /\ UNCHANGED <<now, alarm, historyVars>>

Find(h) ==
  /\ ev[h].pc = "find"
  /\ \E found \in IF Recent(h) = {} THEN {{}} ELSE {{a} : a \in Latest(Recent(h))} :
       Set(h, [ev[h] EXCEPT !.pc = "write", !.found = found])
  /\ UNCHANGED <<now, alarm, historyVars>>

\* Mutant: the update looks for an active alarm.
UpdateActive(h) ==
  /\ ev[h].pc = "write" /\ ev[h].found # {}
  /\ alarm' = [a \in AlarmIds |-> IF a \in ev[h].found \cap Active
                 THEN [alarm[a] EXCEPT !.last = ev[h].at, !.count = @ + 1] ELSE alarm[a]]
  /\ End(h)
  /\ UNCHANGED <<now, historyVars>>

(* The row that was found is updated by its identity, whatever its status is *)
(* by then, and the status is left alone.                                    *)
Update(h) ==
  /\ ev[h].pc = "write" /\ ev[h].found # {}
  /\ alarm' = [a \in AlarmIds |-> IF a \in ev[h].found
                 THEN [alarm[a] EXCEPT !.last = ev[h].at, !.count = @ + 1] ELSE alarm[a]]
  /\ End(h)
  /\ UNCHANGED <<now, historyVars>>

(* A new alarm, with notifyOnOpen.                                           *)
Create(h) ==
  /\ ev[h].pc = "write" /\ ev[h].found = {}
  /\ \E a \in Unused : \E c \in ev[h].causes :
       /\ \A b \in Unused : a <= b
       /\ alarm' = [alarm EXCEPT ![a] =
            [cause |-> c, status |-> "OPEN", last |-> ev[h].at, count |-> 1, resolved |-> FALSE]]
  /\ End(h)
  /\ UNCHANGED <<now, historyVars>>

-----------------------------------------------------------------------------
(* processEvent with a recovery: autoResolveForCamera.                       *)
Recover(h, R) ==
  /\ ev[h] = Idle
  /\ Set(h, Event("targets", R, 0))
  /\ said' = [c \in Causes |-> IF c \notin R THEN said[c]
                ELSE IF Failing(c) = {} THEN "recovered" ELSE "unsure"]
  /\ UNCHANGED <<now, alarm, reported, inTurn>>

\* Mutant: only what nobody has acknowledged is resolved.
TargetsOpen(h) ==
  /\ ev[h].pc = "targets"
  /\ Set(h, [ev[h] EXCEPT !.pc = "close",
                          !.found = {a \in ActiveOf(ev[h].causes) : alarm[a].status = "OPEN"}])
  /\ UNCHANGED <<now, alarm, historyVars>>

Targets(h) ==
  /\ ev[h].pc = "targets"
  /\ Set(h, [ev[h] EXCEPT !.pc = "close", !.found = ActiveOf(ev[h].causes)])
  /\ UNCHANGED <<now, alarm, historyVars>>

Close(h) ==
  /\ ev[h].pc = "close"
  /\ Resolve(ev[h].found)
  /\ End(h)
  /\ UNCHANGED <<now, historyVars>>

(* A query that throws ends the processing of the event.                     *)
QueryFails(h) ==
  /\ "dbFails" \in Ops
  /\ ev[h] # Idle
  /\ End(h)
  /\ reported' = IF h \in InProgress THEN reported - 1 ELSE reported
  /\ Unsure(ev[h].causes)
  /\ UNCHANGED <<now, alarm, inTurn>>

HandlerStep(h) ==
  \/ ResolveStale(h) \/ Dropped(h) \/ Passed(h) \/ Find(h)
  \/ Update(h) \/ Create(h) \/ Targets(h) \/ Close(h)

-----------------------------------------------------------------------------
(* Operators; acknowledge, and snooze, look at no status, so that one that   *)
(* comes late makes a resolved alarm active again.                           *)
Acknowledge(a) ==
  /\ "operator" \in Ops
  /\ alarm[a].status \in {"OPEN", "RESOLVED"}
  /\ alarm' = [alarm EXCEPT ![a].status = "ACKED"]
  /\ IF alarm[a].status = "OPEN" THEN UNCHANGED said ELSE Unsure({alarm[a].cause})
  /\ UNCHANGED <<now, ev, reported, inTurn>>

ResolveByHand(a) ==
  /\ "operator" \in Ops
  /\ a \in Active
  /\ Resolve({a})
  /\ Unsure({alarm[a].cause})
  /\ UNCHANGED <<now, ev, reported, inTurn>>

TimePasses ==
  /\ now < MaxTime
  /\ now' = now + 1
  /\ UNCHANGED <<alarm, ev, historyVars>>

Crash ==
  /\ "crash" \in Ops
  /\ ev' = [h \in Handlers |-> Idle]
  /\ reported' = reported - Cardinality(InProgress)
  /\ Unsure(UNION {ev[h].causes : h \in Handlers})
  /\ UNCHANGED <<now, alarm, inTurn>>

-----------------------------------------------------------------------------
Init ==
  /\ now = 0
  /\ alarm = [a \in AlarmIds |-> NoRow]
  /\ ev = [h \in Handlers |-> Idle]
  /\ reported = 0 /\ inTurn = Causes
  /\ said = [c \in Causes |-> "unsure"]

Works ==
  \/ \E h \in Handlers :
       \/ \E c \in Causes : Report(h, c)
       \/ \E R \in Recoveries : Recover(h, R)
       \/ Tick(h) \/ HandlerStep(h)
  \/ \E a \in AlarmIds : Acknowledge(a) \/ ResolveByHand(a)
  \/ TimePasses

Next ==
  \/ Works
  \/ \E h \in Handlers : QueryFails(h)
  \/ Crash

Spec == Init /\ [][Next]_vars

(* Awaits end, time passes, the health check runs every minute (the slots    *)
(* for handlers are the model's, hence strong fairness); queries fail and    *)
(* the API dies finitely often.                                              *)
Fairness ==
  /\ \A h \in Handlers : WF_vars(HandlerStep(h))
  /\ SF_vars(\E h \in Handlers : Tick(h))
  /\ WF_vars(TimePasses)
  /\ <>[][Works]_vars

FairSpec == Spec /\ Fairness

-----------------------------------------------------------------------------
(* Type invariant.                                                           *)
TypeOK ==
  /\ now \in 0 .. MaxTime
  /\ alarm \in [AlarmIds -> [cause : Causes \cup {"none"},
                             status : {"none", "OPEN", "ACKED", "RESOLVED"},
                             last : 0 .. MaxTime, count : Nat, resolved : BOOLEAN]]
  /\ ev \in [Handlers -> [pc : {"idle", "stale", "tick", "gate", "find", "write",
                                "targets", "close"},
                          causes : SUBSET Causes, at : 0 .. MaxTime, found : SUBSET AlarmIds]]
  /\ reported \in 0 .. MaxEvents /\ inTurn \subseteq Causes
  /\ said \in [Causes -> {"failing", "recovered", "unsure"}]

(* Failures that are processed one after the other share one alarm within    *)
(* the window: two active alarms of one cause lie farther apart, unless an   *)
(* operator brought one of them back (202-213).                              *)
OneAlarmPerEpisode ==
  \A c \in inTurn : \A a, b \in {x \in ActiveOf({c}) : ~alarm[x].resolved} :
    a # b => \/ alarm[a].last > alarm[b].last + Window
             \/ alarm[b].last > alarm[a].last + Window

(* Every failure that was processed is counted in exactly one alarm, where   *)
(* events overlap and where a recovery resolves the alarm between the search *)
(* and the update (204-253).                                                 *)
EveryFailureCounted ==
  MapThenSumSet(LAMBDA a : alarm[a].count, AlarmIds)
    = reported - Cardinality(InProgress)

(* After a failure with nothing contrary since, an alarm of its cause is     *)
(* active, whatever became of earlier ones (204-253).                        *)
FailureShows ==
  \A c \in Causes : said[c] = "failing" /\ Busy(c) = {} => ActiveOf({c}) # {}

(* After a recovery with no failure since, or in progress when it came, no   *)
(* alarm of its causes is active, the acknowledged ones included (261-285).  *)
RecoveryCloses ==
  \A c \in Causes : said[c] = "recovered" /\ Busy(c) = {} => ActiveOf({c}) = {}

(* No alarm of movement that is over stays active, an acknowledged one       *)
(* included, though operators may bring it back as often as they like        *)
(* (56-78).  The clock ends at MaxTime, hence the bound on `last'.           *)
QuietMotionResolves ==
  \A a \in AlarmIds :
    []<>~(a \in ActiveOf(Motion) /\ alarm[a].last <= MaxTime - Quiet)
=============================================================================
