---------------------------- MODULE AlarmsProofs ----------------------------
(***************************************************************************)
(* Proofs about Alarms, for any alarms, causes and recoveries, any number   *)
(* of handlers, any window and quiet time and any set of operations.        *)
(***************************************************************************)
EXTENDS Alarms, FiniteSetTheorems, TLAPS

FailingPc == {"stale", "gate", "find", "write"}
RowSet == [cause : Causes \cup {"none"}, status : {"none", "OPEN", "ACKED", "RESOLVED"},
           last : 0 .. MaxTime, count : Nat, resolved : BOOLEAN]
EvSet == [pc : {"idle", "stale", "tick", "gate", "find", "write", "targets", "close"},
          causes : SUBSET Causes, at : 0 .. MaxTime, found : SUBSET AlarmIds]

(* What the place a handler is at says about what it holds.                  *)
Shaped(e) ==
  /\ e.pc \in FailingPc => \E c \in Causes : e.causes = {c}
  /\ e.pc \in {"idle", "tick"} => e.causes = {}
  /\ e.pc = "stale" => e.causes \subseteq Motion
(* What was found is of the cause that was looked for.                       *)
Sought(e) ==
  e.pc \in {"write", "close"} =>
    \A a \in e.found : alarm[a].status # "none" /\ alarm[a].cause \in e.causes

AlarmTypes == now \in 0 .. MaxTime /\ alarm \in [AlarmIds -> RowSet]
EvTypes == ev \in [Handlers -> EvSet] /\ \A h \in Handlers : Shaped(ev[h])
HistoryTypes ==
  /\ reported \in Int /\ inTurn \subseteq Causes
  /\ said \in [Causes -> {"failing", "recovered", "unsure"}]
AllSought == \A h \in Handlers : Sought(ev[h])
Counted == Cardinality(InProgress) <= reported /\ reported <= MaxEvents

TInv == AlarmTypes /\ EvTypes /\ HistoryTypes /\ AllSought

(* A handler that will leave an alarm of cause c active.                     *)
WillShow(e, c) ==
  \/ e.pc \in {"stale", "gate", "find"}
  \/ e.pc = "write" /\ (e.found = {} \/ e.found \cap ActiveOf({c}) # {})
ShowAt(c) ==
  said[c] = "failing" =>
    /\ \A h \in Handlers : c \in ev[h].causes => ev[h].pc \in FailingPc
    /\ ActiveOf({c}) # {} \/ \E h \in Handlers : c \in ev[h].causes /\ WillShow(ev[h], c)

(* A handler that will resolve every active alarm of cause c.                *)
WillClose(e, c) ==
  \/ e.pc = "targets"
  \/ e.pc = "close" /\ ActiveOf({c}) \subseteq e.found
CloseAt(c) ==
  said[c] = "recovered" =>
    /\ \A h \in Handlers : c \in ev[h].causes => ev[h].pc \notin FailingPc
    /\ ActiveOf({c}) = {} \/ \E h \in Handlers : c \in ev[h].causes /\ WillClose(ev[h], c)

ShowInv == \A c \in Causes : ShowAt(c)
CloseInv == \A c \in Causes : CloseAt(c)

-----------------------------------------------------------------------------
(* Handler h goes on as e, and the others stay.                              *)
Becomes(h, e) == ev' = [ev EXCEPT ![h] = e]

LEMMA EvMoves ==
  ASSUME EvTypes, NEW h \in Handlers, NEW e \in EvSet, Shaped(e), Becomes(h, e)
  PROVE  EvTypes' /\ ev'[h] = e /\ \A g \in Handlers \ {h} : ev'[g] = ev[g]
  BY DEF EvTypes, Becomes

LEMMA EvAt ==
  ASSUME EvTypes, NEW h \in Handlers
  PROVE  ev[h] \in EvSet /\ Shaped(ev[h])
  BY DEF EvTypes

LEMMA IdleTyped == Idle \in EvSet /\ Shaped(Idle) /\ Idle.pc = "idle" /\ Idle.causes = {}
  BY TimesAssumption DEF Idle, Event, EvSet, Shaped, FailingPc

(* Rows keep their cause and stay.                                           *)
Kept ==
  \A a \in AlarmIds : alarm[a].status # "none" =>
    alarm'[a].status # "none" /\ alarm'[a].cause = alarm[a].cause

LEMMA SoughtStays ==
  ASSUME AllSought, EvTypes, Kept, NEW H \in SUBSET Handlers,
         \A g \in Handlers \ H : ev'[g] = ev[g], \A h \in H : Sought(ev[h])'
  PROVE  AllSought'
<1>. SUFFICES ASSUME NEW g \in Handlers \ H  PROVE Sought(ev[g])'
  BY DEF AllSought
<1>1. ev'[g] = ev[g] /\ Sought(ev[g]) /\ ev[g].found \subseteq AlarmIds
  BY EvAt DEF AllSought, EvSet
<1>. QED  BY <1>1 DEF Sought, Kept

LEMMA TypesStep ==
  ASSUME TInv, NEW h \in Handlers, \A g \in Handlers \ {h} : ev'[g] = ev[g],
         EvTypes', alarm' \in [AlarmIds -> RowSet], Kept, now' = now, HistoryTypes',
         Sought(ev[h])'
  PROVE  TInv'
<1>1. AlarmTypes'  BY DEF TInv, AlarmTypes
<1>2. AllSought'
  <2>. DEFINE H == {h}
  <2>1. H \in SUBSET Handlers /\ \A g \in H : Sought(ev[g])'  OBVIOUS
  <2>2. \A g \in Handlers \ H : ev'[g] = ev[g]  OBVIOUS
  <2>. HIDE DEF H
  <2>. QED  BY <2>1, <2>2, SoughtStays DEF TInv
<1>. QED  BY <1>1, <1>2 DEF TInv

LEMMA RowsResolved ==
  ASSUME AlarmTypes, NEW S, Resolve(S)
  PROVE  /\ alarm' \in [AlarmIds -> RowSet] /\ Kept
         /\ Active' = Active \ S
         /\ \A C : ActiveOf(C)' = ActiveOf(C) \ S
         /\ \A a \in AlarmIds : /\ alarm'[a].cause = alarm[a].cause
                                /\ alarm'[a].last = alarm[a].last
                                /\ ~alarm'[a].resolved => alarm'[a] = alarm[a]
<1>1. \A a \in AlarmIds : alarm[a] \in RowSet  BY DEF AlarmTypes
<1>2. \A a \in AlarmIds : alarm'[a] = IF a \in S
        THEN [alarm[a] EXCEPT !.status = "RESOLVED", !.resolved = TRUE] ELSE alarm[a]
  BY DEF Resolve
<1>3. \A a \in AlarmIds :
        /\ alarm'[a] \in RowSet
        /\ alarm'[a].cause = alarm[a].cause /\ alarm'[a].last = alarm[a].last
        /\ a \in S => alarm'[a].status = "RESOLVED" /\ alarm'[a].resolved
        /\ a \notin S => alarm'[a] = alarm[a]
  BY <1>1, <1>2 DEF RowSet
<1>4. DOMAIN alarm' = AlarmIds /\ alarm' = [a \in AlarmIds |-> alarm'[a]]  BY DEF Resolve
<1>5. alarm' \in [AlarmIds -> RowSet] /\ Kept  BY <1>3, <1>4 DEF Kept
<1>. QED  BY <1>3, <1>5 DEF Active, ActiveOf

LEMMA RowsUpdated ==
  ASSUME AlarmTypes, EvTypes, NEW h \in Handlers, Update(h)
  PROVE  /\ alarm' \in [AlarmIds -> RowSet] /\ Kept
         /\ Active' = Active /\ \A C : ActiveOf(C)' = ActiveOf(C)
         /\ \A a \in AlarmIds :
              /\ alarm'[a].cause = alarm[a].cause /\ alarm'[a].resolved = alarm[a].resolved
              /\ alarm'[a].status = alarm[a].status
              /\ a \in ev[h].found => alarm'[a].last = ev[h].at
              /\ a \notin ev[h].found => alarm'[a] = alarm[a]
<1>1. \A a \in AlarmIds : alarm[a] \in RowSet  BY DEF AlarmTypes
<1>2. ev[h].at \in 0 .. MaxTime  BY EvAt DEF EvSet
<1>3. \A a \in AlarmIds : alarm'[a] = IF a \in ev[h].found
        THEN [alarm[a] EXCEPT !.last = ev[h].at, !.count = @ + 1] ELSE alarm[a]
  BY DEF Update
<1>4. \A a \in AlarmIds :
        /\ alarm'[a] \in RowSet /\ alarm'[a].status = alarm[a].status
        /\ alarm'[a].cause = alarm[a].cause /\ alarm'[a].resolved = alarm[a].resolved
        /\ a \in ev[h].found => alarm'[a].last = ev[h].at
        /\ a \notin ev[h].found => alarm'[a] = alarm[a]
  <2>. TAKE a \in AlarmIds
  <2>1. CASE a \in ev[h].found
    <3>. DEFINE n == alarm[a].count + 1
                r == [alarm[a] EXCEPT !.last = ev[h].at, !.count = n]
    <3>1. alarm'[a] = r  BY <2>1, <1>3
    <3>2. n \in Nat  BY <1>1 DEF RowSet
    <3>. HIDE DEF n
    <3>3. /\ r \in RowSet /\ r.status = alarm[a].status /\ r.cause = alarm[a].cause
          /\ r.resolved = alarm[a].resolved /\ r.last = ev[h].at
      BY <3>2, <1>1, <1>2 DEF RowSet
    <3>. QED  BY <2>1, <3>1, <3>3
  <2>. QED  BY <2>1, <1>1, <1>3
<1>5. DOMAIN alarm' = AlarmIds /\ alarm' = [a \in AlarmIds |-> alarm'[a]]  BY DEF Update
<1>6. alarm' \in [AlarmIds -> RowSet] /\ Kept  BY <1>4, <1>5 DEF Kept
<1>. QED  BY <1>4, <1>6 DEF Active, ActiveOf

(* A new alarm takes an unused row, and the others stay.                     *)
Created(h, a) ==
  /\ a \in Unused
  /\ alarm'[a].cause \in ev[h].causes /\ alarm'[a].status = "OPEN"
  /\ alarm'[a].last = ev[h].at
  /\ \A b \in AlarmIds \ {a} : alarm'[b] = alarm[b]

LEMMA RowCreated ==
  ASSUME AlarmTypes, EvTypes, NEW h \in Handlers, Create(h)
  PROVE  /\ alarm' \in [AlarmIds -> RowSet] /\ Kept
         /\ \E a \in Unused : Created(h, a)
<1>1. ev[h].at \in 0 .. MaxTime /\ ev[h].causes \subseteq Causes  BY EvAt DEF EvSet
<1>2. PICK a \in Unused, c \in ev[h].causes :
        alarm' = [alarm EXCEPT ![a] =
          [cause |-> c, status |-> "OPEN", last |-> ev[h].at, count |-> 1, resolved |-> FALSE]]
  BY DEF Create
<1>. DEFINE r == [cause |-> c, status |-> "OPEN", last |-> ev[h].at, count |-> 1,
                  resolved |-> FALSE]
<1>3. r \in RowSet /\ r.cause = c /\ r.status = "OPEN" /\ r.last = ev[h].at
  BY <1>1 DEF RowSet
<1>4. alarm' = [alarm EXCEPT ![a] = r]  BY <1>2
<1>. HIDE DEF r
<1>5. a \in AlarmIds /\ alarm[a].status = "none"  BY DEF Unused
<1>6. alarm' \in [AlarmIds -> RowSet] /\ alarm'[a] = r
        /\ \A b \in AlarmIds \ {a} : alarm'[b] = alarm[b]
  BY <1>3, <1>4, <1>5 DEF AlarmTypes
<1>7. Kept  BY <1>5, <1>6 DEF Kept
<1>8. Created(h, a)  BY <1>3, <1>6 DEF Created
<1>. QED  BY <1>6, <1>7, <1>8

LEMMA RowAcknowledged ==
  ASSUME AlarmTypes, NEW a \in AlarmIds, Acknowledge(a)
  PROVE  /\ alarm' \in [AlarmIds -> RowSet] /\ Kept
         /\ Active' = Active \cup {a}
         /\ \A b \in AlarmIds :
              /\ alarm'[b].cause = alarm[b].cause /\ alarm'[b].last = alarm[b].last
              /\ alarm'[b].resolved = alarm[b].resolved
              /\ b # a => alarm'[b] = alarm[b]
<1>1. alarm[a] \in RowSet  BY DEF AlarmTypes
<1>. DEFINE r == [alarm[a] EXCEPT !.status = "ACKED"]
<1>2. r \in RowSet /\ r.status = "ACKED" /\ r.cause = alarm[a].cause
        /\ r.last = alarm[a].last /\ r.resolved = alarm[a].resolved
  BY <1>1 DEF RowSet
<1>3. alarm' = [alarm EXCEPT ![a] = r]  BY DEF Acknowledge
<1>. HIDE DEF r
<1>4. alarm' \in [AlarmIds -> RowSet] /\ alarm'[a] = r
        /\ \A b \in AlarmIds \ {a} : alarm'[b] = alarm[b]
  BY <1>2, <1>3 DEF AlarmTypes
<1>. QED  BY <1>2, <1>4 DEF Kept, Active

-----------------------------------------------------------------------------
(* What handler h does for the promises about cause d.                       *)
LEMMA ShowStep ==
  ASSUME NEW h \in Handlers, \A g \in Handlers \ {h} : ev'[g] = ev[g],
         NEW d, ShowAt(d),
         said'[d] = "failing" => said[d] = "failing",
         said'[d] = "failing" /\ d \in ev'[h].causes => ev'[h].pc \in FailingPc,
         ActiveOf({d}) \subseteq ActiveOf({d})' \/ (d \in ev'[h].causes /\ ev'[h].pc = "gate"),
         d \in ev[h].causes /\ WillShow(ev[h], d) =>
           ActiveOf({d})' # {} \/ (d \in ev'[h].causes /\ WillShow(ev[h], d)')
  PROVE  ShowAt(d)'
<1>. SUFFICES ASSUME said'[d] = "failing"
              PROVE  /\ \A g \in Handlers : d \in ev'[g].causes => ev'[g].pc \in FailingPc
                     /\ \/ ActiveOf({d})' # {}
                        \/ \E g \in Handlers : d \in ev'[g].causes /\ WillShow(ev[g], d)'
  BY DEF ShowAt
<1>1. \A g \in Handlers : d \in ev'[g].causes => ev'[g].pc \in FailingPc
  BY DEF ShowAt
<1>. SUFFICES ASSUME ~(d \in ev'[h].causes /\ ev'[h].pc = "gate")
              PROVE  \/ ActiveOf({d})' # {}
                     \/ \E g \in Handlers : d \in ev'[g].causes /\ WillShow(ev[g], d)'
  BY <1>1 DEF WillShow
<1>2. CASE ActiveOf({d}) # {}  BY <1>2
<1>3. CASE \E g \in Handlers : d \in ev[g].causes /\ WillShow(ev[g], d)
  <2>1. PICK g \in Handlers : d \in ev[g].causes /\ WillShow(ev[g], d)  BY <1>3
  <2>2. CASE g = h  BY <1>1, <2>1, <2>2
  <2>3. CASE g # h
    <3>1. ev'[g] = ev[g]  BY <2>3
    <3>2. WillShow(ev[g], d)'  BY <2>1, <3>1 DEF WillShow
    <3>. QED  BY <1>1, <2>1, <3>1, <3>2
  <2>. QED  BY <2>2, <2>3
<1>. QED  BY <1>2, <1>3 DEF ShowAt

LEMMA CloseStep ==
  ASSUME NEW h \in Handlers, \A g \in Handlers \ {h} : ev'[g] = ev[g],
         NEW d, CloseAt(d),
         said'[d] = "recovered" => said[d] = "recovered",
         said'[d] = "recovered" /\ d \in ev'[h].causes => ev'[h].pc \notin FailingPc,
         ActiveOf({d})' \subseteq ActiveOf({d}),
         d \in ev[h].causes /\ WillClose(ev[h], d) =>
           ActiveOf({d})' = {} \/ (d \in ev'[h].causes /\ WillClose(ev[h], d)')
  PROVE  CloseAt(d)'
<1>. SUFFICES ASSUME said'[d] = "recovered"
              PROVE  /\ \A g \in Handlers : d \in ev'[g].causes => ev'[g].pc \notin FailingPc
                     /\ \/ ActiveOf({d})' = {}
                        \/ \E g \in Handlers : d \in ev'[g].causes /\ WillClose(ev[g], d)'
  BY DEF CloseAt
<1>1. \A g \in Handlers : d \in ev'[g].causes => ev'[g].pc \notin FailingPc
  BY DEF CloseAt
<1>2. CASE ActiveOf({d}) = {}  BY <1>1, <1>2
<1>3. CASE \E g \in Handlers : d \in ev[g].causes /\ WillClose(ev[g], d)
  <2>1. PICK g \in Handlers : d \in ev[g].causes /\ WillClose(ev[g], d)  BY <1>3
  <2>2. CASE g = h  BY <1>1, <2>1, <2>2
  <2>3. CASE g # h
    <3>1. ev'[g] = ev[g]  BY <2>3
    <3>2. WillClose(ev[g], d)'  BY <2>1, <3>1 DEF WillClose
    <3>. QED  BY <1>1, <2>1, <3>1, <3>2
  <2>. QED  BY <2>2, <2>3
<1>. QED  BY <1>2, <1>3 DEF CloseAt

-----------------------------------------------------------------------------
IInv == TInv /\ ShowInv /\ CloseInv

LEMMA ReportStep ==
  ASSUME IInv, NEW h \in Handlers, NEW c \in Causes, Report(h, c)
  PROVE  IInv'
<1>. DEFINE q == IF c \in Motion THEN "stale" ELSE "gate"
            e == Event(q, {c}, now)
<1>1. TInv /\ ShowInv /\ CloseInv  BY DEF IInv
<1>2. /\ q \in {"stale", "gate"}
      /\ q = "stale" => c \in Motion
      /\ now \in 0 .. MaxTime
  BY <1>1 DEF TInv, AlarmTypes
<1>3. Becomes(h, e) /\ ev[h] = Idle /\ UNCHANGED <<now, alarm>>
  BY DEF Report, Becomes, Set
<1>. HIDE DEF q
<1>4. e \in EvSet /\ Shaped(e) /\ e.pc = q /\ e.causes = {c}
  BY <1>2 DEF Event, EvSet, Shaped, FailingPc
<1>. HIDE DEF e
<1>5. EvTypes' /\ ev'[h] = e /\ \A g \in Handlers \ {h} : ev'[g] = ev[g]
  BY <1>1, <1>3, <1>4, EvMoves DEF TInv
<1>6. ev[h].causes = {} /\ ev[h].pc = "idle"  BY <1>3, IdleTyped
<1>7. /\ said' \in [Causes -> {"failing", "recovered", "unsure"}]
      /\ \A d \in Causes \ {c} : said'[d] = said[d]
      /\ said'[c] \in {"failing", "unsure"}
      /\ said'[c] = "failing" => Busy(c) \ Failing(c) = {}
  BY <1>1 DEF TInv, HistoryTypes, Report
<1>8. TInv'
  <2>1. alarm' \in [AlarmIds -> RowSet] /\ Kept  BY <1>1, <1>3 DEF TInv, AlarmTypes, Kept
  <2>2. Sought(ev[h])'  BY <1>2, <1>4, <1>5 DEF Sought
  <2>3. HistoryTypes'  BY <1>1, <1>7 DEF TInv, HistoryTypes, Report
  <2>. QED  BY <1>1, <1>3, <1>5, <2>1, <2>2, <2>3, TypesStep
<1>9. ShowInv'
  <2>. SUFFICES ASSUME NEW d \in Causes  PROVE ShowAt(d)'
    BY DEF ShowInv
  <2>1. CASE d = c
    <3>1. said'[d] = "failing" =>
            \A g \in Handlers : c \in ev[g].causes => ev[g].pc \in FailingPc
      BY <2>1, <1>7 DEF Busy, Failing, FailingPc
    <3>2. c \in ev'[h].causes /\ ev'[h].pc \in {"stale", "gate"}  BY <1>2, <1>4, <1>5
    <3>3. WillShow(ev[h], c)' /\ ev'[h].pc \in FailingPc  BY <3>2 DEF WillShow, FailingPc
    <3>. QED  BY <2>1, <3>1, <3>2, <3>3, <1>5 DEF ShowAt
  <2>2. CASE d # c
    <3>1. d \notin ev'[h].causes /\ d \notin ev[h].causes /\ said'[d] = said[d]
      BY <2>2, <1>4, <1>5, <1>6, <1>7
    <3>2. ActiveOf({d})' = ActiveOf({d})  BY <1>3 DEF Active, ActiveOf
    <3>3. ShowAt(d)  BY <1>1 DEF ShowInv
    <3>. QED  BY <1>5, <3>1, <3>2, <3>3, ShowStep
  <2>. QED  BY <2>1, <2>2
<1>10. CloseInv'
  <2>. SUFFICES ASSUME NEW d \in Causes, said'[d] = "recovered"  PROVE CloseAt(d)'
    BY DEF CloseInv, CloseAt
  <2>1. d # c  BY <1>7
  <2>2. said[d] = "recovered" /\ d \notin ev'[h].causes /\ d \notin ev[h].causes
    BY <2>1, <1>4, <1>5, <1>6, <1>7
  <2>3. ActiveOf({d})' = ActiveOf({d})  BY <1>3 DEF Active, ActiveOf
  <2>4. CloseAt(d)  BY <1>1 DEF CloseInv
  <2>. QED  BY <1>5, <2>2, <2>3, <2>4, CloseStep
<1>. QED  BY <1>8, <1>9, <1>10 DEF IInv

PcSet == {"idle", "stale", "tick", "gate", "find", "write", "targets", "close"}

LEMMA MovedTyped ==
  ASSUME NEW e \in EvSet, NEW p \in PcSet
  PROVE  /\ [e EXCEPT !.pc = p] \in EvSet
         /\ [e EXCEPT !.pc = p].pc = p
         /\ [e EXCEPT !.pc = p].causes = e.causes
         /\ [e EXCEPT !.pc = p].found = e.found
         /\ [e EXCEPT !.pc = p].at = e.at
  BY DEF EvSet, PcSet

With(e, p, F) == [e EXCEPT !.pc = p, !.found = F]
LEMMA FoundTyped ==
  ASSUME NEW e \in EvSet, NEW p \in PcSet, NEW F \in SUBSET AlarmIds
  PROVE  /\ With(e, p, F) \in EvSet /\ With(e, p, F).pc = p /\ With(e, p, F).found = F
         /\ With(e, p, F).causes = e.causes /\ With(e, p, F).at = e.at
  BY DEF EvSet, PcSet, With

(* Handler h, which becomes e, keeps what there is to keep about cause d.    *)
ShowKept(h, e, d) ==
  said'[d] = "failing" =>
    /\ said[d] = "failing"
    /\ d \in e.causes => e.pc \in FailingPc
    /\ ActiveOf({d}) \subseteq ActiveOf({d})' \/ (d \in e.causes /\ e.pc = "gate")
    /\ d \in ev[h].causes /\ WillShow(ev[h], d) =>
         ActiveOf({d})' # {} \/ (d \in e.causes /\ WillShow(ev[h], d)')
CloseKept(h, e, d) ==
  said'[d] = "recovered" =>
    /\ said[d] = "recovered"
    /\ d \in e.causes => e.pc \notin FailingPc
    /\ ActiveOf({d})' \subseteq ActiveOf({d})
    /\ d \in ev[h].causes /\ WillClose(ev[h], d) =>
         ActiveOf({d})' = {} \/ (d \in e.causes /\ WillClose(ev[h], d)')

(* What becomes of the invariant when handler h alone goes on.               *)
LEMMA HandlerStepInv ==
  ASSUME IInv, NEW h \in Handlers, NEW e \in EvSet, Shaped(e), Becomes(h, e),
         alarm' \in [AlarmIds -> RowSet], Kept, now' = now, HistoryTypes',
         Sought(ev[h])',
         \A d \in Causes : ShowKept(h, e, d) /\ CloseKept(h, e, d)
  PROVE  IInv'
<1>1. TInv /\ ShowInv /\ CloseInv  BY DEF IInv
<1>2. EvTypes' /\ ev'[h] = e /\ \A g \in Handlers \ {h} : ev'[g] = ev[g]
  BY <1>1, EvMoves DEF TInv
<1>3. TInv'  BY <1>1, <1>2, TypesStep
<1>4. \A d \in Causes : ShowAt(d)'
  <2>. TAKE d \in Causes
  <2>1. CASE said'[d] # "failing"  BY <2>1 DEF ShowAt
  <2>2. CASE said'[d] = "failing"
    <3>1. ShowAt(d)  BY <1>1 DEF ShowInv
    <3>. QED  BY <2>2, <3>1, <1>2, ShowStep DEF ShowKept
  <2>. QED  BY <2>1, <2>2
<1>5. \A d \in Causes : CloseAt(d)'
  <2>. TAKE d \in Causes
  <2>1. CASE said'[d] # "recovered"  BY <2>1 DEF CloseAt
  <2>2. CASE said'[d] = "recovered"
    <3>1. CloseAt(d)  BY <1>1 DEF CloseInv
    <3>. QED  BY <2>2, <3>1, <1>2, CloseStep DEF CloseKept
  <2>. QED  BY <2>1, <2>2
<1>. QED  BY <1>3, <1>4, <1>5 DEF IInv, ShowInv, CloseInv

(* What the invariant says of a handler.                                     *)
LEMMA HandlerAt ==
  ASSUME IInv, NEW h \in Handlers
  PROVE  /\ EvTypes /\ AlarmTypes /\ HistoryTypes
         /\ ev[h] \in EvSet /\ Shaped(ev[h]) /\ Sought(ev[h])
         /\ \A d \in Causes : ShowAt(d) /\ CloseAt(d)
  BY EvAt DEF IInv, TInv, AllSought, ShowInv, CloseInv

LEMMA RowsLeft ==
  ASSUME AlarmTypes, UNCHANGED alarm
  PROVE  /\ alarm' \in [AlarmIds -> RowSet] /\ Kept
         /\ \A d : ActiveOf({d})' = ActiveOf({d})
  BY DEF AlarmTypes, Kept, Active, ActiveOf

LEMMA TickStep ==
  ASSUME IInv, NEW h \in Handlers, Tick(h)
  PROVE  IInv'
<1>. DEFINE e == Event("tick", {}, now)
<1>1. Becomes(h, e) /\ UNCHANGED <<now, alarm, historyVars>> /\ ev[h] = Idle
  BY DEF Tick, Set, Becomes
<1>2. e \in EvSet /\ Shaped(e) /\ e.pc = "tick" /\ e.causes = {}
  BY HandlerAt DEF Event, EvSet, Shaped, FailingPc, AlarmTypes
<1>. HIDE DEF e
<1>3. ev[h].causes = {} /\ ev'[h] = e  BY <1>1, <1>2, HandlerAt, EvMoves, IdleTyped
<1>4. Sought(ev[h])'  BY <1>2, <1>3 DEF Sought
<1>5. HistoryTypes' /\ said' = said  BY <1>1, HandlerAt DEF HistoryTypes, historyVars
<1>6. alarm' \in [AlarmIds -> RowSet] /\ Kept /\ \A d : ActiveOf({d})' = ActiveOf({d})
  BY <1>1, HandlerAt, RowsLeft
<1>7. \A d \in Causes : ShowKept(h, e, d) /\ CloseKept(h, e, d)
  BY <1>2, <1>3, <1>5, <1>6 DEF ShowKept, CloseKept
<1>. QED  BY <1>1, <1>2, <1>4, <1>5, <1>6, <1>7, HandlerStepInv

LEMMA RecoverStep ==
  ASSUME IInv, NEW h \in Handlers, NEW R \in Recoveries, Recover(h, R)
  PROVE  IInv'
<1>. DEFINE e == Event("targets", R, 0)
<1>1. TInv /\ ShowInv /\ CloseInv  BY DEF IInv
<1>2. Becomes(h, e) /\ UNCHANGED <<now, alarm, reported, inTurn>> /\ ev[h] = Idle
  BY DEF Recover, Set, Becomes
<1>3. e \in EvSet /\ Shaped(e) /\ e.pc = "targets" /\ e.causes = R
  BY CausesAssumption, TimesAssumption DEF Event, EvSet, Shaped, FailingPc
<1>. HIDE DEF e
<1>4. /\ ev[h].causes = {} /\ ev'[h] = e /\ EvTypes'
      /\ \A g \in Handlers \ {h} : ev'[g] = ev[g]
  BY <1>2, <1>3, HandlerAt, EvMoves, IdleTyped
<1>5. Sought(ev[h])'  BY <1>3, <1>4 DEF Sought
<1>6. \A d \in Causes :
        said'[d] = IF d \notin R THEN said[d]
                   ELSE IF Failing(d) = {} THEN "recovered" ELSE "unsure"
  BY DEF Recover
<1>7. HistoryTypes'
  BY <1>2, HandlerAt DEF HistoryTypes, Recover
<1>8. TInv'  BY <1>1, <1>2, <1>4, <1>5, <1>7, HandlerAt, RowsLeft, TypesStep
<1>9. \A d \in Causes : d \notin R => ShowAt(d)' /\ CloseAt(d)'
  BY <1>2, <1>3, <1>4, <1>6, HandlerAt, RowsLeft, ShowStep, CloseStep
<1>10. \A d \in Causes : d \in R => ShowAt(d)' /\ CloseAt(d)'
  <2>. SUFFICES ASSUME NEW d \in Causes, d \in R  PROVE ShowAt(d)' /\ CloseAt(d)'
    OBVIOUS
  <2>1. said'[d] # "failing" /\ (said'[d] = "recovered" => Failing(d) = {})
    BY <1>6
  <2>2. ShowAt(d)'  BY <2>1 DEF ShowAt
  <2>3. CloseAt(d)'
    <3>. SUFFICES ASSUME said'[d] = "recovered"  PROVE CloseAt(d)'  BY DEF CloseAt
    <3>1. \A g \in Handlers : d \in ev[g].causes => ev[g].pc \notin FailingPc
      BY <2>1 DEF Failing, FailingPc
    <3>2. ev'[h].pc = "targets" /\ d \in ev'[h].causes  BY <1>3, <1>4
    <3>3. WillClose(ev[h], d)' /\ ev'[h].pc \notin FailingPc
      BY <3>2 DEF WillClose, FailingPc
    <3>. QED  BY <3>1, <3>2, <3>3, <1>4 DEF CloseAt
  <2>. QED  BY <2>2, <2>3
<1>. QED  BY <1>8, <1>9, <1>10 DEF IInv, ShowInv, CloseInv

LEMMA FailingSays ==
  ASSUME IInv, NEW h \in Handlers, NEW d \in Causes, d \in ev[h].causes
  PROVE  /\ ev[h].pc \in FailingPc => said[d] # "recovered"
         /\ said[d] = "failing" => ev[h].pc \in FailingPc
  BY HandlerAt DEF ShowAt, CloseAt

LEMMA PassedStep ==
  ASSUME IInv, NEW h \in Handlers, Passed(h)
  PROVE  IInv'
<1>. DEFINE e == [ev[h] EXCEPT !.pc = "find"]
<1>1. Becomes(h, e) /\ UNCHANGED <<now, alarm, historyVars>> /\ ev[h].pc = "gate"
  BY DEF Passed, Goto, Set, Becomes
<1>2. e \in EvSet /\ e.pc = "find" /\ e.causes = ev[h].causes
  BY HandlerAt, MovedTyped DEF PcSet
<1>. HIDE DEF e
<1>3. Shaped(e) /\ ev'[h] = e  BY <1>1, <1>2, HandlerAt, EvMoves DEF Shaped, FailingPc
<1>4. Sought(ev[h])'  BY <1>2, <1>3 DEF Sought
<1>5. HistoryTypes' /\ said' = said  BY <1>1, HandlerAt DEF HistoryTypes, historyVars
<1>6. alarm' \in [AlarmIds -> RowSet] /\ Kept /\ \A d : ActiveOf({d})' = ActiveOf({d})
  BY <1>1, HandlerAt, RowsLeft
<1>7. \A d \in Causes : d \in e.causes => said[d] # "recovered"
  BY <1>1, <1>2, FailingSays DEF FailingPc
<1>8. \A d \in Causes : ShowKept(h, e, d) /\ CloseKept(h, e, d)
  BY <1>1, <1>2, <1>3, <1>5, <1>6, <1>7
     DEF ShowKept, CloseKept, WillShow, WillClose, FailingPc
<1>. QED  BY <1>1, <1>2, <1>3, <1>4, <1>5, <1>6, <1>8, HandlerStepInv

LEMMA FindStep ==
  ASSUME IInv, NEW h \in Handlers, Find(h)
  PROVE  IInv'
<1>1. \E F \in SUBSET Recent(h) : ev' = [ev EXCEPT ![h] = With(ev[h], "write", F)]
  <2>1. PICK F \in IF Recent(h) = {} THEN {{}} ELSE {{a} : a \in Latest(Recent(h))} :
          ev' = [ev EXCEPT ![h] = With(ev[h], "write", F)]
    BY DEF Find, Set, With
  <2>2. F \in SUBSET Recent(h)  BY <2>1 DEF Latest
  <2>. QED  BY <2>1, <2>2
<1>. PICK F \in SUBSET Recent(h) : ev' = [ev EXCEPT ![h] = With(ev[h], "write", F)]
  BY <1>1
<1>. DEFINE e == With(ev[h], "write", F)
<1>2. Becomes(h, e) /\ UNCHANGED <<now, alarm, historyVars>> /\ ev[h].pc = "find"
  BY <1>1 DEF Find, Becomes
<1>3. /\ F \in SUBSET AlarmIds
      /\ \A a \in F : a \in Active /\ alarm[a].cause \in ev[h].causes
  BY DEF Recent, ActiveOf, Active
<1>4. e \in EvSet /\ e.pc = "write" /\ e.found = F /\ e.causes = ev[h].causes
  BY <1>3, HandlerAt, FoundTyped DEF PcSet
<1>. HIDE DEF e
<1>5. Shaped(e) /\ ev'[h] = e
  BY <1>2, <1>4, HandlerAt, EvMoves DEF Shaped, FailingPc
<1>6. HistoryTypes' /\ said' = said  BY <1>2, HandlerAt DEF HistoryTypes, historyVars
<1>7. alarm' \in [AlarmIds -> RowSet] /\ Kept /\ \A d : ActiveOf({d})' = ActiveOf({d})
  BY <1>2, HandlerAt, RowsLeft
<1>8. Sought(ev[h])'  BY <1>2, <1>3, <1>4, <1>5 DEF Sought, Active
<1>9. \A d \in Causes : d \in e.causes => said[d] # "recovered" /\ ev[h].causes = {d}
  BY <1>2, <1>4, FailingSays, HandlerAt DEF FailingPc, Shaped
<1>10. \A d \in Causes : d \in e.causes => WillShow(ev[h], d)'
  <2>. TAKE d \in Causes
  <2>. HAVE d \in e.causes
  <2>1. ActiveOf({d})' = ActiveOf({d}) /\ ev[h].causes = {d}  BY <1>7, <1>9
  <2>2. F \subseteq ActiveOf({d})  BY <2>1, <1>3 DEF ActiveOf
  <2>. QED  BY <2>1, <2>2, <1>4, <1>5 DEF WillShow
<1>11. \A d \in Causes : ShowKept(h, e, d) /\ CloseKept(h, e, d)
  BY <1>2, <1>4, <1>5, <1>6, <1>7, <1>9, <1>10
     DEF ShowKept, CloseKept, WillClose, FailingPc
<1>. QED  BY <1>2, <1>4, <1>5, <1>6, <1>7, <1>8, <1>11, HandlerStepInv

LEMMA TargetsStep ==
  ASSUME IInv, NEW h \in Handlers, Targets(h)
  PROVE  IInv'
<1>. DEFINE F == ActiveOf(ev[h].causes)
            e == With(ev[h], "close", F)
<1>1. Becomes(h, e) /\ UNCHANGED <<now, alarm, historyVars>> /\ ev[h].pc = "targets"
  BY DEF Targets, Set, Becomes, With
<1>2. /\ F \in SUBSET AlarmIds
      /\ \A a \in F : alarm[a].status # "none" /\ alarm[a].cause \in ev[h].causes
      /\ \A d \in ev[h].causes : ActiveOf({d}) \subseteq F
  BY DEF ActiveOf, Active
<1>. HIDE DEF F
<1>3. e \in EvSet /\ e.pc = "close" /\ e.found = F /\ e.causes = ev[h].causes
  BY <1>2, HandlerAt, FoundTyped DEF PcSet
<1>. HIDE DEF e
<1>4. Shaped(e) /\ ev'[h] = e
  BY <1>1, <1>3, HandlerAt, EvMoves DEF Shaped, FailingPc
<1>5. HistoryTypes' /\ said' = said  BY <1>1, HandlerAt DEF HistoryTypes, historyVars
<1>6. alarm' \in [AlarmIds -> RowSet] /\ Kept /\ \A d : ActiveOf({d})' = ActiveOf({d})
  BY <1>1, HandlerAt, RowsLeft
<1>7. Sought(ev[h])'  BY <1>1, <1>2, <1>3, <1>4 DEF Sought
<1>8. \A d \in Causes : d \in e.causes => said[d] # "failing" /\ WillClose(ev[h], d)'
  BY <1>1, <1>2, <1>3, <1>4, <1>6, FailingSays DEF FailingPc, WillClose
<1>9. \A d \in Causes : ShowKept(h, e, d) /\ CloseKept(h, e, d)
  BY <1>3, <1>4, <1>5, <1>6, <1>8 DEF ShowKept, CloseKept, FailingPc
<1>. QED  BY <1>1, <1>3, <1>4, <1>5, <1>6, <1>7, <1>9, HandlerStepInv

(* The event of a handler is over without a word about its causes.           *)
LEMMA GivenUpStep ==
  ASSUME IInv, NEW h \in Handlers, End(h), Unsure(ev[h].causes), UNCHANGED <<now, alarm, inTurn>>,
         reported' \in Int
  PROVE  IInv'
<1>1. Becomes(h, Idle)  BY DEF End, Set, Becomes
<1>2. ev'[h] = Idle  BY <1>1, HandlerAt, EvMoves, IdleTyped
<1>3. Sought(ev[h])'  BY <1>2, IdleTyped DEF Sought
<1>4. \A d \in Causes : said'[d] = IF d \in ev[h].causes THEN "unsure" ELSE said[d]
  BY DEF Unsure
<1>5. HistoryTypes'  BY HandlerAt DEF HistoryTypes, Unsure
<1>6. alarm' \in [AlarmIds -> RowSet] /\ Kept /\ \A d : ActiveOf({d})' = ActiveOf({d})
  BY HandlerAt, RowsLeft
<1>7. \A d \in Causes : ShowKept(h, Idle, d) /\ CloseKept(h, Idle, d)
  BY <1>4, <1>6, IdleTyped DEF ShowKept, CloseKept
<1>. QED  BY <1>1, <1>3, <1>5, <1>6, <1>7, IdleTyped, HandlerStepInv

LEMMA DroppedStep ==
  ASSUME IInv, NEW h \in Handlers, Dropped(h) \/ QueryFails(h)
  PROVE  IInv'
<1>1. reported \in Int /\ (reported' = reported - 1 \/ reported' = reported)
  BY HandlerAt DEF HistoryTypes, Dropped, QueryFails
<1>. QED  BY <1>1, GivenUpStep DEF Dropped, QueryFails

LEMMA UpdateStep ==
  ASSUME IInv, NEW h \in Handlers, Update(h)
  PROVE  IInv'
<1>1. Becomes(h, Idle) /\ UNCHANGED <<now, historyVars>> /\ ev[h].pc = "write"
        /\ ev[h].found # {}
  BY DEF Update, End, Set, Becomes
<1>2. ev'[h] = Idle  BY <1>1, HandlerAt, EvMoves, IdleTyped
<1>3. Sought(ev[h])'  BY <1>2, IdleTyped DEF Sought
<1>4. HistoryTypes' /\ said' = said  BY <1>1, HandlerAt DEF HistoryTypes, historyVars
<1>5. /\ alarm' \in [AlarmIds -> RowSet] /\ Kept
      /\ \A C : ActiveOf(C)' = ActiveOf(C)
  BY HandlerAt, RowsUpdated
<1>6. \A d \in Causes : d \in ev[h].causes => said[d] # "recovered"
  BY <1>1, FailingSays DEF FailingPc
<1>7. \A d \in Causes : WillShow(ev[h], d) => ActiveOf({d})' # {}
  BY <1>1, <1>5 DEF WillShow
<1>8. \A d \in Causes : ShowKept(h, Idle, d) /\ CloseKept(h, Idle, d)
  BY <1>4, <1>5, <1>6, <1>7, IdleTyped DEF ShowKept, CloseKept
<1>. QED  BY <1>1, <1>3, <1>4, <1>5, <1>8, IdleTyped, HandlerStepInv

LEMMA CreateStep ==
  ASSUME IInv, NEW h \in Handlers, Create(h)
  PROVE  IInv'
<1>1. Becomes(h, Idle) /\ UNCHANGED <<now, historyVars>> /\ ev[h].pc = "write"
  BY DEF Create, End, Set, Becomes
<1>2. ev'[h] = Idle  BY <1>1, HandlerAt, EvMoves, IdleTyped
<1>3. Sought(ev[h])'  BY <1>2, IdleTyped DEF Sought
<1>4. HistoryTypes' /\ said' = said  BY <1>1, HandlerAt DEF HistoryTypes, historyVars
<1>5. alarm' \in [AlarmIds -> RowSet] /\ Kept /\ \E a \in Unused : Created(h, a)
  BY HandlerAt, RowCreated
<1>6. PICK a \in Unused : Created(h, a)  BY <1>5
<1>7. a \in AlarmIds /\ alarm[a].status = "none"  BY DEF Unused
<1>8. \A d \in Causes : d \in ev[h].causes => said[d] # "recovered" /\ ev[h].causes = {d}
  BY <1>1, FailingSays, HandlerAt DEF FailingPc, Shaped
<1>9. \A d \in Causes : ActiveOf({d}) \subseteq ActiveOf({d})'
  BY <1>6, <1>7 DEF Created, Active, ActiveOf
<1>10. \A d \in Causes : d \in ev[h].causes => a \in ActiveOf({d})'
  BY <1>6, <1>7, <1>8 DEF Created, Active, ActiveOf
<1>11. \A d \in Causes : d \notin ev[h].causes => ActiveOf({d})' \subseteq ActiveOf({d})
  BY <1>6, <1>7 DEF Created, Active, ActiveOf
<1>12. \A d \in Causes : ShowKept(h, Idle, d) /\ CloseKept(h, Idle, d)
  BY <1>4, <1>8, <1>9, <1>10, <1>11, IdleTyped DEF ShowKept, CloseKept
<1>. QED  BY <1>1, <1>3, <1>4, <1>5, <1>12, IdleTyped, HandlerStepInv

LEMMA CloseAllStep ==
  ASSUME IInv, NEW h \in Handlers, Close(h)
  PROVE  IInv'
<1>1. Becomes(h, Idle) /\ UNCHANGED <<now, historyVars>> /\ ev[h].pc = "close"
        /\ Resolve(ev[h].found)
  BY DEF Close, End, Set, Becomes
<1>2. ev'[h] = Idle  BY <1>1, HandlerAt, EvMoves, IdleTyped
<1>3. Sought(ev[h])'  BY <1>2, IdleTyped DEF Sought
<1>4. HistoryTypes' /\ said' = said  BY <1>1, HandlerAt DEF HistoryTypes, historyVars
<1>5. /\ alarm' \in [AlarmIds -> RowSet] /\ Kept
      /\ \A C : ActiveOf(C)' = ActiveOf(C) \ ev[h].found
  BY <1>1, HandlerAt, RowsResolved
<1>6. \A d \in Causes : d \in ev[h].causes => said[d] # "failing"
  BY <1>1, FailingSays DEF FailingPc
<1>7. \A d \in Causes : WillClose(ev[h], d) => ActiveOf({d})' = {}
  BY <1>1, <1>5 DEF WillClose
<1>8. \A d \in Causes : d \notin ev[h].causes => ActiveOf({d})' = ActiveOf({d})
  <2>1. \A a \in ev[h].found : alarm[a].cause \in ev[h].causes
    BY <1>1, HandlerAt DEF Sought
  <2>. QED  BY <1>5, <2>1 DEF ActiveOf
<1>9. \A d \in Causes : ShowKept(h, Idle, d) /\ CloseKept(h, Idle, d)
  BY <1>4, <1>5, <1>6, <1>7, <1>8, IdleTyped DEF ShowKept, CloseKept
<1>. QED  BY <1>1, <1>3, <1>4, <1>5, <1>9, IdleTyped, HandlerStepInv

LEMMA ResolveStaleStep ==
  ASSUME IInv, NEW h \in Handlers, ResolveStale(h)
  PROVE  IInv'
<1>. DEFINE n == [ev[h] EXCEPT !.pc = "gate"]
            G == {alarm[a].cause : a \in Stale(h)} \ ev[h].causes
<1>1. /\ Resolve(Stale(h)) /\ Unsure(G) /\ UNCHANGED <<now, reported, inTurn>>
      /\ ev[h].pc \in {"stale", "tick"}
      /\ ev[h].pc = "tick" => Becomes(h, Idle)
      /\ ev[h].pc = "stale" => Becomes(h, n)
  BY DEF ResolveStale, End, Goto, Set, Becomes
<1>2. n \in EvSet /\ n.pc = "gate" /\ n.causes = ev[h].causes
  BY HandlerAt, MovedTyped DEF PcSet
<1>. HIDE DEF n
<1>3. PICK e \in EvSet : /\ Becomes(h, e) /\ Shaped(e) /\ e.causes = ev[h].causes
                         /\ \/ e.pc = "gate" /\ ev[h].pc = "stale"
                            \/ e.pc = "idle" /\ ev[h].causes = {}
  <2>1. CASE ev[h].pc = "tick"
    <3>1. ev[h].causes = {}  BY <2>1, HandlerAt DEF Shaped
    <3>. QED  BY <2>1, <3>1, <1>1, IdleTyped
  <2>2. CASE ev[h].pc = "stale"
    <3>1. Shaped(n)  BY <2>2, <1>2, HandlerAt DEF Shaped, FailingPc
    <3>. QED  BY <2>2, <3>1, <1>1, <1>2
  <2>. QED  BY <2>1, <2>2, <1>1
<1>4. ev'[h] = e  BY <1>3, HandlerAt, EvMoves
<1>5. Sought(ev[h])'  BY <1>3, <1>4 DEF Sought
<1>6. HistoryTypes'  BY <1>1, HandlerAt DEF HistoryTypes, Unsure
<1>7. \A d \in Causes : said'[d] = IF d \in G THEN "unsure" ELSE said[d]
  BY <1>1 DEF Unsure
<1>8. /\ alarm' \in [AlarmIds -> RowSet] /\ Kept
      /\ \A C : ActiveOf(C)' = ActiveOf(C) \ Stale(h)
  BY <1>1, HandlerAt, RowsResolved
<1>9. \A d \in Causes : d \notin G /\ d \notin ev[h].causes => ActiveOf({d})' = ActiveOf({d})
  BY <1>8 DEF ActiveOf
<1>10. \A d \in Causes : d \in ev[h].causes => said[d] # "recovered" /\ e.pc = "gate"
  BY <1>3, FailingSays DEF FailingPc
<1>11. \A d \in Causes : ShowKept(h, e, d)
  BY <1>3, <1>4, <1>7, <1>9, <1>10 DEF ShowKept, WillShow, FailingPc
<1>12. \A d \in Causes : CloseKept(h, e, d)
  BY <1>3, <1>4, <1>7, <1>9, <1>10 DEF CloseKept, FailingPc
<1>. QED  BY <1>1, <1>3, <1>5, <1>6, <1>8, <1>11, <1>12, HandlerStepInv

-----------------------------------------------------------------------------
(* Steps of operators and of the clock, who leave the handlers alone.        *)
LEMMA OutsideStep ==
  ASSUME IInv, UNCHANGED ev, AlarmTypes', Kept, HistoryTypes',
         \A d \in Causes :
           /\ said'[d] = "failing" =>
                said[d] = "failing" /\ ActiveOf({d}) \subseteq ActiveOf({d})'
           /\ said'[d] = "recovered" =>
                said[d] = "recovered" /\ ActiveOf({d})' \subseteq ActiveOf({d})
  PROVE  IInv'
<1>1. TInv /\ ShowInv /\ CloseInv  BY DEF IInv
<1>2. EvTypes'  BY <1>1 DEF TInv, EvTypes
<1>3. AllSought'
  <2>. SUFFICES ASSUME NEW g \in Handlers  PROVE Sought(ev[g])'  BY DEF AllSought
  <2>1. ev'[g] = ev[g] /\ Sought(ev[g]) /\ ev[g].found \subseteq AlarmIds
    BY <1>1, HandlerAt DEF EvSet
  <2>. QED  BY <2>1 DEF Sought, Kept
<1>4. \A d \in Causes : ShowAt(d)'
  <2>. SUFFICES ASSUME NEW d \in Causes, said'[d] = "failing"  PROVE ShowAt(d)'
    BY DEF ShowAt
  <2>1. ShowAt(d) /\ said[d] = "failing" /\ ActiveOf({d}) \subseteq ActiveOf({d})'
    BY <1>1 DEF ShowInv
  <2>2. \A e : WillShow(e, d) => WillShow(e, d)'  BY <2>1 DEF WillShow
  <2>. QED  BY <2>1, <2>2 DEF ShowAt, WillShow
<1>5. \A d \in Causes : CloseAt(d)'
  <2>. SUFFICES ASSUME NEW d \in Causes, said'[d] = "recovered"  PROVE CloseAt(d)'
    BY DEF CloseAt
  <2>1. CloseAt(d) /\ said[d] = "recovered" /\ ActiveOf({d})' \subseteq ActiveOf({d})
    BY <1>1 DEF CloseInv
  <2>. QED  BY <2>1 DEF CloseAt, WillClose
<1>. QED  BY <1>1, <1>2, <1>3, <1>4, <1>5 DEF IInv, TInv, ShowInv, CloseInv

LEMMA AcknowledgeStep ==
  ASSUME IInv, NEW a \in AlarmIds, Acknowledge(a)
  PROVE  IInv'
<1>1. TInv  BY DEF IInv
<1>2. /\ alarm' \in [AlarmIds -> RowSet] /\ Kept /\ Active' = Active \cup {a}
      /\ \A b \in AlarmIds : alarm'[b].cause = alarm[b].cause
  BY <1>1, RowAcknowledged DEF TInv
<1>3. AlarmTypes'  BY <1>1, <1>2 DEF TInv, AlarmTypes, Acknowledge
<1>4. HistoryTypes'  BY <1>1 DEF TInv, HistoryTypes, Acknowledge, Unsure
<1>5. \A d \in Causes : ActiveOf({d}) \subseteq ActiveOf({d})'
  BY <1>2 DEF ActiveOf, Active
<1>6. CASE alarm[a].status = "OPEN"
  <2>1. said' = said /\ a \in Active  BY <1>6 DEF Acknowledge, Active
  <2>2. \A d \in Causes : ActiveOf({d})' \subseteq ActiveOf({d})
    BY <2>1, <1>2 DEF ActiveOf, Active
  <2>. QED  BY <2>1, <2>2, <1>2, <1>3, <1>4, <1>5, OutsideStep DEF Acknowledge
<1>7. CASE alarm[a].status # "OPEN"
  <2>1. \A d \in Causes : said'[d] = IF d = alarm[a].cause THEN "unsure" ELSE said[d]
    BY <1>7 DEF Acknowledge, Unsure
  <2>2. \A d \in Causes : d # alarm[a].cause => ActiveOf({d})' \subseteq ActiveOf({d})
    BY <1>2 DEF ActiveOf, Active
  <2>. QED  BY <2>1, <2>2, <1>2, <1>3, <1>4, <1>5, OutsideStep DEF Acknowledge
<1>. QED  BY <1>6, <1>7

LEMMA ResolveByHandStep ==
  ASSUME IInv, NEW a \in AlarmIds, ResolveByHand(a)
  PROVE  IInv'
<1>1. TInv  BY DEF IInv
<1>2. Resolve({a}) /\ Unsure({alarm[a].cause}) /\ UNCHANGED <<now, ev, reported, inTurn>>
  BY DEF ResolveByHand
<1>3. /\ alarm' \in [AlarmIds -> RowSet] /\ Kept
      /\ \A C : ActiveOf(C)' = ActiveOf(C) \ {a}
  BY <1>1, <1>2, RowsResolved DEF TInv
<1>4. AlarmTypes'  BY <1>1, <1>2, <1>3 DEF TInv, AlarmTypes
<1>5. HistoryTypes'  BY <1>1, <1>2 DEF TInv, HistoryTypes, Unsure
<1>6. \A d \in Causes : said'[d] = IF d = alarm[a].cause THEN "unsure" ELSE said[d]
  BY <1>2 DEF Unsure
<1>7. \A d \in Causes : d # alarm[a].cause => ActiveOf({d})' = ActiveOf({d})
  BY <1>3 DEF ActiveOf
<1>. QED  BY <1>2, <1>3, <1>4, <1>5, <1>6, <1>7, OutsideStep

LEMMA TimePassesStep ==
  ASSUME IInv, TimePasses
  PROVE  IInv'
<1>1. TInv  BY DEF IInv
<1>2. AlarmTypes'  BY <1>1, TimesAssumption DEF TInv, AlarmTypes, TimePasses
<1>3. HistoryTypes'  BY <1>1 DEF TInv, HistoryTypes, TimePasses, historyVars
<1>4. Kept /\ \A d : ActiveOf({d})' = ActiveOf({d})
  BY <1>1, RowsLeft DEF TInv, TimePasses
<1>. QED  BY <1>2, <1>3, <1>4, OutsideStep DEF TimePasses, historyVars

(* The API dies; what it was processing is forgotten, and nothing is said.   *)
LEMMA CrashStep ==
  ASSUME IInv, Crash, reported' \in Int
  PROVE  IInv'
<1>1. TInv /\ ShowInv /\ CloseInv  BY DEF IInv
<1>. DEFINE G == UNION {ev[h].causes : h \in Handlers}
<1>2. /\ ev' = [h \in Handlers |-> Idle] /\ UNCHANGED <<now, alarm, inTurn>>
      /\ \A d \in Causes : said'[d] = IF d \in G THEN "unsure" ELSE said[d]
  BY DEF Crash, Unsure
<1>3. AlarmTypes'  BY <1>1, <1>2 DEF TInv, AlarmTypes
<1>4. EvTypes' /\ AllSought'
  <2>1. \A h \in Handlers : ev'[h] = Idle  BY <1>2
  <2>2. ev' \in [Handlers -> EvSet]  BY <1>2, IdleTyped
  <2>. QED  BY <2>1, <2>2, IdleTyped DEF EvTypes, AllSought, Sought
<1>5. HistoryTypes'  BY <1>1 DEF TInv, HistoryTypes, Crash, Unsure
<1>6. \A d : ActiveOf({d})' = ActiveOf({d})  BY <1>1, <1>2, RowsLeft DEF TInv
<1>7. \A h \in Handlers : ev'[h].causes = {}  BY <1>2, IdleTyped
<1>8. \A d \in Causes : d \notin G => \A h \in Handlers : d \notin ev[h].causes
  OBVIOUS
<1>. HIDE DEF G
<1>9. \A d \in Causes : ShowAt(d)' /\ CloseAt(d)'
  <2>. TAKE d \in Causes
  <2>1. CASE d \in G  BY <2>1, <1>2 DEF ShowAt, CloseAt
  <2>2. CASE d \notin G
    <3>1. ShowAt(d) /\ CloseAt(d)  BY <1>1 DEF ShowInv, CloseInv
    <3>2. ShowAt(d)'  BY <2>2, <3>1, <1>2, <1>6, <1>7, <1>8 DEF ShowAt
    <3>3. CloseAt(d)'  BY <2>2, <3>1, <1>2, <1>6, <1>7, <1>8 DEF CloseAt
    <3>. QED  BY <3>2, <3>3
  <2>. QED  BY <2>1, <2>2
<1>. QED  BY <1>3, <1>4, <1>5, <1>9 DEF IInv, TInv, ShowInv, CloseInv

-----------------------------------------------------------------------------
(* Whatever is in progress was reported, and no more than the bound.         *)
Inv == IInv /\ Counted

LEMMA InProgressIs ==
  ASSUME EvTypes
  PROVE  InProgress = {h \in Handlers : ev[h].pc \in FailingPc}
<1>1. \A h \in Handlers : ev[h].pc \in FailingPc => \E c \in Causes : c \in ev[h].causes
  BY EvAt DEF Shaped
<1>. QED  BY <1>1 DEF InProgress, Failing, FailingPc

LEMMA InProgressCounts ==
  ASSUME EvTypes
  PROVE  IsFiniteSet(InProgress) /\ Cardinality(InProgress) \in Nat
<1>1. InProgress \in SUBSET Handlers  BY InProgressIs
<1>. QED  BY <1>1, HandlersAssumption, FS_Subset, FS_CardinalityType

LEMMA FewerInProgress ==
  ASSUME Inv, IInv', UNCHANGED reported,
         \A h \in Handlers : ev'[h].pc \in FailingPc => ev[h].pc \in FailingPc
  PROVE  Inv'
<1>1. EvTypes /\ EvTypes' /\ reported \in Int  BY DEF Inv, IInv, TInv, HistoryTypes
<1>2. InProgress' = {h \in Handlers : ev'[h].pc \in FailingPc}
  <2>1. \A h \in Handlers : ev'[h].pc \in FailingPc => \E c \in Causes : c \in ev'[h].causes
    BY <1>1 DEF EvTypes, Shaped
  <2>. QED  BY <2>1 DEF InProgress, Failing, FailingPc
<1>3. InProgress' \in SUBSET InProgress  BY <1>1, <1>2, InProgressIs
<1>4. Cardinality(InProgress') <= Cardinality(InProgress)
  BY <1>1, <1>3, InProgressCounts, FS_Subset
<1>5. Cardinality(InProgress') \in Nat /\ Cardinality(InProgress) \in Nat
  BY <1>1, <1>3, InProgressCounts, FS_Subset, FS_CardinalityType
<1>. QED  BY <1>1, <1>4, <1>5, TimesAssumption DEF Inv, Counted

(* Handler h alone goes on, and with it the count.                           *)
InProgressNext == {h \in Handlers : ev'[h].pc \in FailingPc}

LEMMA InProgressNextIs ==
  ASSUME IInv'
  PROVE  InProgress' = InProgressNext
<1>1. \A h \in Handlers : ev'[h].pc \in FailingPc => \E c \in Causes : c \in ev'[h].causes
  BY DEF IInv, TInv, EvTypes, Shaped
<1>. QED  BY <1>1 DEF InProgress, InProgressNext, Failing, FailingPc

LEMMA ReportProgress ==
  ASSUME Inv, IInv', NEW h \in Handlers, NEW c \in Causes, Report(h, c)
  PROVE  Cardinality(InProgress') = Cardinality(InProgress) + 1
<1>1. EvTypes  BY DEF Inv, IInv, TInv
<1>. DEFINE e == Event(IF c \in Motion THEN "stale" ELSE "gate", {c}, now)
<1>2. ev' = [ev EXCEPT ![h] = e] /\ e.pc \in FailingPc /\ ev[h].pc = "idle"
  BY IdleTyped DEF Report, Set, Event, FailingPc
<1>. HIDE DEF e
<1>3. h \notin InProgress  BY <1>1, <1>2, InProgressIs DEF FailingPc
<1>4. InProgress' = InProgress \cup {h}
  BY <1>1, <1>2, InProgressIs, InProgressNextIs DEF InProgressNext, EvTypes
<1>. QED  BY <1>1, <1>3, <1>4, InProgressCounts, FS_AddElement

LEMMA EndProgress ==
  ASSUME Inv, IInv', NEW h \in Handlers, End(h)
  PROVE  Cardinality(InProgress') =
           IF h \in InProgress THEN Cardinality(InProgress) - 1 ELSE Cardinality(InProgress)
<1>1. EvTypes  BY DEF Inv, IInv, TInv
<1>2. ev' = [ev EXCEPT ![h] = Idle] /\ Idle.pc \notin FailingPc
  BY IdleTyped DEF End, Set, FailingPc
<1>3. InProgress' = InProgress \ {h}
  BY <1>1, <1>2, InProgressIs, InProgressNextIs DEF InProgressNext, EvTypes
<1>. QED  BY <1>1, <1>3, InProgressCounts, FS_RemoveElement

LEMMA CrashProgress ==
  ASSUME IInv', Crash
  PROVE  Cardinality(InProgress') = 0
<1>1. \A h \in Handlers : ev'[h].pc \notin FailingPc
  <2>1. \A h \in Handlers : ev'[h] = Idle  BY DEF Crash
  <2>. QED  BY <2>1, IdleTyped DEF FailingPc
<1>2. InProgress' = {}  BY <1>1, InProgressNextIs DEF InProgressNext
<1>. QED  BY <1>2, FS_EmptySet

LEMMA ReportCounts ==
  ASSUME Inv, IInv', NEW h \in Handlers, NEW c \in Causes, Report(h, c)
  PROVE  Inv'
<1>1. EvTypes /\ reported \in Int  BY DEF Inv, IInv, TInv, HistoryTypes
<1>2. Cardinality(InProgress') = Cardinality(InProgress) + 1  BY ReportProgress
<1>3. Cardinality(InProgress) \in Nat  BY <1>1, InProgressCounts
<1>4. reported < MaxEvents /\ reported' = reported + 1  BY DEF Report
<1>. QED  BY <1>1, <1>2, <1>3, <1>4, TimesAssumption DEF Inv, Counted

LEMMA GivenUpCounts ==
  ASSUME Inv, IInv', NEW h \in Handlers, End(h),
         reported' = IF h \in InProgress THEN reported - 1 ELSE reported
  PROVE  Inv'
<1>1. EvTypes /\ reported \in Int  BY DEF Inv, IInv, TInv, HistoryTypes
<1>. QED
  BY <1>1, EndProgress, InProgressCounts, TimesAssumption DEF Inv, Counted

LEMMA CrashCounts ==
  ASSUME Inv, Crash
  PROVE  Inv'
<1>1. EvTypes /\ reported \in Int  BY DEF Inv, IInv, TInv, HistoryTypes
<1>2. reported' = reported - Cardinality(InProgress) /\ reported' \in Int
  BY <1>1, InProgressCounts DEF Crash
<1>3. IInv'  BY <1>2, CrashStep DEF Inv
<1>4. Cardinality(InProgress') = 0  BY <1>3, CrashProgress
<1>. QED
  BY <1>1, <1>2, <1>3, <1>4, InProgressCounts, TimesAssumption DEF Inv, Counted

LEMMA InvInit == Init => Inv
<1>. SUFFICES ASSUME Init  PROVE Inv
  OBVIOUS
<1>1. /\ NoRow \in RowSet /\ NoRow.status = "none"
  BY TimesAssumption DEF NoRow, RowSet
<1>2. AlarmTypes  BY <1>1, TimesAssumption DEF Init, AlarmTypes
<1>3. \A h \in Handlers : ev[h] = Idle  BY DEF Init
<1>4. EvTypes /\ AllSought
  BY <1>3, IdleTyped DEF Init, EvTypes, AllSought, Sought
<1>5. HistoryTypes  BY DEF Init, HistoryTypes
<1>6. \A c \in Causes : said[c] = "unsure"  BY DEF Init
<1>7. ShowInv /\ CloseInv  BY <1>6 DEF ShowInv, CloseInv, ShowAt, CloseAt
<1>8. InProgress = {}  BY <1>3, <1>4, IdleTyped, InProgressIs DEF FailingPc
<1>9. Cardinality(InProgress) = 0  BY <1>8, FS_EmptySet
<1>. QED  BY <1>2, <1>4, <1>5, <1>7, <1>9, TimesAssumption DEF Init, Inv, IInv, TInv, Counted

(* Handlers that were not failing do not begin to, but by Report.            *)
LEMMA InvNext ==
  ASSUME Inv, [Next]_vars
  PROVE  Inv'
<1>1. IInv /\ EvTypes  BY DEF Inv, IInv, TInv
<1>2. ASSUME NEW h \in Handlers, NEW c \in Causes, Report(h, c)  PROVE Inv'
  BY <1>1, <1>2, ReportStep, ReportCounts
<1>3. ASSUME NEW h \in Handlers, NEW R \in Recoveries, Recover(h, R)  PROVE Inv'
  <2>1. \A g \in Handlers : ev'[g].pc \in FailingPc => ev[g].pc \in FailingPc
    BY <1>1, <1>3 DEF Recover, Set, Event, FailingPc, EvTypes
  <2>. QED  BY <1>1, <1>3, <2>1, RecoverStep, FewerInProgress DEF Recover
<1>4. ASSUME NEW h \in Handlers, Tick(h)  PROVE Inv'
  <2>1. \A g \in Handlers : ev'[g].pc \in FailingPc => ev[g].pc \in FailingPc
    BY <1>1, <1>4 DEF Tick, Set, Event, FailingPc, EvTypes
  <2>. QED  BY <1>1, <1>4, <2>1, TickStep, FewerInProgress DEF Tick, historyVars
<1>5. ASSUME NEW h \in Handlers, ResolveStale(h)  PROVE Inv'
  <2>1. \A g \in Handlers : ev'[g].pc \in FailingPc => ev[g].pc \in FailingPc
    <3>1. CASE ev[h].pc = "tick"
      BY <3>1, <1>1, <1>5, IdleTyped DEF ResolveStale, End, Set, FailingPc, EvTypes
    <3>2. CASE ev[h].pc = "stale"
      BY <3>2, <1>1, <1>5 DEF ResolveStale, Goto, Set, FailingPc, EvTypes
    <3>. QED  BY <3>1, <3>2, <1>5 DEF ResolveStale
  <2>. QED  BY <1>1, <1>5, <2>1, ResolveStaleStep, FewerInProgress DEF ResolveStale
<1>6. ASSUME NEW h \in Handlers, Dropped(h)  PROVE Inv'
  <2>1. h \in InProgress  BY <1>1, <1>6, InProgressIs DEF Dropped, FailingPc
  <2>. QED  BY <1>1, <1>6, <2>1, DroppedStep, GivenUpCounts DEF Dropped
<1>7. ASSUME NEW h \in Handlers, QueryFails(h)  PROVE Inv'
  BY <1>1, <1>7, DroppedStep, GivenUpCounts DEF QueryFails
<1>8. ASSUME NEW h \in Handlers, Passed(h) \/ Find(h) \/ Targets(h)  PROVE Inv'
  <2>1. \A g \in Handlers : ev'[g].pc \in FailingPc => ev[g].pc \in FailingPc
    <3>1. CASE Passed(h)
      BY <3>1, <1>1 DEF Passed, Goto, Set, FailingPc, EvTypes
    <3>2. CASE Find(h)
      BY <3>2, <1>1 DEF Find, Set, FailingPc, EvTypes
    <3>3. CASE Targets(h)
      BY <3>3, <1>1 DEF Targets, Set, FailingPc, EvTypes
    <3>. QED  BY <3>1, <3>2, <3>3, <1>8
  <2>2. UNCHANGED reported  BY <1>8 DEF Passed, Find, Targets, historyVars
  <2>. QED  BY <1>1, <1>8, <2>1, <2>2, PassedStep, FindStep, TargetsStep, FewerInProgress
<1>9. ASSUME NEW h \in Handlers, Update(h) \/ Create(h) \/ Close(h)  PROVE Inv'
  <2>1. ev' = [ev EXCEPT ![h] = Idle] /\ UNCHANGED reported
    BY <1>9 DEF Update, Create, Close, End, Set, historyVars
  <2>2. \A g \in Handlers : ev'[g].pc \in FailingPc => ev[g].pc \in FailingPc
    BY <1>1, <2>1, IdleTyped DEF FailingPc, EvTypes
  <2>. QED  BY <1>1, <1>9, <2>1, <2>2, UpdateStep, CreateStep, CloseAllStep, FewerInProgress
<1>10. ASSUME NEW a \in AlarmIds, Acknowledge(a)  PROVE Inv'
  BY <1>1, <1>10, AcknowledgeStep, FewerInProgress DEF Acknowledge
<1>11. ASSUME NEW a \in AlarmIds, ResolveByHand(a)  PROVE Inv'
  BY <1>1, <1>11, ResolveByHandStep, FewerInProgress DEF ResolveByHand
<1>12. CASE TimePasses
  BY <1>1, <1>12, TimePassesStep, FewerInProgress DEF TimePasses, historyVars
<1>13. CASE Crash  BY <1>13, CrashCounts
<1>14. CASE UNCHANGED vars
  <2>1. TInv /\ TInv'
    BY <1>1, <1>14 DEF IInv, TInv, vars, historyVars, AlarmTypes, EvTypes, HistoryTypes,
                       AllSought, Sought
  <2>2. IInv'
    BY <1>1, <1>14, <2>1
       DEF IInv, vars, historyVars, ShowInv, CloseInv, ShowAt, CloseAt, WillShow, WillClose,
           Active, ActiveOf
  <2>. QED  BY <1>14, <2>2, FewerInProgress DEF vars, historyVars
<1>. QED
  BY <1>2, <1>3, <1>4, <1>5, <1>6, <1>7, <1>8, <1>9, <1>10, <1>11, <1>12, <1>13, <1>14
     DEF Next, Works, HandlerStep

LEMMA InvHolds == Spec => []Inv
<1>1. Inv /\ [Next]_vars => Inv'  BY InvNext
<1>. QED  BY <1>1, InvInit, PTL DEF Spec

-----------------------------------------------------------------------------
(* The alarms' state keeps its types; no more failures are counted than were *)
(* reported (processEvent, autoResolveForCamera).                            *)
THEOREM TypeCorrect == Spec => []TypeOK
<1>1. Inv => TypeOK
  <2>. SUFFICES ASSUME Inv  PROVE TypeOK
    OBVIOUS
  <2>1. AlarmTypes /\ EvTypes /\ HistoryTypes /\ Counted  BY DEF Inv, IInv, TInv
  <2>2. reported \in 0 .. MaxEvents
    BY <2>1, InProgressCounts, TimesAssumption DEF HistoryTypes, Counted
  <2>. QED
    BY <2>1, <2>2 DEF TypeOK, AlarmTypes, RowSet, EvTypes, EvSet, HistoryTypes
<1>. QED  BY <1>1, InvHolds, PTL

(* After a failure with nothing contrary since, an alarm of its cause is     *)
(* active, for any number of events side by side (204-253).                  *)
THEOREM FailuresAlwaysShow == Spec => []FailureShows
<1>1. Inv => FailureShows
  BY DEF Inv, IInv, ShowInv, ShowAt, FailureShows, Busy
<1>. QED  BY <1>1, InvHolds, PTL

(* After a recovery with no failure since, or in progress when it came, no   *)
(* alarm of its causes is active (261-285).                                  *)
THEOREM RecoveriesAlwaysClose == Spec => []RecoveryCloses
<1>1. Inv => RecoveryCloses
  BY DEF Inv, IInv, CloseInv, CloseAt, RecoveryCloses, Busy
<1>. QED  BY <1>1, InvHolds, PTL

-----------------------------------------------------------------------------
(* One alarm per episode.  Of a cause whose failures come one at a time, the *)
(* one at hand is the latest, and what it has found is the latest alarm.     *)
Plain(c) == {a \in ActiveOf({c}) : ~alarm[a].resolved}
FailsAt(e, c) == c \in e.causes /\ e.pc \in FailingPc

Leads(e, c) ==
  /\ \A a \in AlarmIds : alarm[a].status # "none" /\ alarm[a].cause = c => alarm[a].last <= e.at
  /\ e.pc = "write" =>
       /\ e.found = {} => \A a \in Plain(c) : alarm[a].last + Window < e.at
       /\ \A f \in e.found : \A a \in Plain(c) : alarm[a].last <= alarm[f].last
Apart(c) ==
  \A a, b \in Plain(c) : a # b => \/ alarm[a].last > alarm[b].last + Window
                                  \/ alarm[b].last > alarm[a].last + Window
TurnAt(c) ==
  c \in inTurn =>
    /\ \A g, h \in Handlers : FailsAt(ev[g], c) /\ FailsAt(ev[h], c) => g = h
    /\ \A h \in Handlers : FailsAt(ev[h], c) => Leads(ev[h], c)
    /\ Apart(c)

(* Nothing lies in the future, and at most one alarm was found.              *)
NothingAhead ==
  /\ \A h \in Handlers : ev[h].at <= now
  /\ \A a \in AlarmIds : alarm[a].last <= now
Single(e) == e.pc = "write" => \A f, g \in e.found : f = g
AllSingle == \A h \in Handlers : Single(ev[h])

(* Who brings a resolved alarm back leaves its resolvedAt.                   *)
Marked == \A a \in AlarmIds : alarm[a].status = "RESOLVED" => alarm[a].resolved

TurnInv == Inv /\ NothingAhead /\ AllSingle /\ Marked /\ \A c \in Causes : TurnAt(c)

(* Rows keep their time, and no plain alarm comes up.                        *)
RowsOlder ==
  /\ \A a \in AlarmIds : /\ alarm'[a].last = alarm[a].last
                         /\ alarm'[a].cause = alarm[a].cause
                         /\ alarm'[a].status # "none" => alarm[a].status # "none"
                         /\ \/ alarm'[a] = alarm[a] \/ alarm'[a].resolved
                            \/ alarm'[a].status # "RESOLVED"
  /\ \A c : Plain(c)' \subseteq Plain(c)
(* No failure comes up, and none has just searched.                          *)
EvOlder ==
  \A g \in Handlers :
    \/ ev'[g] = ev[g]
    \/ /\ ev'[g].at <= now /\ ev'[g].pc # "write"
       /\ \A c \in Causes : FailsAt(ev'[g], c) => FailsAt(ev[g], c) /\ ev'[g].at = ev[g].at

LEMMA OlderStep ==
  ASSUME TurnInv, Inv', RowsOlder, EvOlder, inTurn' = inTurn, now <= now', now' \in Int
  PROVE  TurnInv'
<1>1. /\ AlarmTypes /\ EvTypes /\ NothingAhead /\ AllSingle /\ Marked
      /\ \A c \in Causes : TurnAt(c)
  BY DEF TurnInv, Inv, IInv, TInv
<1>2. /\ \A h \in Handlers : ev[h].at \in Int /\ ev[h].found \subseteq AlarmIds
      /\ \A a \in AlarmIds : alarm[a].last \in Int
      /\ now \in Int
  BY <1>1, EvAt, TimesAssumption DEF EvSet, AlarmTypes, RowSet
<1>3. NothingAhead'
  <2>1. \A h \in Handlers : ev'[h].at <= now'
    <3>. TAKE h \in Handlers
    <3>1. EvTypes'  BY DEF Inv, IInv, TInv
    <3>2. ev'[h].at \in Int  BY <3>1, TimesAssumption DEF EvTypes, EvSet
    <3>3. ev'[h].at <= now  BY <1>1 DEF EvOlder, NothingAhead
    <3>. QED  BY <3>2, <3>3, <1>2
  <2>2. \A a \in AlarmIds : alarm'[a].last <= now'
    BY <1>1, <1>2 DEF RowsOlder, NothingAhead
  <2>. QED  BY <2>1, <2>2 DEF NothingAhead
<1>4. AllSingle'
  BY <1>1 DEF AllSingle, Single, EvOlder
<1>5. Marked'  BY <1>1 DEF Marked, RowsOlder
<1>6. \A c \in Causes : TurnAt(c)'
  <2>. SUFFICES ASSUME NEW c \in Causes, c \in inTurn  PROVE TurnAt(c)'
    BY DEF TurnAt
  <2>1. TurnAt(c)  BY <1>1
  <2>2. \A g \in Handlers : FailsAt(ev'[g], c) =>
          /\ FailsAt(ev[g], c) /\ ev'[g].at = ev[g].at
          /\ ev'[g].pc = "write" => ev'[g] = ev[g]
    BY DEF EvOlder
  <2>3. \A g, h \in Handlers : FailsAt(ev'[g], c) /\ FailsAt(ev'[h], c) => g = h
    BY <2>1, <2>2 DEF TurnAt
  <2>4. \A a, b \in Plain(c)' : a # b => \/ alarm'[a].last > alarm'[b].last + Window
                                         \/ alarm'[b].last > alarm'[a].last + Window
    <3>1. \A a \in Plain(c)' : a \in Plain(c) /\ a \in AlarmIds
      BY DEF RowsOlder, Plain, ActiveOf, Active
    <3>. QED  BY <2>1, <3>1 DEF RowsOlder, TurnAt, Apart
  <2>5. ASSUME NEW h \in Handlers, FailsAt(ev'[h], c)  PROVE Leads(ev[h], c)'
    <3>1. Leads(ev[h], c) /\ ev'[h].at = ev[h].at  BY <2>1, <2>2, <2>5 DEF TurnAt
    <3>2. \A a \in AlarmIds : alarm'[a].status # "none" /\ alarm'[a].cause = c =>
            alarm'[a].last <= ev'[h].at
      BY <3>1 DEF Leads, RowsOlder
    <3>3. CASE ev'[h].pc # "write"  BY <3>2, <3>3 DEF Leads
    <3>4. CASE ev'[h].pc = "write"
      <4>1. ev'[h] = ev[h] /\ ev[h].found \subseteq AlarmIds  BY <3>4, <2>2, <2>5, <1>2
      <4>2. Plain(c)' \subseteq Plain(c) /\ Plain(c) \subseteq AlarmIds
        BY DEF RowsOlder, Plain, ActiveOf, Active
      <4>3. ev'[h].found = {} => \A a \in Plain(c)' : alarm'[a].last + Window < ev'[h].at
        BY <3>1, <3>4, <4>1, <4>2 DEF Leads, RowsOlder
      <4>4. \A f \in ev'[h].found : \A a \in Plain(c)' : alarm'[a].last <= alarm'[f].last
        BY <3>1, <3>4, <4>1, <4>2 DEF Leads, RowsOlder
      <4>. QED  BY <3>2, <4>3, <4>4 DEF Leads
    <3>. QED  BY <3>3, <3>4
  <2>. QED  BY <2>3, <2>4, <2>5 DEF TurnAt, Apart, FailsAt
<1>. QED  BY <1>3, <1>4, <1>5, <1>6 DEF TurnInv

LEMMA TurnFacts ==
  ASSUME TurnInv
  PROVE  /\ Inv /\ IInv /\ AlarmTypes /\ EvTypes /\ HistoryTypes /\ AllSought
         /\ NothingAhead /\ AllSingle /\ Marked
         /\ \A c \in Causes : TurnAt(c)
         /\ \A h \in Handlers : /\ ev[h].at \in Int /\ ev[h].at <= now
                                /\ ev[h].found \subseteq AlarmIds
         /\ \A a \in AlarmIds : alarm[a].last \in Int /\ alarm[a].last <= now
         /\ now \in Int
  BY EvAt, TimesAssumption
     DEF TurnInv, Inv, IInv, TInv, EvSet, AlarmTypes, RowSet, NothingAhead

LEMMA SameRows ==
  ASSUME UNCHANGED alarm
  PROVE  RowsOlder
  BY DEF RowsOlder, Plain, ActiveOf, Active

LEMMA ResolvedRows ==
  ASSUME AlarmTypes, NEW S, Resolve(S), \A a \in S \cap AlarmIds : alarm[a].status # "none"
  PROVE  RowsOlder
<1>1. \A a \in AlarmIds :
        /\ alarm'[a].cause = alarm[a].cause /\ alarm'[a].last = alarm[a].last
        /\ ~alarm'[a].resolved => alarm'[a] = alarm[a]
        /\ alarm'[a].resolved \in BOOLEAN
  BY RowsResolved DEF RowSet
<1>2. \A a \in AlarmIds : a \notin S => alarm'[a] = alarm[a]  BY DEF Resolve
<1>3. \A c : Plain(c)' \subseteq Plain(c)
  BY <1>1 DEF Plain, ActiveOf, Active
<1>. QED  BY <1>1, <1>2, <1>3 DEF RowsOlder

(* Handler h goes on as e, which is not a search that is over.               *)
LEMMA HandlerOlder ==
  ASSUME EvTypes, NEW h \in Handlers, NEW e, Becomes(h, e), e.at <= now, e.pc # "write",
         \A c \in Causes : FailsAt(e, c) => FailsAt(ev[h], c) /\ e.at = ev[h].at
  PROVE  EvOlder
  BY DEF EvOlder, Becomes, EvTypes

LEMMA EndOlder ==
  ASSUME TurnInv, NEW h \in Handlers, End(h)
  PROVE  EvOlder
<1>1. Becomes(h, Idle) /\ EvTypes /\ now \in 0 .. MaxTime
  BY TurnFacts DEF End, Set, Becomes, AlarmTypes
<1>2. Idle.at <= now /\ Idle.pc # "write" /\ Idle.causes = {}
  BY <1>1, TimesAssumption DEF Idle, Event
<1>. QED  BY <1>1, <1>2, HandlerOlder DEF FailsAt

(* Everything but a report, a search and what comes of it.                   *)
LEMMA OtherSteps ==
  ASSUME TurnInv, Inv',
         \/ \E h \in Handlers :
              \/ \E R \in Recoveries : Recover(h, R)
              \/ Tick(h) \/ ResolveStale(h) \/ Dropped(h) \/ Passed(h)
              \/ Targets(h) \/ Close(h) \/ QueryFails(h)
         \/ \E a \in AlarmIds : ResolveByHand(a)
         \/ TimePasses \/ Crash \/ UNCHANGED vars
  PROVE  TurnInv'
<1>. USE TurnFacts
<1>0. now \in 0 .. MaxTime  BY DEF AlarmTypes
<1>1. ASSUME NEW h \in Handlers, NEW R \in Recoveries, Recover(h, R)  PROVE TurnInv'
  <2>1. EvOlder
    <3>. DEFINE e == Event("targets", R, 0)
    <3>1. Becomes(h, e)  BY <1>1 DEF Recover, Set, Becomes
    <3>2. e.at = 0 /\ e.pc = "targets"  BY DEF Event
    <3>. HIDE DEF e
    <3>. QED  BY <3>1, <3>2, <1>0, TimesAssumption, HandlerOlder DEF FailsAt, FailingPc
  <2>. QED  BY <1>1, <2>1, SameRows, OlderStep DEF Recover
<1>2. ASSUME NEW h \in Handlers, Tick(h)  PROVE TurnInv'
  <2>1. EvOlder
    <3>. DEFINE e == Event("tick", {}, now)
    <3>1. Becomes(h, e)  BY <1>2 DEF Tick, Set, Becomes
    <3>2. e.at = now /\ e.pc = "tick"  BY DEF Event
    <3>. HIDE DEF e
    <3>. QED  BY <3>1, <3>2, <1>0, TimesAssumption, HandlerOlder DEF FailsAt, FailingPc
  <2>. QED  BY <1>2, <2>1, SameRows, OlderStep DEF Tick, historyVars
<1>3. ASSUME NEW h \in Handlers, NEW p \in PcSet \ {"write"}, Goto(h, p),
             p \in FailingPc => ev[h].pc \in FailingPc
      PROVE  EvOlder
  <2>. DEFINE e == [ev[h] EXCEPT !.pc = p]
  <2>1. Becomes(h, e)  BY <1>3 DEF Goto, Set, Becomes
  <2>2. e.at = ev[h].at /\ e.pc = p /\ e.causes = ev[h].causes
    BY HandlerAt, MovedTyped
  <2>. HIDE DEF e
  <2>. QED  BY <2>1, <2>2, <1>3, HandlerOlder DEF FailsAt
<1>4. ASSUME NEW h \in Handlers, ResolveStale(h)  PROVE TurnInv'
  <2>1. RowsOlder
    <3>1. Resolve(Stale(h)) /\ \A a \in Stale(h) : alarm[a].status # "none"
      BY <1>4 DEF ResolveStale, Stale, ActiveOf, Active
    <3>. QED  BY <3>1, ResolvedRows
  <2>2. EvOlder
    <3>1. CASE ev[h].pc = "tick"  BY <3>1, <1>4, EndOlder DEF ResolveStale
    <3>2. CASE ev[h].pc = "stale"
      BY <3>2, <1>3, <1>4 DEF ResolveStale, PcSet, FailingPc
    <3>. QED  BY <3>1, <3>2, <1>4 DEF ResolveStale
  <2>. QED  BY <1>4, <2>1, <2>2, OlderStep DEF ResolveStale
<1>5. ASSUME NEW h \in Handlers, Dropped(h) \/ QueryFails(h)  PROVE TurnInv'
  BY <1>5, SameRows, EndOlder, OlderStep DEF Dropped, QueryFails
<1>6. ASSUME NEW h \in Handlers, Passed(h)  PROVE TurnInv'
  <2>1. EvOlder  BY <1>3, <1>6 DEF Passed, PcSet, FailingPc
  <2>. QED  BY <1>6, <2>1, SameRows, OlderStep DEF Passed, historyVars
<1>7. ASSUME NEW h \in Handlers, Targets(h)  PROVE TurnInv'
  <2>1. EvOlder
    <3>. DEFINE e == With(ev[h], "close", ActiveOf(ev[h].causes))
    <3>1. Becomes(h, e)  BY <1>7 DEF Targets, Set, Becomes, With
    <3>2. ActiveOf(ev[h].causes) \subseteq AlarmIds  BY DEF ActiveOf, Active
    <3>3. e.at = ev[h].at /\ e.pc = "close"
      BY <3>2, HandlerAt, FoundTyped DEF PcSet
    <3>. HIDE DEF e
    <3>. QED  BY <3>1, <3>3, HandlerOlder DEF FailsAt, FailingPc
  <2>2. UNCHANGED <<now, alarm, historyVars>>  BY <1>7 DEF Targets
  <2>. QED  BY <2>1, <2>2, SameRows, OlderStep DEF historyVars
<1>8. ASSUME NEW h \in Handlers, Close(h)  PROVE TurnInv'
  <2>1. RowsOlder
    <3>1. Resolve(ev[h].found) /\ \A a \in ev[h].found : alarm[a].status # "none"
      BY <1>8 DEF Close, AllSought, Sought
    <3>. QED  BY <3>1, ResolvedRows
  <2>. QED  BY <1>8, <2>1, EndOlder, OlderStep DEF Close, historyVars
<1>9. ASSUME NEW a \in AlarmIds, ResolveByHand(a)  PROVE TurnInv'
  <2>1. RowsOlder
    <3>1. Resolve({a}) /\ alarm[a].status # "none"  BY <1>9 DEF ResolveByHand, Active
    <3>. QED  BY <3>1, ResolvedRows
  <2>2. EvOlder  BY <1>9 DEF ResolveByHand, EvOlder
  <2>. QED  BY <1>9, <2>1, <2>2, OlderStep DEF ResolveByHand
<1>10. CASE TimePasses
  <2>1. EvOlder  BY <1>10 DEF TimePasses, EvOlder
  <2>. QED  BY <1>10, <2>1, SameRows, OlderStep DEF TimePasses, historyVars
<1>11. CASE Crash
  <2>1. EvOlder
    <3>1. \A h \in Handlers : ev'[h] = Idle  BY <1>11 DEF Crash
    <3>2. Idle.at <= now /\ Idle.pc # "write" /\ Idle.causes = {}
      BY <1>0, TimesAssumption DEF Idle, Event
    <3>. QED  BY <3>1, <3>2 DEF EvOlder, FailsAt
  <2>. QED  BY <1>11, <2>1, SameRows, OlderStep DEF Crash
<1>12. CASE UNCHANGED vars
  <2>1. EvOlder  BY <1>12 DEF vars, EvOlder
  <2>. QED  BY <1>12, <2>1, SameRows, OlderStep DEF vars, historyVars
<1>. QED
  BY <1>1, <1>2, <1>4, <1>5, <1>6, <1>7, <1>8, <1>9, <1>10, <1>11, <1>12

LEMMA AcknowledgeTurn ==
  ASSUME TurnInv, Inv', NEW a \in AlarmIds, Acknowledge(a)
  PROVE  TurnInv'
<1>1. /\ alarm' \in [AlarmIds -> RowSet] /\ Active' = Active \cup {a}
      /\ \A b \in AlarmIds :
           /\ alarm'[b].cause = alarm[b].cause /\ alarm'[b].last = alarm[b].last
           /\ alarm'[b].resolved = alarm[b].resolved
           /\ b # a => alarm'[b] = alarm[b]
  BY TurnFacts, RowAcknowledged
<1>2. alarm[a].status \in {"OPEN", "RESOLVED"}  BY DEF Acknowledge
<1>3. alarm'[a].status = "ACKED"
  <2>1. alarm[a] \in RowSet  BY TurnFacts DEF AlarmTypes
  <2>. QED  BY <2>1, TurnFacts DEF Acknowledge, AlarmTypes, RowSet
<1>4. alarm[a].resolved \/ a \in Active
  BY <1>2, TurnFacts DEF Marked, Active
<1>5. \A c : Plain(c)' \subseteq Plain(c)
  BY <1>1, <1>4 DEF Plain, ActiveOf, Active
<1>6. RowsOlder  BY <1>1, <1>2, <1>3, <1>5 DEF RowsOlder
<1>7. EvOlder  BY DEF Acknowledge, EvOlder
<1>. QED  BY <1>6, <1>7, TurnFacts, OlderStep DEF Acknowledge

LEMMA ReportTurn ==
  ASSUME TurnInv, Inv', NEW h \in Handlers, NEW c \in Causes, Report(h, c)
  PROVE  TurnInv'
<1>. USE TurnFacts
<1>. DEFINE q == IF c \in Motion THEN "stale" ELSE "gate"
            e == Event(q, {c}, now)
<1>1. Becomes(h, e) /\ UNCHANGED <<now, alarm>> /\ ev[h].pc = "idle" /\ ev[h].causes = {}
  BY IdleTyped DEF Report, Set, Becomes
<1>2. e.pc \in {"stale", "gate"} /\ e.causes = {c} /\ e.at = now  BY DEF Event
<1>. HIDE DEF e
<1>3. ev'[h] = e /\ \A g \in Handlers \ {h} : ev'[g] = ev[g]  BY <1>1 DEF Becomes, EvTypes
<1>4. inTurn' = IF Failing(c) = {} THEN inTurn ELSE inTurn \ {c}  BY DEF Report
<1>5. NothingAhead' /\ AllSingle' /\ Marked'
  BY <1>1, <1>2, <1>3 DEF NothingAhead, AllSingle, Single, Marked
<1>6. \A d : Plain(d)' = Plain(d)  BY <1>1 DEF Plain, ActiveOf, Active
<1>7. \A g \in Handlers \ {h} : \A d : Leads(ev[g], d) => Leads(ev[g], d)'
  BY <1>1, <1>3, <1>6 DEF Leads
<1>8. \A d \in Causes : TurnAt(d)'
  <2>. SUFFICES ASSUME NEW d \in Causes, d \in inTurn'  PROVE TurnAt(d)'
    BY DEF TurnAt
  <2>1. TurnAt(d) /\ d \in inTurn  BY <1>4
  <2>2. Apart(d)'  BY <2>1, <1>1, <1>6 DEF TurnAt, Apart
  <2>3. CASE d # c
    <3>1. ~FailsAt(ev'[h], d)  BY <2>3, <1>2, <1>3 DEF FailsAt
    <3>. QED  BY <2>1, <2>2, <3>1, <1>3, <1>7 DEF TurnAt, FailsAt
  <2>4. CASE d = c
    <3>1. \A g \in Handlers : ~FailsAt(ev[g], c)
      BY <2>4, <1>4 DEF FailsAt, Failing, FailingPc
    <3>2. Leads(ev[h], c)'  BY <1>1, <1>2, <1>3 DEF Leads
    <3>. QED  BY <2>2, <2>4, <3>1, <3>2, <1>3 DEF TurnAt, FailsAt
  <2>. QED  BY <2>3, <2>4
<1>. QED  BY <1>5, <1>8 DEF TurnInv

(* What is left of the failures once handler h has ended.                    *)
LEMMA Ended ==
  ASSUME TurnInv, NEW h \in Handlers, End(h)
  PROVE  /\ \A g \in Handlers \ {h} : ev'[g] = ev[g]
         /\ ev'[h].at <= now /\ ev'[h].pc = "idle" /\ \A d : ~FailsAt(ev'[h], d)
<1>1. /\ ev'[h] = Idle
      /\ \A g \in Handlers \ {h} : ev'[g] = ev[g]
  BY TurnFacts DEF End, Set, EvTypes
<1>2. now \in 0 .. MaxTime /\ Idle.at = 0 /\ Idle.pc = "idle" /\ Idle.causes = {}
  BY TurnFacts DEF AlarmTypes, Idle, Event
<1>. QED  BY <1>1, <1>2, TimesAssumption DEF FailsAt

(* The failure that handler h has searched for is the only one of its cause. *)
LEMMA Searched ==
  ASSUME TurnInv, NEW h \in Handlers, ev[h].pc \in {"find", "write"}
  PROVE  \E c \in Causes :
           /\ ev[h].causes = {c}
           /\ c \in inTurn => /\ Leads(ev[h], c) /\ Apart(c)
                              /\ \A g \in Handlers \ {h} : ~FailsAt(ev[g], c)
<1>1. PICK c \in Causes : ev[h].causes = {c}
  BY TurnFacts, HandlerAt DEF Shaped, FailingPc
<1>2. FailsAt(ev[h], c) /\ TurnAt(c)  BY <1>1, TurnFacts DEF FailsAt, FailingPc
<1>. QED  BY <1>1, <1>2 DEF TurnAt

(* Causes whose rows and failures are left alone.                            *)
LEMMA ElsewhereTurn ==
  ASSUME TurnInv, NEW d \in Causes, UNCHANGED inTurn,
         NEW h \in Handlers, \A g \in Handlers \ {h} : ev'[g] = ev[g], ~FailsAt(ev'[h], d),
         \A a \in AlarmIds :
           alarm'[a] = alarm[a] \/ (alarm'[a].cause # d /\ alarm[a].cause # d)
                                \/ (alarm'[a].cause # d /\ alarm[a].status = "none")
  PROVE  TurnAt(d)'
<1>. SUFFICES ASSUME d \in inTurn  PROVE TurnAt(d)'
  BY DEF TurnAt
<1>1. TurnAt(d)  BY TurnFacts
<1>2. Plain(d)' = Plain(d) /\ \A a \in Plain(d) : a \in AlarmIds /\ alarm'[a] = alarm[a]
  BY DEF Plain, ActiveOf, Active
<1>3. Apart(d)'  BY <1>1, <1>2 DEF TurnAt, Apart
<1>4. ASSUME NEW g \in Handlers \ {h}, FailsAt(ev[g], d)  PROVE Leads(ev[g], d)'
  <2>1. Leads(ev[g], d) /\ ev'[g] = ev[g]  BY <1>1, <1>4 DEF TurnAt
  <2>2. ev[g].pc = "write" => \A f \in ev[g].found : alarm'[f] = alarm[f]
    <3>. SUFFICES ASSUME ev[g].pc = "write", NEW f \in ev[g].found
                  PROVE  alarm'[f] = alarm[f]
      OBVIOUS
    <3>1. ev[g].causes = {d}
      BY <1>4, HandlerAt, TurnFacts DEF FailsAt, Shaped, FailingPc
    <3>2. f \in AlarmIds /\ alarm[f].status # "none" /\ alarm[f].cause = d
      BY <3>1, TurnFacts DEF AllSought, Sought
    <3>. QED  BY <3>2
  <2>. QED  BY <2>1, <2>2, <1>2 DEF Leads
<1>. QED  BY <1>1, <1>3, <1>4 DEF TurnAt, FailsAt

LEMMA FindTurn ==
  ASSUME TurnInv, Inv', NEW h \in Handlers, Find(h)
  PROVE  TurnInv'
<1>. USE TurnFacts
<1>1. PICK F \in SUBSET AlarmIds :
        /\ ev' = [ev EXCEPT ![h] = With(ev[h], "write", F)]
        /\ \/ F = {} /\ Recent(h) = {}
           \/ \E a \in Latest(Recent(h)) : F = {a}
  <2>1. PICK F \in IF Recent(h) = {} THEN {{}} ELSE {{a} : a \in Latest(Recent(h))} :
          ev' = [ev EXCEPT ![h] = With(ev[h], "write", F)]
    BY DEF Find, Set, With
  <2>2. F \in SUBSET AlarmIds  BY <2>1 DEF Latest, Recent, ActiveOf, Active
  <2>. QED  BY <2>1, <2>2
<1>. DEFINE e == With(ev[h], "write", F)
<1>2. e.pc = "write" /\ e.found = F /\ e.causes = ev[h].causes /\ e.at = ev[h].at
  BY HandlerAt, FoundTyped DEF PcSet
<1>3. UNCHANGED <<now, alarm, historyVars>> /\ ev[h].pc = "find"  BY DEF Find
<1>4. ev'[h] = e /\ \A g \in Handlers \ {h} : ev'[g] = ev[g]  BY <1>1 DEF EvTypes
<1>. HIDE DEF e
<1>5. NothingAhead' /\ AllSingle' /\ Marked'
  BY <1>1, <1>2, <1>3, <1>4 DEF NothingAhead, AllSingle, Single, Marked
<1>6. PICK c \in Causes :
        /\ ev[h].causes = {c}
        /\ c \in inTurn => /\ Leads(ev[h], c) /\ Apart(c)
                           /\ \A g \in Handlers \ {h} : ~FailsAt(ev[g], c)
  BY <1>3, Searched
<1>7. \A d \in Causes \ {c} : TurnAt(d)'
  BY <1>2, <1>3, <1>4, <1>6, ElsewhereTurn DEF FailsAt, historyVars
<1>8. TurnAt(c)'
  <2>. SUFFICES ASSUME c \in inTurn  PROVE TurnAt(c)'  BY <1>3 DEF TurnAt, historyVars
  <2>1. Plain(c)' = Plain(c)  BY <1>3 DEF Plain, ActiveOf, Active
  <2>2. Apart(c)'  BY <1>3, <1>6, <2>1 DEF Apart
  <2>3. \A a \in Plain(c) : a \in ActiveOf(ev[h].causes) /\ a \in AlarmIds
    BY <1>6 DEF Plain, ActiveOf, Active
  <2>4. F = {} => \A a \in Plain(c) : alarm[a].last + Window < ev[h].at
    <3>. SUFFICES ASSUME F = {}, NEW a \in Plain(c)
                  PROVE  alarm[a].last + Window < ev[h].at
      OBVIOUS
    <3>1. Recent(h) = {}  BY <1>1
    <3>2. a \in AlarmIds /\ ~(alarm[a].last >= ev[h].at - Window)  BY <2>3, <3>1 DEF Recent
    <3>. QED  BY <3>2, TimesAssumption
  <2>5. \A f \in F : \A a \in Plain(c) : alarm[a].last <= alarm[f].last
    <3>. SUFFICES ASSUME NEW f \in F, NEW a \in Plain(c)
                  PROVE  alarm[a].last <= alarm[f].last
      OBVIOUS
    <3>1. f \in Recent(h) /\ \A b \in Recent(h) : alarm[b].last <= alarm[f].last
      BY <1>1 DEF Latest
    <3>2. alarm[f].last >= ev[h].at - Window /\ f \in AlarmIds  BY <3>1 DEF Recent, ActiveOf, Active
    <3>3. CASE a \in Recent(h)  BY <3>1, <3>3
    <3>4. CASE a \notin Recent(h)
      <4>1. a \in AlarmIds /\ ~(alarm[a].last >= ev[h].at - Window)  BY <2>3, <3>4 DEF Recent
      <4>. QED  BY <3>2, <4>1, TimesAssumption
    <3>. QED  BY <3>3, <3>4
  <2>6. Leads(ev[h], c)'
    BY <1>2, <1>3, <1>4, <1>6, <2>1, <2>4, <2>5 DEF Leads
  <2>. QED  BY <1>4, <1>6, <2>2, <2>6 DEF TurnAt, FailsAt
<1>. QED  BY <1>5, <1>7, <1>8 DEF TurnInv

LEMMA UpdateTurn ==
  ASSUME TurnInv, Inv', NEW h \in Handlers, Update(h)
  PROVE  TurnInv'
<1>. USE TurnFacts
<1>1. /\ \A a \in AlarmIds :
           /\ alarm'[a].cause = alarm[a].cause /\ alarm'[a].resolved = alarm[a].resolved
           /\ alarm'[a].status = alarm[a].status
           /\ a \in ev[h].found => alarm'[a].last = ev[h].at
           /\ a \notin ev[h].found => alarm'[a] = alarm[a]
      /\ \A C : ActiveOf(C)' = ActiveOf(C)
  BY RowsUpdated
<1>2. /\ UNCHANGED <<now, historyVars>> /\ End(h) /\ ev[h].pc = "write"
      /\ ev[h].found # {}
  BY DEF Update
<1>3. /\ \A g \in Handlers \ {h} : ev'[g] = ev[g]
      /\ ev'[h].at <= now /\ ev'[h].pc = "idle" /\ \A d : ~FailsAt(ev'[h], d)
  BY <1>2, Ended
<1>4. NothingAhead' /\ AllSingle' /\ Marked'
  BY <1>1, <1>2, <1>3 DEF NothingAhead, AllSingle, Single, Marked
<1>5. PICK c \in Causes :
        /\ ev[h].causes = {c}
        /\ c \in inTurn => /\ Leads(ev[h], c) /\ Apart(c)
                           /\ \A g \in Handlers \ {h} : ~FailsAt(ev[g], c)
  BY <1>2, Searched
<1>6. \A f \in ev[h].found : f \in AlarmIds /\ alarm[f].status # "none" /\ alarm[f].cause = c
  BY <1>2, <1>5 DEF AllSought, Sought
<1>7. \A d \in Causes \ {c} : TurnAt(d)'
  <2>. TAKE d \in Causes \ {c}
  <2>1. \A a \in AlarmIds :
          alarm'[a] = alarm[a] \/ (alarm'[a].cause # d /\ alarm[a].cause # d)
    BY <1>1, <1>6
  <2>. QED  BY <1>2, <1>3, <2>1, ElsewhereTurn DEF historyVars
<1>8. TurnAt(c)'
  <2>. SUFFICES ASSUME c \in inTurn  PROVE TurnAt(c)'  BY <1>2 DEF TurnAt, historyVars
  <2>1. Plain(c)' = Plain(c) /\ Plain(c) \subseteq AlarmIds
    BY <1>1 DEF Plain, ActiveOf, Active
  <2>2. ASSUME NEW a \in Plain(c), NEW b \in Plain(c), a # b, a \in ev[h].found
        PROVE  alarm'[a].last > alarm'[b].last + Window
    <3>1. b \notin ev[h].found  BY <2>2, <1>2 DEF AllSingle, Single
    <3>2. a \in AlarmIds /\ b \in AlarmIds  BY <2>1
    <3>3. alarm'[a].last = ev[h].at /\ alarm'[b].last = alarm[b].last
      BY <1>1, <2>2, <3>1, <3>2
    <3>4. alarm[b].last <= alarm[a].last  BY <1>2, <1>5, <2>2 DEF Leads
    <3>5. alarm[a].last <= ev[h].at  BY <1>5, <1>6, <2>2 DEF Leads
    <3>6. \/ alarm[a].last > alarm[b].last + Window
          \/ alarm[b].last > alarm[a].last + Window
      BY <1>5, <2>2 DEF Apart
    <3>. QED  BY <3>2, <3>3, <3>4, <3>5, <3>6, TimesAssumption
  <2>3. ASSUME NEW a \in Plain(c), NEW b \in Plain(c), a # b,
               a \notin ev[h].found, b \notin ev[h].found
        PROVE  \/ alarm'[a].last > alarm'[b].last + Window
               \/ alarm'[b].last > alarm'[a].last + Window
    <3>1. alarm'[a] = alarm[a] /\ alarm'[b] = alarm[b]  BY <1>1, <2>1, <2>3
    <3>. QED  BY <1>5, <2>3, <3>1 DEF Apart
  <2>4. Apart(c)'  BY <2>1, <2>2, <2>3 DEF Apart
  <2>. QED  BY <1>3, <1>5, <2>4 DEF TurnAt, FailsAt
<1>. QED  BY <1>4, <1>7, <1>8 DEF TurnInv

LEMMA CreateTurn ==
  ASSUME TurnInv, Inv', NEW h \in Handlers, Create(h)
  PROVE  TurnInv'
<1>. USE TurnFacts
<1>1. PICK a \in Unused : Created(h, a)  BY RowCreated
<1>2. /\ a \in AlarmIds /\ alarm[a].status = "none" /\ a \notin Active
      /\ \A b \in AlarmIds \ {a} : alarm'[b] = alarm[b]
      /\ alarm'[a].last = ev[h].at /\ alarm'[a].status = "OPEN"
      /\ alarm'[a].cause \in ev[h].causes
  BY <1>1 DEF Unused, Created, Active
<1>3. UNCHANGED <<now, historyVars>> /\ End(h) /\ ev[h].pc = "write" /\ ev[h].found = {}
  BY DEF Create
<1>4. /\ \A g \in Handlers \ {h} : ev'[g] = ev[g]
      /\ ev'[h].at <= now /\ ev'[h].pc = "idle" /\ \A d : ~FailsAt(ev'[h], d)
  BY <1>3, Ended
<1>5. NothingAhead' /\ AllSingle' /\ Marked'
  BY <1>2, <1>3, <1>4 DEF NothingAhead, AllSingle, Single, Marked
<1>6. PICK c \in Causes :
        /\ ev[h].causes = {c}
        /\ c \in inTurn => /\ Leads(ev[h], c) /\ Apart(c)
                           /\ \A g \in Handlers \ {h} : ~FailsAt(ev[g], c)
  BY <1>3, Searched
<1>7. \A d \in Causes \ {c} : TurnAt(d)'
  BY <1>2, <1>3, <1>4, <1>6, ElsewhereTurn DEF historyVars
<1>8. TurnAt(c)'
  <2>. SUFFICES ASSUME c \in inTurn  PROVE TurnAt(c)'  BY <1>3 DEF TurnAt, historyVars
  <2>1. \A b \in Plain(c)' : b = a \/ (b \in Plain(c) /\ alarm'[b] = alarm[b])
    BY <1>2 DEF Plain, ActiveOf, Active
  <2>2. \A b \in Plain(c) : alarm[b].last + Window < alarm'[a].last
    BY <1>2, <1>3, <1>6 DEF Leads
  <2>3. Apart(c)'  BY <1>6, <2>1, <2>2 DEF Apart
  <2>. QED  BY <1>4, <1>6, <2>3 DEF TurnAt, FailsAt
<1>. QED  BY <1>5, <1>7, <1>8 DEF TurnInv

LEMMA TurnInit == Init => TurnInv
<1>. SUFFICES ASSUME Init  PROVE TurnInv
  OBVIOUS
<1>1. /\ Inv /\ now = 0 /\ \A h \in Handlers : ev[h] = Idle
      /\ \A a \in AlarmIds : alarm[a].last = 0 /\ alarm[a].status = "none"
  BY InvInit DEF Init, NoRow
<1>2. Idle.at = 0 /\ Idle.pc = "idle" /\ Idle.found = {} /\ Idle.causes = {}
  BY DEF Idle, Event
<1>3. NothingAhead /\ AllSingle /\ Marked
  BY <1>1, <1>2 DEF NothingAhead, AllSingle, Single, Marked
<1>4. \A c \in Causes : Plain(c) = {}  BY <1>1 DEF Plain, ActiveOf, Active
<1>. QED  BY <1>1, <1>2, <1>3, <1>4 DEF TurnInv, TurnAt, FailsAt, Apart

LEMMA TurnNext ==
  ASSUME TurnInv, [Next]_vars
  PROVE  TurnInv'
<1>1. Inv'  BY InvNext DEF TurnInv
<1>. QED
  BY <1>1, OtherSteps, ReportTurn, FindTurn, UpdateTurn, CreateTurn, AcknowledgeTurn
     DEF Next, Works, HandlerStep

(* Failures that are processed one after the other share one alarm within    *)
(* the window, whatever recoveries, operators and crashes do meanwhile       *)
(* (202-213).                                                                *)
THEOREM AlwaysOneAlarm == Spec => []OneAlarmPerEpisode
<1>1. TurnInv => OneAlarmPerEpisode
  BY DEF TurnInv, TurnAt, Apart, Plain, OneAlarmPerEpisode, Inv, IInv, TInv, HistoryTypes
<1>2. TurnInv /\ [Next]_vars => TurnInv'  BY TurnNext
<1>. QED  BY <1>1, <1>2, TurnInit, PTL DEF Spec

-----------------------------------------------------------------------------
(* What the alarms count together: the fold of EveryFailureCounted, over an  *)
(* arbitrary assignment of rows.  Sets of alarms are finite, so that a set   *)
(* of them that are wrong has a least one; that takes the place of induction.*)
Pick(s) == CHOOSE a \in s : TRUE
CountUp(rows, sum, s) ==
  IF s = {} THEN 0 ELSE rows[Pick(s)].count + sum[s \ {Pick(s)}]
CountsOf(rows, sum) == sum = [s \in SUBSET AlarmIds |-> CountUp(rows, sum, s)]
CountSum(rows) == CHOOSE sum : CountsOf(rows, sum)
CountedIn(rows) == CountSum(rows)[AlarmIds]

(* A nonempty set of sets has a minimal element.                             *)
LEMMA SubsetMin ==
  ASSUME NEW T \in SUBSET SUBSET AlarmIds, T # {}
  PROVE  \E s \in T : \A t \in SUBSET s : t # s => t \notin T
<1>. IsFiniteSet(AlarmIds)  BY AlarmIdsAssumption
<1>1. PICK s \in T : \A t \in T : <<t, s>> \notin StrictSubsetOrdering(AlarmIds)
  BY FS_FiniteSubsetsOfFinite, FS_StrictSubsetOrderingWellFounded, WFMin
<1>2. \A t \in T : ~(t \subseteq s /\ t # s)
  BY <1>1 DEF StrictSubsetOrdering
<1>. QED  BY <1>2


(* A function that does what the fold asks for, on sets of up to n alarms.   *)
Rows(rows) == \A a \in AlarmIds : rows[a].count \in Int
CountsUpTo(rows, sum, n) ==
  /\ sum \in [SUBSET AlarmIds -> Int]
  /\ \A s \in SUBSET AlarmIds : Cardinality(s) <= n => sum[s] = CountUp(rows, sum, s)

LEMMA SmallerSet ==
  ASSUME NEW s \in SUBSET AlarmIds, s # {}
  PROVE  /\ Pick(s) \in s /\ Pick(s) \in AlarmIds /\ s \ {Pick(s)} \in SUBSET s
         /\ s \ {Pick(s)} # s /\ s \ {Pick(s)} \in SUBSET AlarmIds
         /\ Cardinality(s) \in Nat /\ Cardinality(s \ {Pick(s)}) = Cardinality(s) - 1
<1>1. Pick(s) \in s  BY DEF Pick
<1>2. IsFiniteSet(s)  BY AlarmIdsAssumption, FS_Subset
<1>. QED  BY <1>1, <1>2, FS_RemoveElement, FS_CardinalityType

LEMMA OneFurther ==
  ASSUME NEW rows, Rows(rows), NEW n \in Int, NEW sum, CountsUpTo(rows, sum, n)
  PROVE  \E next : CountsUpTo(rows, next, n + 1)
<1>. DEFINE next == [s \in SUBSET AlarmIds |-> CountUp(rows, sum, s)]
<1>1. \A s \in SUBSET AlarmIds : CountUp(rows, sum, s) \in Int
  <2>. SUFFICES ASSUME NEW s \in SUBSET AlarmIds, s # {}
                PROVE  rows[Pick(s)].count + sum[s \ {Pick(s)}] \in Int
    BY DEF CountUp
  <2>1. rows[Pick(s)].count \in Int  BY SmallerSet DEF Rows
  <2>2. sum[s \ {Pick(s)}] \in Int  BY SmallerSet DEF CountsUpTo
  <2>. QED  BY <2>1, <2>2
<1>2. next \in [SUBSET AlarmIds -> Int]  BY <1>1
<1>3. ASSUME NEW s \in SUBSET AlarmIds, Cardinality(s) <= n + 1
      PROVE  next[s] = CountUp(rows, next, s)
  <2>1. CASE s = {}  BY <2>1 DEF CountUp
  <2>2. CASE s # {}
    <3>. DEFINE r == s \ {Pick(s)}
    <3>1. r \in SUBSET AlarmIds /\ Cardinality(r) <= n  BY <1>3, <2>2, SmallerSet
    <3>2. sum[r] = next[r]  BY <3>1 DEF CountsUpTo
    <3>. QED  BY <2>2, <3>2 DEF CountUp
  <2>. QED  BY <2>1, <2>2
<1>. HIDE DEF next
<1>. QED  BY <1>2, <1>3 DEF CountsUpTo

LEMMA UpToAny ==
  ASSUME NEW rows, Rows(rows)
  PROVE  \A s \in SUBSET AlarmIds : \E sum : CountsUpTo(rows, sum, Cardinality(s))
<1>. DEFINE Bad == {s \in SUBSET AlarmIds : ~\E sum : CountsUpTo(rows, sum, Cardinality(s))}
<1>. SUFFICES ASSUME Bad # {}  PROVE FALSE
  OBVIOUS
<1>1. PICK s \in Bad : \A t \in SUBSET s : t # s => t \notin Bad  BY SubsetMin
<1>2. s = {}
  <2>. SUFFICES ASSUME s # {}  PROVE FALSE
    OBVIOUS
  <2>. DEFINE r == s \ {Pick(s)}
  <2>1. /\ r \in SUBSET AlarmIds /\ r \notin Bad
        /\ Cardinality(s) \in Nat /\ Cardinality(r) = Cardinality(s) - 1
    BY <1>1, SmallerSet
  <2>2. PICK sum : CountsUpTo(rows, sum, Cardinality(r))  BY <2>1
  <2>3. Cardinality(r) \in Int /\ Cardinality(r) + 1 = Cardinality(s)  BY <2>1
  <2>. HIDE DEF r
  <2>. QED  BY <1>1, <2>2, <2>3, OneFurther
<1>3. Cardinality(s) = 0  BY <1>2, FS_EmptySet
<1>. DEFINE zero == [t \in SUBSET AlarmIds |-> 0]
<1>4. ASSUME NEW t \in SUBSET AlarmIds, Cardinality(t) <= 0  PROVE t = {}
  <2>1. IsFiniteSet(t)  BY AlarmIdsAssumption, FS_Subset
  <2>. QED  BY <1>4, <2>1, FS_EmptySet, FS_CardinalityType
<1>5. CountsUpTo(rows, zero, 0)  BY <1>4 DEF CountsUpTo, CountUp
<1>. QED  BY <1>1, <1>3, <1>5

(* The recursive function of the fold exists.                                *)
LEMMA SumExists ==
  ASSUME NEW rows, Rows(rows)
  PROVE  /\ CountSum(rows) \in [SUBSET AlarmIds -> Int]
         /\ \A s \in SUBSET AlarmIds : CountSum(rows)[s] = CountUp(rows, CountSum(rows), s)
<1>1. PICK sum : CountsUpTo(rows, sum, Cardinality(AlarmIds))  BY UpToAny
<1>2. \A s \in SUBSET AlarmIds : Cardinality(s) <= Cardinality(AlarmIds)
  BY AlarmIdsAssumption, FS_Subset
<1>3. CountsOf(rows, sum)  BY <1>1, <1>2 DEF CountsOf, CountsUpTo
<1>4. CountsOf(rows, CountSum(rows))  BY <1>3, Zenon DEF CountSum
<1>. DEFINE all == CountSum(rows)
<1>5. \A s \in SUBSET AlarmIds : all[s] = CountUp(rows, all, s)
  BY <1>4 DEF CountsOf
<1>6. all = [s \in SUBSET AlarmIds |-> all[s]]  BY <1>4 DEF CountsOf
<1>. HIDE DEF all
<1>7. \A s \in SUBSET AlarmIds : all[s] \in Int
  <2>. DEFINE Bad == {s \in SUBSET AlarmIds : all[s] \notin Int}
  <2>. SUFFICES ASSUME Bad # {}  PROVE FALSE
    OBVIOUS
  <2>1. PICK s \in Bad : \A t \in SUBSET s : t # s => t \notin Bad  BY SubsetMin
  <2>2. s # {}  BY <1>5, <2>1 DEF CountUp
  <2>3. all[s \ {Pick(s)}] \in Int /\ rows[Pick(s)].count \in Int
    BY <2>1, <2>2, SmallerSet DEF Rows
  <2>. QED  BY <1>5, <2>1, <2>2, <2>3 DEF CountUp
<1>8. all \in [SUBSET AlarmIds -> Int]  BY <1>6, <1>7
<1>. QED  BY <1>5, <1>8 DEF all

(* One row that counts n more: so does the sum.                              *)
LEMMA OneMore ==
  ASSUME NEW before, Rows(before), NEW after, NEW a \in AlarmIds, NEW n \in Int,
         after[a].count = before[a].count + n,
         \A b \in AlarmIds \ {a} : after[b].count = before[b].count
  PROVE  CountedIn(after) = CountedIn(before) + n
<1>1. Rows(after)  BY DEF Rows
<1>. DEFINE old == CountSum(before)
            new == CountSum(after)
            Off(s) == new[s] # old[s] + (IF a \in s THEN n ELSE 0)
            Bad == {s \in SUBSET AlarmIds : Off(s)}
<1>2. /\ \A s \in SUBSET AlarmIds : old[s] = CountUp(before, old, s) /\ old[s] \in Int
      /\ \A s \in SUBSET AlarmIds : new[s] = CountUp(after, new, s) /\ new[s] \in Int
  BY <1>1, SumExists
<1>. HIDE DEF old, new
<1>3. Bad = {}
  <2>. SUFFICES ASSUME Bad # {}  PROVE FALSE
    OBVIOUS
  <2>1. PICK s \in Bad : \A t \in SUBSET s : t # s => t \notin Bad  BY SubsetMin
  <2>2. s # {}  BY <1>2, <2>1 DEF CountUp
  <2>. DEFINE p == Pick(s)
              r == s \ {p}
  <2>3. /\ p \in s /\ p \in AlarmIds /\ r \in SUBSET AlarmIds /\ r \notin Bad
    BY <2>1, <2>2, SmallerSet
  <2>4. /\ old[s] = before[p].count + old[r] /\ new[s] = after[p].count + new[r]
    BY <1>2, <2>1, <2>2 DEF CountUp
  <2>5. new[r] = old[r] + (IF a \in r THEN n ELSE 0)  BY <2>3
  <2>6. before[p].count \in Int /\ old[r] \in Int  BY <1>2, <2>3 DEF Rows
  <2>7. a \in r <=> a \in s /\ a # p  OBVIOUS
  <2>8. after[p].count = before[p].count + (IF a = p THEN n ELSE 0)
    BY <2>3, <2>6
  <2>. HIDE DEF p, r
  <2>9. new[s] = old[s] + (IF a \in s THEN n ELSE 0)
    BY <2>3, <2>4, <2>5, <2>6, <2>7, <2>8
  <2>. QED  BY <2>1, <2>9
<1>4. new[AlarmIds] = old[AlarmIds] + n  BY <1>3
<1>. QED  BY <1>4 DEF CountedIn, old, new

LEMMA AllZero ==
  ASSUME NEW rows, \A a \in AlarmIds : rows[a].count = 0
  PROVE  CountedIn(rows) = 0
<1>. DEFINE sum == CountSum(rows)
            Bad == {s \in SUBSET AlarmIds : sum[s] # 0}
<1>1. \A s \in SUBSET AlarmIds : sum[s] = CountUp(rows, sum, s)
  BY SumExists DEF Rows
<1>. HIDE DEF sum
<1>2. Bad = {}
  <2>. SUFFICES ASSUME Bad # {}  PROVE FALSE
    OBVIOUS
  <2>1. PICK s \in Bad : \A t \in SUBSET s : t # s => t \notin Bad  BY SubsetMin
  <2>2. s # {}  BY <1>1, <2>1 DEF CountUp
  <2>3. sum[s \ {Pick(s)}] = 0 /\ rows[Pick(s)].count = 0  BY <2>1, <2>2, SmallerSet
  <2>4. sum[s] = rows[Pick(s)].count + sum[s \ {Pick(s)}]
    BY <1>1, <2>1, <2>2 DEF CountUp
  <2>. QED  BY <2>1, <2>3, <2>4
<1>. QED  BY <1>2 DEF CountedIn, sum
-----------------------------------------------------------------------------
(* What the alarms count, and the failures that are processed.               *)
Processed == reported - Cardinality(InProgress)
UnusedUncounted == \A a \in AlarmIds : alarm[a].status = "none" => alarm[a].count = 0
TallyInv == TurnInv /\ CountedIn(alarm) = Processed /\ UnusedUncounted

LEMMA CountedIsSum ==
  MapThenSumSet(LAMBDA a : alarm[a].count, AlarmIds) = CountedIn(alarm)
  BY Zenon DEF MapThenSumSet, MapThenFoldSet, CountedIn, CountSum, CountsOf, CountUp, Pick

LEMMA RowsTyped ==
  ASSUME Inv
  PROVE  Rows(alarm) /\ CountedIn(alarm) \in Int
<1>1. Rows(alarm)  BY DEF Inv, IInv, TInv, AlarmTypes, RowSet, Rows
<1>. QED  BY <1>1, SumExists DEF CountedIn

LEMMA SameCount ==
  ASSUME Inv, \A a \in AlarmIds : alarm'[a].count = alarm[a].count
  PROVE  CountedIn(alarm)' = CountedIn(alarm)
<1>1. Rows(alarm) /\ CountedIn(alarm) \in Int  BY RowsTyped
<1>2. CASE AlarmIds = {}
  <2>1. CountedIn(alarm) = 0  BY <1>2, AllZero
  <2>2. CountedIn(alarm') = 0  BY <1>2, AllZero
  <2>. QED  BY <2>1, <2>2
<1>3. CASE AlarmIds # {}
  <2>1. PICK a \in AlarmIds : TRUE  BY <1>3
  <2>2. alarm'[a].count = alarm[a].count + 0  BY <1>1 DEF Rows
  <2>3. CountedIn(alarm') = CountedIn(alarm) + 0
    BY <1>1, <2>1, <2>2, OneMore
  <2>. QED  BY <1>1, <2>3
<1>. QED  BY <1>2, <1>3

(* A row that counts one more, when a failure has been processed.            *)
LEMMA CountsOne ==
  ASSUME TallyInv, Inv', NEW h \in Handlers, ev[h].pc = "write", End(h), UNCHANGED reported,
         NEW a \in AlarmIds, alarm'[a].count = alarm[a].count + 1, alarm'[a].status # "none",
         \A b \in AlarmIds \ {a} : alarm'[b].count = alarm[b].count
                                   /\ alarm'[b].status = alarm[b].status,
         TurnInv'
  PROVE  TallyInv'
<1>1. Inv /\ IInv' /\ EvTypes /\ reported \in Int
  BY DEF TallyInv, TurnInv, Inv, IInv, TInv, HistoryTypes
<1>2. h \in InProgress  BY <1>1, InProgressIs DEF FailingPc
<1>3. Processed' = Processed + 1
  <2>1. Cardinality(InProgress') = Cardinality(InProgress) - 1  BY <1>1, <1>2, EndProgress
  <2>2. Cardinality(InProgress) \in Nat  BY <1>1, InProgressCounts
  <2>. QED  BY <1>1, <2>1, <2>2 DEF Processed
<1>4. Rows(alarm)  BY <1>1, RowsTyped
<1>5. CountedIn(alarm') = CountedIn(alarm) + 1  BY <1>4, OneMore
<1>6. UnusedUncounted'  BY DEF UnusedUncounted, TallyInv
<1>. QED  BY <1>3, <1>5, <1>6 DEF TallyInv

LEMMA UpdateCounts ==
  ASSUME TallyInv, TurnInv', NEW h \in Handlers, Update(h)
  PROVE  TallyInv'
<1>1. TurnInv /\ Inv'  BY DEF TallyInv, TurnInv
<1>2. AlarmTypes /\ EvTypes /\ AllSingle /\ AllSought /\ ev[h].found \subseteq AlarmIds
  BY <1>1, TurnFacts
<1>3. PICK a \in ev[h].found : TRUE  BY DEF Update
<1>. a \in AlarmIds  BY <1>2
<1>. ev[h].pc = "write"  BY DEF Update
<1>. \A f \in ev[h].found : f = a  BY <1>2 DEF AllSingle, Single
<1>. ev[h].found = {a}  OBVIOUS
<1>. alarm[a].status # "none"  BY <1>2 DEF AllSought, Sought
<1>4. \A b \in AlarmIds :
        /\ alarm'[b].status = alarm[b].status
        /\ alarm'[b].count = IF b = a THEN alarm[b].count + 1 ELSE alarm[b].count
  BY <1>2 DEF Update, AlarmTypes, RowSet
<1>. QED  BY <1>1, <1>4, CountsOne DEF Update, historyVars

LEMMA CreateCounts ==
  ASSUME TallyInv, TurnInv', NEW h \in Handlers, Create(h)
  PROVE  TallyInv'
<1>1. TurnInv /\ Inv' /\ UnusedUncounted  BY DEF TallyInv, TurnInv
<1>2. AlarmTypes  BY <1>1, TurnFacts
<1>3. PICK a \in Unused, c \in ev[h].causes :
        alarm' = [alarm EXCEPT ![a] =
          [cause |-> c, status |-> "OPEN", last |-> ev[h].at, count |-> 1, resolved |-> FALSE]]
  BY DEF Create
<1>4. a \in AlarmIds /\ alarm[a].count = 0  BY <1>1 DEF Unused, UnusedUncounted
<1>5. /\ alarm'[a].count = 1 /\ alarm'[a].status = "OPEN"
      /\ \A b \in AlarmIds \ {a} : alarm'[b] = alarm[b]
  BY <1>2, <1>3, <1>4 DEF AlarmTypes
<1>. QED  BY <1>1, <1>4, <1>5, CountsOne DEF Create, historyVars

(* Steps that count nothing.                                                 *)
Uncounting ==
  \A a \in AlarmIds : /\ alarm'[a].count = alarm[a].count
                      /\ alarm'[a].status = "none" => alarm[a].status = "none"

LEMMA CountsNothing ==
  ASSUME TallyInv, TurnInv', Uncounting, Processed' = Processed
  PROVE  TallyInv'
<1>1. Inv  BY DEF TallyInv, TurnInv
<1>2. CountedIn(alarm)' = CountedIn(alarm)  BY <1>1, SameCount DEF Uncounting
<1>3. UnusedUncounted'  BY DEF UnusedUncounted, TallyInv, Uncounting
<1>. QED  BY <1>2, <1>3 DEF TallyInv

LEMMA StillProcessed ==
  ASSUME Inv, Inv', UNCHANGED reported,
         \A h \in Handlers : ev'[h].pc \in FailingPc <=> ev[h].pc \in FailingPc
  PROVE  Processed' = Processed
<1>1. EvTypes /\ IInv'  BY DEF Inv, IInv, TInv
<1>2. InProgress' = InProgress
  BY <1>1, InProgressIs, InProgressNextIs DEF InProgressNext
<1>. QED  BY <1>2 DEF Processed

LEMMA ResolvesUncounting ==
  ASSUME AlarmTypes, NEW S, Resolve(S)
  PROVE  Uncounting
<1>1. \A a \in AlarmIds : alarm[a] \in RowSet  BY DEF AlarmTypes
<1>. QED  BY <1>1 DEF Uncounting, Resolve, RowSet

LEMMA ReportTally ==
  ASSUME TallyInv, TurnInv', NEW h \in Handlers, NEW c \in Causes, Report(h, c)
  PROVE  TallyInv'
<1>1. Inv /\ IInv' /\ EvTypes /\ reported \in Int
  BY DEF TallyInv, TurnInv, Inv, IInv, TInv, HistoryTypes
<1>2. Cardinality(InProgress') = Cardinality(InProgress) + 1  BY <1>1, ReportProgress
<1>3. Cardinality(InProgress) \in Nat  BY <1>1, InProgressCounts
<1>4. reported' = reported + 1 /\ UNCHANGED alarm  BY DEF Report
<1>5. Processed' = Processed  BY <1>1, <1>2, <1>3, <1>4 DEF Processed
<1>. QED  BY <1>4, <1>5, CountsNothing DEF Uncounting

LEMMA GivenUpTally ==
  ASSUME TallyInv, TurnInv', NEW h \in Handlers, End(h), UNCHANGED alarm,
         reported' = IF h \in InProgress THEN reported - 1 ELSE reported
  PROVE  TallyInv'
<1>1. Inv /\ IInv' /\ EvTypes /\ reported \in Int
  BY DEF TallyInv, TurnInv, Inv, IInv, TInv, HistoryTypes
<1>2. Cardinality(InProgress') =
        IF h \in InProgress THEN Cardinality(InProgress) - 1 ELSE Cardinality(InProgress)
  BY <1>1, EndProgress
<1>3. Cardinality(InProgress) \in Nat  BY <1>1, InProgressCounts
<1>4. Processed' = Processed  BY <1>1, <1>2, <1>3 DEF Processed
<1>. QED  BY <1>4, CountsNothing DEF Uncounting

LEMMA CrashTally ==
  ASSUME TallyInv, TurnInv', Crash
  PROVE  TallyInv'
<1>1. Inv /\ IInv' /\ EvTypes /\ reported \in Int
  BY DEF TallyInv, TurnInv, Inv, IInv, TInv, HistoryTypes
<1>2. Cardinality(InProgress') = 0  BY <1>1, CrashProgress
<1>3. Cardinality(InProgress) \in Nat  BY <1>1, InProgressCounts
<1>4. reported' = reported - Cardinality(InProgress) /\ UNCHANGED alarm  BY DEF Crash
<1>5. Processed' = Processed  BY <1>1, <1>2, <1>3, <1>4 DEF Processed
<1>. QED  BY <1>4, <1>5, CountsNothing DEF Uncounting

(* The handlers' steps that neither begin a failure nor end one.             *)
LEMMA HandlerTally ==
  ASSUME TallyInv, TurnInv', NEW h \in Handlers,
         \/ \E R \in Recoveries : Recover(h, R)
         \/ Tick(h) \/ ResolveStale(h) \/ Passed(h) \/ Find(h) \/ Targets(h) \/ Close(h)
  PROVE  TallyInv'
<1>1. Inv /\ Inv' /\ EvTypes /\ AlarmTypes  BY DEF TallyInv, TurnInv, Inv, IInv, TInv
<1>2. Uncounting
  <2>1. CASE UNCHANGED alarm  BY <2>1 DEF Uncounting
  <2>2. CASE ResolveStale(h)  BY <1>1, <2>2, ResolvesUncounting DEF ResolveStale
  <2>3. CASE Close(h)  BY <1>1, <2>3, ResolvesUncounting DEF Close
  <2>. QED  BY <2>1, <2>2, <2>3 DEF Recover, Tick, Passed, Find, Targets
<1>3. UNCHANGED reported
  BY DEF Recover, Tick, ResolveStale, Passed, Find, Targets, Close, historyVars
<1>4. \A g \in Handlers : ev'[g].pc \in FailingPc <=> ev[g].pc \in FailingPc
  <2>1. ASSUME NEW R \in Recoveries, Recover(h, R)  PROVE <1>4
    BY <2>1, <1>1, IdleTyped DEF Recover, Set, Event, FailingPc, EvTypes
  <2>2. CASE Tick(h)  BY <2>2, <1>1, IdleTyped DEF Tick, Set, Event, FailingPc, EvTypes
  <2>3. CASE ResolveStale(h)
    <3>1. CASE ev[h].pc = "tick"
      BY <2>3, <3>1, <1>1, IdleTyped DEF ResolveStale, End, Set, FailingPc, EvTypes
    <3>2. CASE ev[h].pc = "stale"
      BY <2>3, <3>2, <1>1 DEF ResolveStale, Goto, Set, FailingPc, EvTypes, EvSet
    <3>. QED  BY <2>3, <3>1, <3>2 DEF ResolveStale
  <2>4. CASE Passed(h)  BY <2>4, <1>1 DEF Passed, Goto, Set, FailingPc, EvTypes, EvSet
  <2>5. CASE Find(h)  BY <2>5, <1>1 DEF Find, Set, FailingPc, EvTypes, EvSet
  <2>6. CASE Targets(h)  BY <2>6, <1>1 DEF Targets, Set, FailingPc, EvTypes, EvSet
  <2>7. CASE Close(h)  BY <2>7, <1>1, IdleTyped DEF Close, End, Set, FailingPc, EvTypes
  <2>. QED  BY <2>1, <2>2, <2>3, <2>4, <2>5, <2>6, <2>7
<1>. QED  BY <1>1, <1>2, <1>3, <1>4, StillProcessed, CountsNothing

LEMMA OutsideTally ==
  ASSUME TallyInv, TurnInv',
         \/ \E a \in AlarmIds : Acknowledge(a) \/ ResolveByHand(a)
         \/ TimePasses \/ UNCHANGED vars
  PROVE  TallyInv'
<1>1. Inv /\ Inv' /\ AlarmTypes  BY DEF TallyInv, TurnInv, Inv, IInv, TInv
<1>2. UNCHANGED <<ev, reported>>
  BY DEF Acknowledge, ResolveByHand, TimePasses, historyVars, vars
<1>3. Processed' = Processed  BY <1>1, <1>2, StillProcessed
<1>4. Uncounting
  <2>1. ASSUME NEW a \in AlarmIds, Acknowledge(a)  PROVE Uncounting
    BY <2>1, <1>1 DEF Uncounting, Acknowledge, AlarmTypes, RowSet
  <2>2. ASSUME NEW a \in AlarmIds, ResolveByHand(a)  PROVE Uncounting
    BY <2>2, <1>1, ResolvesUncounting DEF ResolveByHand
  <2>3. CASE UNCHANGED alarm  BY <2>3 DEF Uncounting
  <2>. QED  BY <2>1, <2>2, <2>3 DEF TimePasses, historyVars, vars
<1>. QED  BY <1>3, <1>4, CountsNothing

LEMMA TallyNext ==
  ASSUME TallyInv, [Next]_vars
  PROVE  TallyInv'
<1>1. TurnInv'  BY TurnNext DEF TallyInv
<1>2. Inv /\ EvTypes  BY DEF TallyInv, TurnInv, Inv, IInv, TInv
<1>3. ASSUME NEW h \in Handlers, Dropped(h)  PROVE TallyInv'
  <2>1. h \in InProgress  BY <1>2, <1>3, InProgressIs DEF Dropped, FailingPc
  <2>. QED  BY <1>1, <1>3, <2>1, GivenUpTally DEF Dropped
<1>4. ASSUME NEW h \in Handlers, QueryFails(h)  PROVE TallyInv'
  BY <1>1, <1>4, GivenUpTally DEF QueryFails
<1>. QED
  BY <1>1, <1>3, <1>4, ReportTally, HandlerTally, UpdateCounts, CreateCounts, CrashTally,
     OutsideTally
     DEF Next, Works, HandlerStep

LEMMA TallyInit == Init => TallyInv
<1>. SUFFICES ASSUME Init  PROVE TallyInv
  OBVIOUS
<1>1. TurnInv /\ Inv /\ EvTypes  BY TurnInit DEF TurnInv, Inv, IInv, TInv
<1>2. \A a \in AlarmIds : alarm[a].count = 0  BY DEF Init, NoRow
<1>3. InProgress = {}
  <2>1. \A h \in Handlers : ev[h].pc = "idle"  BY IdleTyped DEF Init
  <2>. QED  BY <1>1, <2>1, InProgressIs DEF FailingPc
<1>4. Processed = 0  BY <1>3, FS_EmptySet DEF Init, Processed
<1>5. CountedIn(alarm) = 0  BY <1>2, AllZero
<1>. QED  BY <1>1, <1>2, <1>4, <1>5 DEF TallyInv, UnusedUncounted

(* Every failure that was processed is counted in exactly one alarm, for any *)
(* number of events side by side, and where a recovery or an operator        *)
(* resolves the alarm between the search and the update (204-253).           *)
THEOREM FailuresAlwaysCounted == Spec => []EveryFailureCounted
<1>1. TallyInv => EveryFailureCounted
  BY CountedIsSum DEF TallyInv, EveryFailureCounted, Processed
<1>2. TallyInv /\ [Next]_vars => TallyInv'  BY TallyNext
<1>. QED  BY <1>1, <1>2, TallyInit, PTL DEF Spec
=============================================================================
