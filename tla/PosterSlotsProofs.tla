-------------------------- MODULE PosterSlotsProofs --------------------------
(***************************************************************************)
(* PosterSlots for any number of cameras, calls and slots: the bound on    *)
(* the captures, one capture per camera, and the refinement of Slots.      *)
(*                                                                         *)
(* The counter says nothing about who holds a slot, so the invariant ties  *)
(* it to them (CounterCounts), ties the waiters to their calls (LineInv)   *)
(* and says that nobody waits while a slot is free (NoIdleSlot).           *)
(***************************************************************************)
EXTENDS PosterSlots, FiniteSetTheorems, TLAPS

CounterCounts == active = Cardinality(Holders)
LineInv ==
    /\ \A k \in Calls : job[k] = "waiting" <=> \E i \in 1..Len(waiters) : waiters[i] = k
    /\ \A i, j \in 1..Len(waiters) : waiters[i] = waiters[j] => i = j
NoIdleSlot == waiters # <<>> => active = Max

Inv == TypeOK /\ CounterCounts /\ LineInv /\ NoIdleSlot /\ OneCapturePerCamera

-----------------------------------------------------------------------------
\* Who holds a slot after one job has moved, or two.
LEMMA HoldersFinite == IsFiniteSet(Holders)
BY CallsAssumption, FS_Subset DEF Holders

\* A call that takes a slot joins the holders.
LEMMA JoinsHolders ==
    ASSUME TypeOK, NEW k \in Calls, job[k] \notin {"granted", "capture", "ended"},
           Goto(k, "capture")
    PROVE  Holders' = Holders \cup {k} /\ Cardinality(Holders') = Cardinality(Holders) + 1
<1>1. Holders' = Holders \cup {k} /\ k \notin Holders
  BY DEF Holders, Goto, TypeOK
<1> QED
  BY <1>1, HoldersFinite, FS_AddElement

\* A call that gives its slot back, to nobody, leaves the holders.
LEMMA LeavesHolders ==
    ASSUME TypeOK, NEW k \in Calls, job[k] = "ended", Goto(k, "settled")
    PROVE  Holders' = Holders \ {k} /\ Cardinality(Holders') = Cardinality(Holders) - 1
<1>1. Holders' = Holders \ {k} /\ k \in Holders
  BY DEF Holders, Goto, TypeOK
<1> QED
  BY <1>1, HoldersFinite, FS_RemoveElement

\* A slot that is handed on changes hands.
LEMMA HandsOn ==
    ASSUME TypeOK, NEW k \in Calls, NEW q \in Calls, job[k] = "ended", job[q] = "waiting",
           job' = [job EXCEPT ![k] = "settled", ![q] = "granted"]
    PROVE  /\ Holders' = (Holders \ {k}) \cup {q}
           /\ Cardinality(Holders') = Cardinality(Holders)
<1>1. k \in Holders /\ q \notin Holders /\ q # k
  BY DEF Holders
<1>2. Holders' = (Holders \ {k}) \cup {q}
  BY <1>1 DEF Holders, TypeOK
<1>3. IsFiniteSet(Holders \ {k}) /\ Cardinality(Holders \ {k}) = Cardinality(Holders) - 1
  BY <1>1, HoldersFinite, FS_RemoveElement
<1>4. Cardinality(Holders') = Cardinality(Holders \ {k}) + 1
  BY <1>1, <1>2, <1>3, FS_AddElement
<1>5. Cardinality(Holders) \in Nat
  BY HoldersFinite, FS_CardinalityType
<1> QED
  BY <1>2, <1>3, <1>4, <1>5

\* A job that moves between two stages of the same kind.
LEMMA SameHolders ==
    ASSUME TypeOK, NEW k \in Calls, NEW l \in Stages, Goto(k, l),
           job[k] \in {"granted", "capture", "ended"} <=> l \in {"granted", "capture", "ended"}
    PROVE  Holders' = Holders
BY DEF Holders, Goto, TypeOK

\* The first in line: a call that waits, and the line without it.
LEMMA HeadWaits ==
    ASSUME TypeOK, LineInv, waiters # <<>>
    PROVE  /\ Head(waiters) \in Calls /\ job[Head(waiters)] = "waiting"
           /\ Head(waiters) = waiters[1] /\ Len(waiters) \in Nat \ {0}
           /\ Tail(waiters) \in Seq(Calls)
           /\ Len(Tail(waiters)) = Len(waiters) - 1
           /\ \A i \in 1..Len(Tail(waiters)) : Tail(waiters)[i] = waiters[i + 1]
<1>1. Len(waiters) \in Nat \ {0} /\ Head(waiters) = waiters[1] /\ waiters[1] \in Calls
  BY DEF TypeOK
<1>2. job[waiters[1]] = "waiting"
  BY <1>1 DEF LineInv
<1> QED
  BY <1>1, <1>2 DEF TypeOK

-----------------------------------------------------------------------------
\* At boot nothing is captured, cached or awaited.
LEMMA InitInv == Init => Inv
<1> SUFFICES ASSUME Init PROVE Inv
  OBVIOUS
<1>1. Holders = {}
  BY DEF Init, Holders
<1>2. Cardinality(Holders) = 0
  BY <1>1, FS_EmptySet
<1>3. TypeOK
  BY MaxAssumption DEF Init, TypeOK, Stages
<1> QED
  BY <1>2, <1>3 DEF Init, Inv, CounterCounts, LineInv, NoIdleSlot, OneCapturePerCamera

\* A capture that starts takes a slot or the end of the line.
LEMMA StartKeeps ==
    ASSUME Inv, NEW k \in Calls, NEW c \in Cameras,
           job[k] = "none", inFlight[c] = None, StartCapture(k, c),
           waits' \in [Calls -> Calls \cup {None}], UNCHANGED cache
    PROVE  Inv'
<1> USE DEF Inv, StartCapture
<1>1. OneCapturePerCamera'
  <2>1. \A q \in Calls : q # k => job'[q] = job[q] /\ cam'[q] = cam[q]
    BY DEF Acquire, Goto, TypeOK
  <2>2. ASSUME NEW q \in Calls, job'[q] # "none" PROVE inFlight'[cam'[q]] = q
    <3>1. CASE q = k
      BY <3>1 DEF TypeOK
    <3>2. CASE q # k
      <4>1. inFlight[cam[q]] = q /\ cam'[q] = cam[q] /\ cam[q] # c
        BY <2>1, <2>2, <3>2, CallsAssumption DEF OneCapturePerCamera
      <4> QED
        BY <4>1 DEF TypeOK
    <3> QED
      BY <3>1, <3>2
  <2> QED
    BY <2>2 DEF OneCapturePerCamera
<1>2. CASE active < Max
  <2>1. active' = active + 1 /\ Goto(k, "capture") /\ waiters' = waiters /\ waiters = <<>>
    BY <1>2, MaxAssumption DEF Acquire, NoIdleSlot, TypeOK
  <2>2. TypeOK'
    BY <1>2, <2>1, MaxAssumption DEF TypeOK, Goto, Stages
  <2>3. CounterCounts'
    BY <2>1, JoinsHolders DEF CounterCounts
  <2>4. LineInv'
    BY <2>1 DEF LineInv, Goto, TypeOK
  <2> QED
    BY <1>1, <2>1, <2>2, <2>3, <2>4 DEF NoIdleSlot
<1>3. CASE ~(active < Max)
  <2>1. /\ active' = active /\ active = Max
        /\ waiters' = Append(waiters, k) /\ Goto(k, "waiting")
    BY <1>3, MaxAssumption DEF Acquire, TypeOK
  <2>2. TypeOK'
    BY <2>1 DEF TypeOK, Goto, Stages
  <2>3. CounterCounts'
    BY <2>1, SameHolders DEF CounterCounts, Stages
  <2>4. /\ Len(waiters') = Len(waiters) + 1 /\ Len(waiters) \in Nat
        /\ \A i \in 1..Len(waiters) : waiters'[i] = waiters[i] /\ waiters[i] # k
        /\ waiters'[Len(waiters) + 1] = k
    BY <2>1 DEF TypeOK, LineInv
  <2>5. \A q \in Calls : job'[q] = "waiting" <=> q = k \/ job[q] = "waiting"
    BY <2>1 DEF Goto, TypeOK
  <2>6. LineInv'
    BY <2>4, <2>5 DEF LineInv
  <2> QED
    BY <1>1, <2>1, <2>2, <2>3, <2>6 DEF NoIdleSlot
<1> QED
  BY <1>2, <1>3

\* A capture moves on without touching slots or cameras.
LEMMA MoveKeeps ==
    ASSUME Inv, NEW k \in Calls, NEW l \in Stages \ {"none", "waiting"}, Goto(k, l),
           job[k] \notin {"none", "waiting"},
           job[k] \in {"granted", "capture", "ended"} <=> l \in {"granted", "capture", "ended"},
           UNCHANGED <<slotVars, cam, waits, inFlight>>,
           cache' \in [Cameras -> {"none", "fresh", "stale"}]
    PROVE  Inv'
<1> USE DEF Inv, slotVars
<1>1. TypeOK'
  BY DEF TypeOK, Goto
<1>2. CounterCounts'
  BY SameHolders DEF CounterCounts
<1>3. LineInv'
  BY DEF LineInv, Goto, TypeOK
<1>4. NoIdleSlot'
  BY DEF NoIdleSlot
<1>5. OneCapturePerCamera'
  BY DEF OneCapturePerCamera, Goto, TypeOK
<1> QED
  BY <1>1, <1>2, <1>3, <1>4, <1>5

\* The slot of a capture that ends is handed to the first in line or is free.
LEMMA ReleaseKeeps ==
    ASSUME Inv, NEW k \in Calls, Release(k)
    PROVE  Inv'
<1> USE DEF Inv
<1>1. CASE waiters # <<>>
  <2> DEFINE q == Head(waiters)
  <2>1. /\ job' = [job EXCEPT ![k] = "settled", ![q] = "granted"]
        /\ waiters' = Tail(waiters) /\ active' = active /\ job[k] = "ended"
        /\ UNCHANGED <<cam, waits, inFlight, cache>>
    BY <1>1 DEF Release
  <2>2. /\ q \in Calls /\ job[q] = "waiting" /\ q = waiters[1] /\ q # k
        /\ Len(waiters) \in Nat \ {0} /\ waiters' \in Seq(Calls)
        /\ Len(waiters') = Len(waiters) - 1
        /\ \A i \in 1..Len(waiters') : waiters'[i] = waiters[i + 1]
    BY <1>1, <2>1, HeadWaits
  <2> HIDE DEF q
  <2>3. TypeOK'
    BY <2>1, <2>2 DEF TypeOK, Stages
  <2>4. CounterCounts'
    BY <2>1, <2>2, HandsOn DEF CounterCounts
  <2>5. \A j \in Calls : job'[j] = "waiting" <=> job[j] = "waiting" /\ j # q
    BY <2>1, <2>2 DEF TypeOK
  <2>6. ASSUME NEW j \in Calls
        PROVE  job'[j] = "waiting" <=> \E i \in 1..Len(waiters') : waiters'[i] = j
    <3>1. CASE job[j] = "waiting" /\ j # q
      <4>1. PICK i \in 1..Len(waiters) : waiters[i] = j
        BY <3>1 DEF LineInv
      <4>2. i # 1 /\ i - 1 \in 1..Len(waiters')
        BY <3>1, <4>1, <2>2
      <4>3. waiters'[i - 1] = j
        BY <4>1, <4>2, <2>2
      <4> QED
        BY <3>1, <4>2, <4>3, <2>5
    <3>2. CASE ~(job[j] = "waiting" /\ j # q)
      <4>1. SUFFICES ASSUME NEW i \in 1..Len(waiters'), waiters'[i] = j PROVE FALSE
        BY <3>2, <2>5
      <4>2. waiters[i + 1] = j /\ i + 1 \in 1..Len(waiters) /\ 1 \in 1..Len(waiters) /\ i + 1 # 1
        BY <4>1, <2>2
      <4>3. job[j] = "waiting" /\ j # q
        BY <4>2, <2>2 DEF LineInv
      <4> QED
        BY <4>3, <3>2
    <3> QED
      BY <3>1, <3>2
  <2>7. ASSUME NEW i \in 1..Len(waiters'), NEW j \in 1..Len(waiters'),
               waiters'[i] = waiters'[j]
        PROVE  i = j
    <3>1. i + 1 \in 1..Len(waiters) /\ j + 1 \in 1..Len(waiters)
      BY <2>2
    <3>2. waiters[i + 1] = waiters[j + 1]
      BY <2>2, <2>7
    <3>3. i + 1 = j + 1
      BY <3>1, <3>2 DEF LineInv
    <3> QED
      BY <3>3, <2>2
  <2>8. LineInv'
    BY <2>6, <2>7 DEF LineInv
  <2>9. NoIdleSlot'
    BY <1>1, <2>1 DEF NoIdleSlot
  <2>10. OneCapturePerCamera'
    BY <2>1, <2>2 DEF OneCapturePerCamera, TypeOK
  <2> QED
    BY <2>3, <2>4, <2>8, <2>9, <2>10
<1>2. CASE waiters = <<>>
  <2>1. /\ active' = active - 1 /\ Goto(k, "settled") /\ waiters' = waiters
        /\ job[k] = "ended" /\ UNCHANGED <<cam, waits, inFlight, cache>>
    BY <1>2 DEF Release
  <2>2. CounterCounts'
    BY <2>1, LeavesHolders DEF CounterCounts
  <2>3. active \in Nat /\ active # 0
    <3>1. k \in Holders
      BY <2>1 DEF Holders
    <3> QED
      BY <3>1, HoldersFinite, FS_EmptySet DEF CounterCounts, TypeOK
  <2>4. TypeOK'
    BY <2>1, <2>3, MaxAssumption DEF TypeOK, Goto, Stages
  <2>5. LineInv'
    BY <2>1 DEF LineInv, Goto, TypeOK
  <2>6. NoIdleSlot' /\ OneCapturePerCamera'
    BY <1>2, <2>1 DEF NoIdleSlot, OneCapturePerCamera, Goto, TypeOK
  <2> QED
    BY <2>2, <2>4, <2>5, <2>6
<1> QED
  BY <1>1, <1>2

\* A capture that is settled is forgotten by posterInFlight and by those it answers.
LEMMA SettleKeeps ==
    ASSUME Inv, NEW k \in Calls, Settle(k)
    PROVE  Inv'
<1> USE DEF Inv, Settle, slotVars
<1>1. TypeOK'
  BY DEF TypeOK, Goto, Stages
<1>2. CounterCounts'
  BY SameHolders DEF CounterCounts, Stages
<1>3. LineInv' /\ NoIdleSlot'
  BY DEF LineInv, NoIdleSlot, Goto, TypeOK
<1>4. ASSUME NEW q \in Calls, job'[q] # "none" PROVE inFlight'[cam'[q]] = q
  <2>1. q # k /\ job[q] # "none" /\ cam'[q] = cam[q]
    BY <1>4 DEF Goto, TypeOK
  <2>2. inFlight[cam[q]] = q /\ inFlight[cam[k]] = k
    BY <2>1 DEF OneCapturePerCamera
  <2> QED
    BY <2>1, <2>2 DEF TypeOK
<1> QED
  BY <1>1, <1>2, <1>3, <1>4 DEF OneCapturePerCamera

\* Join, Expire and a stutter leave the slots and the captures alone.
LEMMA AsideKeeps ==
    ASSUME Inv, UNCHANGED <<slotVars, job, cam, inFlight>>,
           waits' \in [Calls -> Calls \cup {None}],
           cache' \in [Cameras -> {"none", "fresh", "stale"}]
    PROVE  Inv' /\ Holders' = Holders
BY DEF Inv, slotVars, TypeOK, CounterCounts, LineInv, NoIdleSlot, OneCapturePerCamera,
       Holders

\* Every step of the posters keeps the invariant.
LEMMA StepInv == Inv /\ [Next]_vars => Inv'
<1> SUFFICES ASSUME Inv, [Next]_vars PROVE Inv'
  OBVIOUS
<1>t. TypeOK
  BY DEF Inv
<1>1. ASSUME NEW k \in Calls, NEW c \in Cameras, Refresh(k, c) PROVE Inv'
  BY <1>1, <1>t, StartKeeps DEF Refresh, Over, TypeOK
<1>2. ASSUME NEW k \in Calls, NEW c \in Cameras, Join(k, c) PROVE Inv'
  BY <1>2, <1>t, AsideKeeps DEF Join, TypeOK
<1>3. ASSUME NEW k \in Calls, NEW c \in Cameras, First(k, c) PROVE Inv'
  BY <1>3, <1>t, StartKeeps DEF First, Over, TypeOK
<1>4. ASSUME NEW k \in Calls, Resume(k) PROVE Inv'
  BY <1>4, <1>t, MoveKeeps DEF Resume, TypeOK, Stages
<1>5. ASSUME NEW k \in Calls, CaptureEnds(k) PROVE Inv'
  BY <1>5, <1>t, MoveKeeps DEF CaptureEnds, TypeOK, Stages
<1>6. ASSUME NEW k \in Calls, Release(k) PROVE Inv'
  BY <1>6, ReleaseKeeps
<1>7. ASSUME NEW k \in Calls, Settle(k) PROVE Inv'
  BY <1>7, SettleKeeps
<1>8. ASSUME NEW c \in Cameras, Expire(c) PROVE Inv'
  BY <1>8, <1>t, AsideKeeps DEF Expire, TypeOK
<1>9. CASE UNCHANGED vars
  BY <1>9, <1>t, AsideKeeps DEF vars, slotVars, TypeOK
<1> QED
  BY <1>1, <1>2, <1>3, <1>4, <1>5, <1>6, <1>7, <1>8, <1>9
  DEF Next, Request, JobStep

\* The inductive invariant: the counter, the line and posterInFlight agree with
\* the captures in progress.
THEOREM InvHolds == Spec => []Inv
<1>1. Init => Inv
  BY InitInv
<1>2. Inv /\ [Next]_vars => Inv'
  BY StepInv
<1> QED
  BY <1>1, <1>2, PTL DEF Spec

\* The poster's state has its types; in particular posterActiveCaptures neither
\* drops below zero nor exceeds posterMaxConcurrency.
THEOREM TypeCorrect == Spec => []TypeOK
<1>1. Inv => TypeOK
  BY DEF Inv
<1> QED
  BY <1>1, InvHolds, PTL

\* However many cameras ask at a time, at most posterMaxConcurrency captures run.
THEOREM CapturesAlwaysBounded == Spec => []CapturesBounded
<1>1. Inv => CapturesBounded
  BY MaxAssumption DEF Inv, CapturesBounded, CounterCounts, TypeOK
<1> QED
  BY <1>1, InvHolds, PTL

\* No camera is captured twice at a time: posterInFlight names the capture that runs.
THEOREM OneCaptureAlways == Spec => []OneCapturePerCamera
<1>1. Inv => OneCapturePerCamera
  BY DEF Inv
<1> QED
  BY <1>1, InvHolds, PTL

-----------------------------------------------------------------------------
\* Nobody awaits a promise that will not settle: the safety half of CallsAnswered.

\* posterInFlight names only captures of its camera that are under way.
FlightsUnderWay ==
    \A c \in Cameras : inFlight[c] # None => job[inFlight[c]] # "none" /\ cam[inFlight[c]] = c

\* A capture that somebody awaits is under way, and when it is in line some other
\* capture holds a slot, whose release will wake the line.
AwaitedUnderWay ==
    \A k \in Calls : waits[k] # None =>
        /\ job[waits[k]] # "none"
        /\ job[waits[k]] = "waiting" => Holders \ {waits[k]} # {}

UnderWay == FlightsUnderWay /\ \A k \in Calls : waits[k] # None => job[waits[k]] # "none"

\* A step that forgets no capture, starts none and lets nobody wait.
LEMMA UnderWayStays ==
    ASSUME UnderWay, \A q \in Calls : job[q] # "none" => job'[q] # "none",
           TypeOK, UNCHANGED <<cam, waits, inFlight>>
    PROVE  UnderWay'
BY DEF UnderWay, FlightsUnderWay, TypeOK

\* A capture that starts is named by posterInFlight, and nobody but its own call
\* awaits it yet.
LEMMA StartUnderWay ==
    ASSUME UnderWay, TypeOK, NEW k \in Calls, NEW c \in Cameras, job[k] = "none",
           StartCapture(k, c), waits' \in {waits, [waits EXCEPT ![k] = k]}
    PROVE  UnderWay'
<1>1. \A q \in Calls : /\ job'[q] # "none" <=> q = k \/ job[q] # "none"
                       /\ cam'[q] = IF q = k THEN c ELSE cam[q]
  BY DEF StartCapture, Acquire, Goto, TypeOK
<1>2. \A d \in Cameras : inFlight'[d] = IF d = c THEN k ELSE inFlight[d]
  BY DEF StartCapture, TypeOK
<1>3. \A q \in Calls : waits'[q] = waits[q] \/ (q = k /\ waits'[q] = k)
  BY DEF TypeOK
<1>4. FlightsUnderWay'
  <2> SUFFICES ASSUME NEW d \in Cameras, inFlight'[d] # None
               PROVE  job'[inFlight'[d]] # "none" /\ cam'[inFlight'[d]] = d
    BY DEF FlightsUnderWay
  <2>1. CASE d = c
    BY <1>1, <1>2, <2>1
  <2>2. CASE d # c
    <3>1. inFlight'[d] = inFlight[d] /\ inFlight[d] \in Calls
      BY <1>2, <2>2 DEF TypeOK
    <3>2. job[inFlight[d]] # "none" /\ cam[inFlight[d]] = d
      BY <3>1, CallsAssumption DEF UnderWay, FlightsUnderWay
    <3> QED
      BY <1>1, <3>1, <3>2
  <2> QED
    BY <2>1, <2>2
<1> QED
  BY <1>1, <1>3, <1>4 DEF UnderWay, TypeOK

\* A capture that is over is forgotten by posterInFlight and awaited by nobody.
LEMMA SettleUnderWay ==
    ASSUME UnderWay, TypeOK, NEW k \in Calls, Settle(k)
    PROVE  UnderWay'
<1>1. \A q \in Calls : /\ job'[q] = IF q = k THEN "none" ELSE job[q]
                       /\ waits'[q] = IF waits[q] = k THEN None ELSE waits[q]
  BY DEF Settle, Goto, TypeOK
<1>2. /\ \A c \in Cameras : inFlight'[c] = IF c = cam[k] THEN None ELSE inFlight[c]
      /\ cam' = cam
  BY DEF Settle, TypeOK
<1>3. ASSUME NEW c \in Cameras, inFlight'[c] # None
      PROVE  job'[inFlight'[c]] # "none" /\ cam'[inFlight'[c]] = c
  <2>1. c # cam[k] /\ inFlight'[c] = inFlight[c] /\ inFlight[c] \in Calls
    BY <1>2, <1>3 DEF TypeOK
  <2>2. job[inFlight[c]] # "none" /\ cam[inFlight[c]] = c
    BY <2>1, CallsAssumption DEF UnderWay, FlightsUnderWay
  <2> QED
    BY <1>1, <1>2, <2>1, <2>2
<1>4. ASSUME NEW q \in Calls, waits'[q] # None PROVE job'[waits'[q]] # "none"
  <2>1. waits'[q] = waits[q] /\ waits[q] # k /\ waits[q] \in Calls
    BY <1>1, <1>4 DEF TypeOK
  <2> QED
    BY <1>1, <2>1, CallsAssumption DEF UnderWay
<1> QED
  BY <1>3, <1>4 DEF UnderWay, FlightsUnderWay

LEMMA UnderWayStep == Inv /\ UnderWay /\ [Next]_vars => UnderWay'
<1> SUFFICES ASSUME Inv, UnderWay, [Next]_vars PROVE UnderWay'
  OBVIOUS
<1>t. TypeOK
  BY DEF Inv
<1>1. ASSUME NEW k \in Calls, NEW c \in Cameras, Refresh(k, c) \/ First(k, c) PROVE UnderWay'
  BY <1>1, <1>t, StartUnderWay DEF Refresh, First, Over
<1>2. ASSUME NEW k \in Calls, NEW c \in Cameras, Join(k, c) PROVE UnderWay'
  <2>1. /\ UNCHANGED <<job, cam, inFlight>> /\ inFlight[c] # None
        /\ waits' = [waits EXCEPT ![k] = inFlight[c]]
    BY <1>2 DEF Join
  <2> QED
    BY <1>t, <2>1 DEF UnderWay, FlightsUnderWay, TypeOK
<1>3. ASSUME NEW k \in Calls, Resume(k) \/ CaptureEnds(k) PROVE UnderWay'
  BY <1>3, <1>t, UnderWayStays DEF Resume, CaptureEnds, Goto, TypeOK
<1>4. ASSUME NEW k \in Calls, Release(k) PROVE UnderWay'
  <2>1. waiters # <<>> => Head(waiters) \in Calls
    BY <1>t, HeadWaits DEF Inv
  <2>2. \A q \in Calls : job[q] # "none" => job'[q] # "none"
    BY <1>4, <1>t, <2>1 DEF Release, Goto, TypeOK
  <2> QED
    BY <1>4, <1>t, <2>2, UnderWayStays DEF Release
<1>5. ASSUME NEW k \in Calls, Settle(k) PROVE UnderWay'
  BY <1>5, <1>t, SettleUnderWay
<1>6. CASE UNCHANGED vars \/ \E c \in Cameras : Expire(c)
  BY <1>6, <1>t, UnderWayStays DEF Expire, vars
<1> QED
  BY <1>1, <1>2, <1>3, <1>4, <1>5, <1>6 DEF Next, Request, JobStep

\* A call never awaits a capture that nobody will end: it is under way, and if it
\* is in line a slot is held by a capture whose release wakes the line
\* (posterInFlight and withPosterCaptureSlot lose no wake-up).
THEOREM AwaitedAlwaysUnderWay == Spec => []AwaitedUnderWay
<1>1. Init => UnderWay
  BY DEF Init, UnderWay, FlightsUnderWay
<1>2. Inv /\ UnderWay /\ [Next]_vars => UnderWay'
  BY UnderWayStep
<1>3. Inv /\ UnderWay => AwaitedUnderWay
  <2> SUFFICES ASSUME Inv, UnderWay, NEW k \in Calls, waits[k] # None
               PROVE  /\ job[waits[k]] # "none"
                      /\ job[waits[k]] = "waiting" => Holders \ {waits[k]} # {}
    BY DEF AwaitedUnderWay
  <2>1. waits[k] \in Calls /\ job[waits[k]] # "none"
    BY DEF Inv, TypeOK, UnderWay
  <2>2. ASSUME job[waits[k]] = "waiting" PROVE Holders \ {waits[k]} # {}
    <3>1. waiters # <<>>
      BY <2>1, <2>2 DEF Inv, LineInv
    <3>2. Holders # {}
      BY <3>1, MaxAssumption, FS_EmptySet DEF Inv, NoIdleSlot, CounterCounts
    <3> QED
      BY <2>2, <3>2 DEF Holders
  <2> QED
    BY <2>1, <2>2
<1> QED
  BY <1>1, <1>2, <1>3, InvHolds, PTL DEF Spec

-----------------------------------------------------------------------------
\* Slots counts as FiniteSets does.
LEMMA SameCount == Pool!Cardinality(Holders) = Cardinality(Holders)
BY Zenon DEF Pool!Cardinality, Cardinality

\* A capture that starts enters the pool.
LEMMA StartEnters ==
    ASSUME Inv, NEW k \in Calls, NEW c \in Cameras, job[k] = "none", StartCapture(k, c)
    PROVE  Pool!Enter(k)
<1> USE DEF Inv
<1>1. Pool!Absent(k)
  BY DEF Pool!Absent, Holders, LineInv
<1>2. CASE active < Max
  <2>1. active' = active + 1 /\ Goto(k, "capture") /\ waiters' = waiters /\ waiters = <<>>
    BY <1>2, MaxAssumption DEF StartCapture, Acquire, NoIdleSlot, TypeOK
  <2>2. Holders' = Holders \cup {k}
    BY <2>1, JoinsHolders
  <2>3. Cardinality(Holders) < Max
    BY <1>2 DEF CounterCounts
  <2> QED
    BY <1>1, <2>1, <2>2, <2>3, SameCount DEF Pool!Enter
<1>3. CASE ~(active < Max)
  <2>1. active = Max /\ waiters' = Append(waiters, k) /\ Goto(k, "waiting")
    BY <1>3, MaxAssumption DEF StartCapture, Acquire, TypeOK
  <2>2. Holders' = Holders
    BY <2>1, SameHolders DEF Stages
  <2>3. Cardinality(Holders) = Max
    BY <2>1 DEF CounterCounts
  <2> QED
    BY <1>1, <2>1, <2>2, <2>3, SameCount DEF Pool!Enter
<1> QED
  BY <1>2, <1>3

\* A capture that gives its slot back leaves the pool.
LEMMA ReleaseLeaves ==
    ASSUME Inv, NEW k \in Calls, Release(k)
    PROVE  Pool!Leave(k)
<1> USE DEF Inv
<1>1. k \in Holders
  BY DEF Release, Holders
<1>2. CASE waiters # <<>>
  <2>1. Head(waiters) \in Calls /\ job[Head(waiters)] = "waiting"
    BY <1>2, HeadWaits
  <2> QED
    BY <1>1, <1>2, <2>1, HandsOn DEF Release, Pool!Leave
<1>3. CASE waiters = <<>>
  BY <1>1, <1>3, LeavesHolders DEF Release, Pool!Leave
<1> QED
  BY <1>2, <1>3

\* withPosterCaptureSlot implements a pool of posterMaxConcurrency slots with a
\* line: nobody waits while a slot is free, nobody overtakes.
THEOREM ImplementsSlots == Spec => SlotsSpec
<1>1. Init => Pool!Init
  BY DEF Init, Pool!Init, Holders
<1>2. Inv /\ [Next]_vars => [Pool!Next]_(Pool!vars)
  <2> SUFFICES ASSUME Inv, [Next]_vars PROVE Pool!Next \/ UNCHANGED <<Holders, waiters>>
    BY DEF Pool!vars
  <2>t. TypeOK
    BY DEF Inv
  <2>1. ASSUME NEW k \in Calls, NEW c \in Cameras, Refresh(k, c) \/ First(k, c)
        PROVE  Pool!Next
    BY <2>1, StartEnters DEF Refresh, First, Over, Pool!Next
  <2>2. ASSUME NEW k \in Calls, Release(k) PROVE Pool!Next
    BY <2>2, ReleaseLeaves DEF Pool!Next
  <2>3. ASSUME NEW k \in Calls, Resume(k) \/ CaptureEnds(k) \/ Settle(k)
        PROVE  UNCHANGED <<Holders, waiters>>
    BY <2>3, <2>t, SameHolders DEF Resume, CaptureEnds, Settle, Stages, slotVars
  <2>4. ASSUME NEW k \in Calls, NEW c \in Cameras, Join(k, c)
        PROVE  UNCHANGED <<Holders, waiters>>
    BY <2>4 DEF Join, slotVars, Holders
  <2>5. ASSUME NEW c \in Cameras, Expire(c)
        PROVE  UNCHANGED <<Holders, waiters>>
    BY <2>5 DEF Expire, slotVars, Holders
  <2>6. CASE UNCHANGED vars
    BY <2>6 DEF vars, Holders
  <2> QED
    BY <2>1, <2>2, <2>3, <2>4, <2>5, <2>6 DEF Next, Request, JobStep
<1> QED
  BY <1>1, <1>2, InvHolds, PTL DEF Spec, SlotsSpec, Pool!Spec
=============================================================================
