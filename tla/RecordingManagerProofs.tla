----------------------- MODULE RecordingManagerProofs -----------------------
(***************************************************************************)
(* The safety invariants of RecordingManager, for every number of handlers *)
(* in flight, of FFmpeg processes and every set of admitted operations.    *)
(*                                                                         *)
(* The argument: the map's entry and every process a handler waits for are *)
(* processes that exist (a process identity is reused only once nothing    *)
(* refers to it), and a handler waits only for a process it has signalled. *)
(*                                                                         *)
(* With one handler at a time and no failing query, a disabled camera that *)
(* still records is the one the handler under way is stopping, which makes *)
(* a disabled camera at rest a camera that does not record.                *)
(***************************************************************************)
EXTENDS RecordingManager, TLAPS

\* Rows and the helpers that update the variables of a call.

LEMMA NoRowIsRow == NoRow \in Row
BY DEF NoRow, Row, Modes

LEMMA RowUpdates ==
    ASSUME NEW r \in Row, NEW flag \in BOOLEAN, NEW m \in Modes
    PROVE  /\ [r EXCEPT !.recordingEnabled = flag, !.mode = m] \in Row
           /\ [r EXCEPT !.recordingEnabled = flag, !.mode = m].recordingEnabled = flag
           /\ [r EXCEPT !.recordingEnabled = flag] \in Row
           /\ [r EXCEPT !.enabled = flag] \in Row
           /\ r.enabled \in BOOLEAN
           /\ r.recordingEnabled \in BOOLEAN
           /\ r.mode \in Modes
BY DEF Row

\* The variables of the calls have their types.
CallTypeOK ==
    /\ pc \in [Calls -> PCs]
    /\ kind \in [Calls -> Kinds \cup {"none"}]
    /\ own \in [Calls -> Procs \cup {NoProc}]
    /\ \A c \in Calls : pc[c] \in HoldsProcess => own[c] \in Procs
    /\ saw \in [Calls -> Row]

LEMMA GotoType ==
    ASSUME CallTypeOK, NEW c \in Calls, NEW l \in PCs \ HoldsProcess, Goto(c, l),
           UNCHANGED <<kind, own, saw>>
    PROVE  CallTypeOK'
BY DEF CallTypeOK, Goto

LEMMA ReturnType ==
    ASSUME CallTypeOK, NEW c \in Calls, Return(c)
    PROVE  CallTypeOK'
<1>1. "idle" \in PCs \ HoldsProcess
    BY DEF PCs, HoldsProcess
<1>2. QED BY <1>1, NoRowIsRow DEF CallTypeOK, Return, Goto

\* A call that goes on after dropping its process.
LEMMA DropType ==
    ASSUME CallTypeOK, NEW c \in Calls, NEW l \in PCs \ HoldsProcess, Goto(c, l),
           own' = [own EXCEPT ![c] = NoProc], UNCHANGED <<kind, saw>>
    PROVE  CallTypeOK'
BY DEF CallTypeOK, Goto

\* A call that goes on after reading the row.
LEMMA ReadType ==
    ASSUME CallTypeOK, NEW c \in Calls, NEW l \in PCs \ HoldsProcess, Goto(c, l),
           NEW r \in Row, saw' = [saw EXCEPT ![c] = r], UNCHANGED <<kind, own>>
    PROVE  CallTypeOK'
BY DEF CallTypeOK, Goto

\* A call that starts to wait for a process.
LEMMA HoldType ==
    ASSUME CallTypeOK, NEW c \in Calls, NEW l \in PCs, Goto(c, l),
           NEW p \in Procs, own' = [own EXCEPT ![c] = p], UNCHANGED <<kind, saw>>
    PROVE  CallTypeOK'
BY DEF CallTypeOK, Goto

LEMMA StartReturnsType ==
    ASSUME CallTypeOK, NEW c \in Calls, StartReturns(c)
    PROVE  CallTypeOK'
<1>1. "motionEvent" \in PCs \ HoldsProcess
    BY DEF PCs, HoldsProcess
<1>2. QED BY <1>1, ReturnType, DropType DEF StartReturns

LEMMA StopReturnsType ==
    ASSUME CallTypeOK, NEW c \in Calls, StopReturns(c)
    PROVE  CallTypeOK'
<1>1. {"start", "setMode"} \subseteq PCs \ HoldsProcess
    BY DEF PCs, HoldsProcess
<1>2. CASE kind[c] \in {"arm", "disarm"} \cup RestartKinds
    <2> DEFINE l == IF kind[c] \in RestartKinds THEN "start" ELSE "setMode"
    <2>1. l \in PCs \ HoldsProcess
        BY <1>1
    <2>2. Goto(c, l) /\ own' = [own EXCEPT ![c] = NoProc] /\ UNCHANGED <<kind, saw>>
        BY <1>2 DEF StopReturns
    <2> HIDE DEF l
    <2>3. QED BY <2>1, <2>2, DropType
<1>3. CASE kind[c] \notin {"arm", "disarm"} \cup RestartKinds
    BY <1>3, ReturnType DEF StopReturns
<1>4. QED BY <1>2, <1>3

LEMMA ModeAfterType ==
    ASSUME row \in Row, NEW c \in Calls
    PROVE  ModeAfter(c) \in Modes
BY RowUpdates DEF ModeAfter, Modes

-----------------------------------------------------------------------------
LEMMA InitTypeOK == Init => TypeOK
<1> SUFFICES ASSUME Init PROVE TypeOK
    OBVIOUS
<1>1. "idle" \in PCs /\ "idle" \notin HoldsProcess
    BY DEF PCs, HoldsProcess
<1>2. QED BY <1>1, NoRowIsRow DEF Init, TypeOK

\* TypeOK: every variable stays in its type, and a handler that waits for the
\* end of a process holds a process.
LEMMA NextTypeOK == TypeOK /\ [Next]_vars => TypeOK'
<1> SUFFICES ASSUME TypeOK, [Next]_vars PROVE TypeOK'
    OBVIOUS
<1> USE DEF TypeOK
<1>0. CallTypeOK
    BY DEF CallTypeOK
<1>1. CASE UNCHANGED vars
    BY <1>1 DEF vars
<1>2. ASSUME NEW c \in Calls, HandlerBegins(c) PROVE TypeOK'
    <2>1. ASSUME NEW k \in Kinds, NEW l \in PCs \ HoldsProcess, Begin(c, k, l),
                 motionStopTimer' \in BOOLEAN
          PROVE  TypeOK'
        BY <2>1 DEF Begin, Goto
    <2>2. {"start", "stop", "motionRead", "wasEnabled", "quietRead"} \subseteq PCs \ HoldsProcess
        BY DEF PCs, HoldsProcess
    <2>3. {"userStart", "userStop", "motion", "guardStop", "arm", "disarm", "quiet"}
              \cup UpdateKinds \cup {"restart", "reconnect", "fps"} \subseteq Kinds
        BY DEF Kinds, RestartKinds, HealthKinds
    <2>4. CASE Request(c)
        <3>1. motionStopTimer' \in BOOLEAN
            BY <2>4 DEF Request
        <3>2. PICK k \in Kinds, l \in PCs \ HoldsProcess : Begin(c, k, l)
            BY <2>2, <2>3, <2>4 DEF Request
        <3>3. QED BY <2>1, <3>1, <3>2
    <2>5. CASE DiskGuard(c)
        BY <2>1, <2>2, <2>3, <2>5 DEF DiskGuard
    <2>6. CASE SetMotionRecording(c)
        BY <2>1, <2>2, <2>3, <2>6 DEF SetMotionRecording
    <2>7. CASE HealthTick(c)
        BY <2>1, <2>2, <2>3, <2>7 DEF HealthTick
    <2>8. CASE MotionTimerFires(c)
        BY <2>2, <2>3, <2>8 DEF MotionTimerFires, Goto
    <2>9. QED BY <1>2, <2>4, <2>5, <2>6, <2>7, <2>8 DEF HandlerBegins
<1>3. ASSUME NEW c \in Calls, StartStep(c) PROVE TypeOK'
    <2>1. {"startCheck", "startProbe", "startResolve", "startCommit"} \subseteq PCs \ HoldsProcess
        BY DEF PCs, HoldsProcess
    <2>2. CASE StartGate(c)
        <3>1. CallTypeOK'
            BY <1>0, <2>1, <2>2, GotoType, ReturnType DEF StartGate
        <3>2. QED BY <2>2, <3>1 DEF StartGate, serviceVars, CallTypeOK
    <2>3. CASE StartFails(c)
        <3>1. CallTypeOK'
            BY <1>0, <2>3, ReturnType DEF StartFails
        <3>2. QED BY <2>3, <3>1 DEF StartFails, serviceVars, CallTypeOK
    <2>4. CASE StartCheck(c)
        <3>1. CallTypeOK'
            BY <1>0, <2>1, <2>4, GotoType DEF StartCheck
        <3>2. QED BY <2>4, <3>1 DEF StartCheck, serviceVars, CallTypeOK
    <2>5. ASSUME NEW p \in Procs, StartSpawn(c, p) PROVE TypeOK'
        <3>1. CallTypeOK'
            BY <1>0, <2>1, <2>5, HoldType DEF StartSpawn
        <3>2. QED BY <2>5, <3>1 DEF StartSpawn, CallTypeOK
    <2>6. CASE StartResolve(c)
        <3>1. CallTypeOK'
            BY <1>0, <2>1, <2>6, ReadType DEF StartResolve
        <3>2. QED BY <2>6, <3>1 DEF StartResolve, serviceVars, CallTypeOK
    <2>7. CASE StartCommit(c)
        <3>1. CallTypeOK'
            BY <1>0, <2>7, StartReturnsType DEF StartCommit
        <3>2. row' \in Row
            BY <2>7, ModeAfterType, RowUpdates DEF StartCommit
        <3>3. QED BY <2>7, <3>1, <3>2 DEF StartCommit, serviceVars, CallTypeOK
    <2>8. CASE StartCommitFails(c)
        <3>1. CASE own[c] = NoProc
            <4>1. CallTypeOK'
                BY <1>0, <2>8, <3>1, ReturnType DEF StartCommitFails
            <4>2. QED BY <2>8, <3>1, <4>1 DEF StartCommitFails, serviceVars, CallTypeOK
        <3>2. CASE own[c] # NoProc
            <4>1. Goto(c, "abortWait") /\ Kill(own[c]) /\ UNCHANGED <<kind, own, saw>>
                BY <2>8, <3>2 DEF StartCommitFails
            <4>2. "abortWait" \in PCs
                BY DEF PCs
            <4>3. CallTypeOK'
                BY <3>2, <4>1, <4>2 DEF Goto, CallTypeOK
            <4>4. proc' \in [Procs -> {"none", "running", "terminating", "exited"}]
                BY <4>1 DEF Kill
            <4>5. QED BY <2>8, <4>3, <4>4 DEF StartCommitFails, serviceVars, CallTypeOK
        <3>3. QED BY <3>1, <3>2
    <2>9. QED BY <1>3, <2>2, <2>3, <2>4, <2>5, <2>6, <2>7, <2>8 DEF StartStep
<1>4. ASSUME NEW c \in Calls, StopStep(c) PROVE TypeOK'
    <2>1. {"stopCommit", "stopTake", "setMode"} \subseteq PCs \ HoldsProcess
        BY DEF PCs, HoldsProcess
    <2>2. CASE StopResolve(c)
        <3>1. CallTypeOK'
            BY <1>0, <2>1, <2>2, ReadType DEF StopResolve
        <3>2. QED BY <2>2, <3>1 DEF StopResolve, serviceVars, CallTypeOK
    <2>3. CASE StopCommit(c)
        <3>1. CallTypeOK'
            BY <1>0, <2>1, <2>3, GotoType DEF StopCommit
        <3>2. row' \in Row
            BY <2>3, ModeAfterType, RowUpdates DEF StopCommit
        <3>3. QED BY <2>3, <3>1, <3>2 DEF StopCommit, serviceVars, CallTypeOK
    <2>4. CASE StopCommitFails(c)
        <3>1. CallTypeOK'
            BY <1>0, <2>1, <2>4, GotoType, ReturnType DEF StopCommitFails, StopThrows
        <3>2. QED BY <2>4, <3>1 DEF StopCommitFails, serviceVars, CallTypeOK
    <2>5. CASE StopTake(c)
        <3>1. CASE active = NoProc
            <4>1. CallTypeOK'
                BY <1>0, <2>5, <3>1, StopReturnsType DEF StopTake
            <4>2. QED BY <2>5, <3>1, <4>1 DEF StopTake, serviceVars, CallTypeOK
        <3>2. CASE active # NoProc
            <4>1. "stopWait" \in PCs
                BY DEF PCs
            <4>2. CallTypeOK'
                BY <1>0, <2>5, <3>2, <4>1, HoldType DEF StopTake
            <4>3. proc' \in [Procs -> {"none", "running", "terminating", "exited"}]
                BY <2>5, <3>2 DEF StopTake, Kill
            <4>4. QED BY <2>5, <4>2, <4>3 DEF StopTake, serviceVars, CallTypeOK
        <3>3. QED BY <3>1, <3>2
    <2>6. CASE ProcessWaited(c)
        <3>1. {"stopFinal", "abortFinal"} \subseteq PCs /\ pc[c] \in HoldsProcess
            BY <2>6 DEF PCs, HoldsProcess, ProcessWaited
        <3>2. CallTypeOK'
            BY <2>6, <3>1 DEF ProcessWaited, Goto, CallTypeOK
        <3>3. fin' \in [Procs -> {"no", "scanning", "done"}]
            BY <2>6 DEF ProcessWaited, BeginFinalize
        <3>4. QED BY <2>6, <3>2, <3>3 DEF ProcessWaited, CallTypeOK
    <2>7. CASE Finalized(c)
        <3>1. CallTypeOK'
            BY <1>0, <2>7, StopReturnsType, ReturnType DEF Finalized
        <3>2. QED BY <2>7, <3>1 DEF Finalized, serviceVars, CallTypeOK
    <2>8. QED BY <1>4, <2>2, <2>3, <2>4, <2>5, <2>6, <2>7 DEF StopStep
<1>5. ASSUME NEW c \in Calls, OtherStep(c) PROVE TypeOK'
    <2>1. {"motionStatus", "motionActive", "start", "stop", "readExisting", "write",
           "provision"} \subseteq PCs \ HoldsProcess
        BY DEF PCs, HoldsProcess
    <2>2. CASE SetMode(c)
        <3>1. CallTypeOK'
            BY <1>0, <2>2, ReturnType DEF SetMode
        <3>2. row' \in Row
            BY <2>2, RowUpdates DEF SetMode, Modes
        <3>3. QED BY <2>2, <3>1, <3>2 DEF SetMode, serviceVars, CallTypeOK
    <2>3. CASE MotionRead(c)
        <3>1. CallTypeOK'
            BY <1>0, <2>1, <2>3, GotoType, ReturnType DEF MotionRead
        <3>2. QED BY <2>3, <3>1 DEF MotionRead, serviceVars, CallTypeOK
    <2>4. CASE MotionStatus(c)
        <3>1. [row EXCEPT !.recordingEnabled = @ /\ age # "old"] \in Row
            BY DEF Row
        <3>2. CallTypeOK'
            BY <1>0, <2>1, <2>4, <3>1, ReadType DEF MotionStatus
        <3>3. QED BY <2>4, <3>2 DEF MotionStatus, serviceVars, CallTypeOK
    <2>5. CASE MotionActive(c)
        <3>1. CallTypeOK'
            BY <1>0, <2>1, <2>5, GotoType, ReturnType DEF MotionActive
        <3>2. QED BY <2>5, <3>1 DEF MotionActive, CallTypeOK
    <2>6. CASE MotionEvent(c)
        <3>1. CallTypeOK'
            BY <1>0, <2>6, ReturnType DEF MotionEvent
        <3>2. QED BY <2>6, <3>1 DEF MotionEvent, CallTypeOK
    <2>7. CASE WriteFails(c)
        <3>1. CallTypeOK'
            BY <1>0, <2>7, ReturnType DEF WriteFails
        <3>2. QED BY <2>7, <3>1 DEF WriteFails, serviceVars, CallTypeOK
    <2>8. CASE QuietRead(c)
        <3>1. CallTypeOK'
            BY <1>0, <2>1, <2>8, GotoType, ReturnType DEF QuietRead
        <3>2. QED BY <2>8, <3>1 DEF QuietRead, serviceVars, CallTypeOK
    <2>9. CASE WasEnabled(c)
        <3>1. CallTypeOK'
            BY <1>0, <2>1, <2>9, ReadType DEF WasEnabled
        <3>2. QED BY <2>9, <3>1 DEF WasEnabled, serviceVars, CallTypeOK
    <2>10. CASE ReadExisting(c)
        <3> DEFINE flag == IF kind[c] = "patch" THEN row.enabled ELSE kind[c] = "enable"
        <3>1. flag \in BOOLEAN
            BY DEF Row
        <3>2. [row EXCEPT !.enabled = flag] \in Row
            BY <3>1 DEF Row
        <3>3. saw' = [saw EXCEPT ![c] = [row EXCEPT !.enabled = flag]]
            BY <2>10 DEF ReadExisting
        <3>4. kind' \in [Calls -> Kinds \cup {"none"}]
            BY <2>10 DEF ReadExisting, Kinds, UpdateKinds
        <3> HIDE DEF flag
        <3>5. CallTypeOK'
            BY <2>1, <2>10, <3>2, <3>3, <3>4 DEF ReadExisting, Goto, CallTypeOK
        <3>6. QED BY <2>10, <3>5 DEF ReadExisting, serviceVars, CallTypeOK
    <2>11. CASE WriteRow(c)
        <3>1. CallTypeOK'
            BY <1>0, <2>1, <2>11, GotoType, ReturnType DEF WriteRow
        <3>2. row' \in Row
            <4>1. saw[c].enabled \in BOOLEAN
                BY DEF Row
            <4>2. QED BY <2>11, <4>1 DEF WriteRow, Row
        <3>3. QED BY <2>11, <3>1, <3>2 DEF WriteRow, serviceVars, CallTypeOK
    <2>12. CASE Provision(c)
        <3>1. CallTypeOK'
            BY <1>0, <2>1, <2>12, GotoType, ReturnType DEF Provision
        <3>2. QED BY <2>12, <3>1 DEF Provision, serviceVars, CallTypeOK
    <2>13. CASE BootRead(c)
        <3>1. CallTypeOK'
            BY <1>0, <2>1, <2>13, GotoType, ReturnType DEF BootRead
        <3>2. QED BY <2>13, <3>1 DEF BootRead, serviceVars, CallTypeOK
    <2>14. QED BY <1>5, <2>2, <2>3, <2>4, <2>5, <2>6, <2>7, <2>8, <2>9,
                  <2>10, <2>11, <2>12, <2>13 DEF OtherStep
<1>6. ASSUME NEW p \in Procs, ProcessStep(p) PROVE TypeOK'
    <2>1. CASE ProcessDies(p)
        BY <2>1 DEF ProcessDies, serviceVars, callVars
    <2>2. CASE ProcessKilled(p)
        BY <2>2 DEF ProcessKilled, serviceVars, callVars
    <2>3. CASE OnClose(p)
        BY <2>3 DEF OnClose, BeginFinalize, callVars
    <2>4. CASE OnError(p)
        BY <2>4 DEF OnError, BeginFinalize, callVars
    <2>5. CASE LateDisable(p)
        <3>1. row' \in Row
            BY <2>5, RowUpdates DEF LateDisable, Row
        <3>2. QED BY <2>5, <3>1 DEF LateDisable, callVars
    <2>6. CASE FinalizeEnds(p)
        BY <2>6 DEF FinalizeEnds, callVars, Ages
    <2>7. QED BY <1>6, <2>1, <2>2, <2>3, <2>4, <2>5, <2>6 DEF ProcessStep
<1>7. CASE SegmentRegistered
    BY <1>7 DEF SegmentRegistered, serviceVars, callVars, Ages
<1>8. CASE TimePasses
    BY <1>8 DEF TimePasses, serviceVars, callVars, Ages
<1>9. CASE Crash
    <2>1. {"bootRead", "idle"} \subseteq PCs \ HoldsProcess /\ "boot" \in Kinds
        BY DEF PCs, HoldsProcess, Kinds
    <2>2. proc' \in [Procs -> {"none", "running", "terminating", "exited"}]
              /\ fin' \in [Procs -> {"no", "scanning", "done"}]
        BY <1>9 DEF Crash
    <2>3. CallTypeOK'
        BY <1>9, <2>1, NoRowIsRow DEF Crash, CallTypeOK
    <2>4. QED BY <1>9, <2>2, <2>3 DEF Crash, CallTypeOK
<1>10. QED
    BY <1>1, <1>2, <1>3, <1>4, <1>5, <1>6, <1>7, <1>8, <1>9 DEF Next, HandlerStep

\* Type correctness of the recording manager.
THEOREM TypeCorrect == Spec => []TypeOK
BY InitTypeOK, NextTypeOK, PTL DEF Spec

-----------------------------------------------------------------------------
\* Every reference the service holds is to a process that was spawned, and a
\* process a handler waits for has been signalled or has exited.
RefsAreLive ==
    /\ active # NoProc => proc[active] # "none"
    /\ \A c \in Calls : own[c] # NoProc => proc[own[c]] # "none"
    /\ \A c \in Calls : pc[c] \in HoldsProcess => proc[own[c]] \in {"terminating", "exited"}

\* The inductive invariant: what the map says of processes and finalizations.
MapInv ==
    /\ TypeOK
    /\ RefsAreLive
    /\ NewestIsTracked
    /\ NoFinishedEntry
    /\ FinalScanAfterSignal

\* Steps that leave the map and the processes alone, after which no call refers
\* to, or waits for, a process it did not refer to or wait for before.
MapUntouched == UNCHANGED <<active, proc, fin, newest>>
OnlyDrops ==
    \A d \in Calls :
        /\ own'[d] \in {own[d], NoProc}
        /\ pc'[d] \in HoldsProcess => pc[d] \in HoldsProcess /\ own'[d] = own[d]

LEMMA UntouchedKeepsMapInv ==
    ASSUME MapInv, TypeOK', MapUntouched, OnlyDrops
    PROVE  MapInv'
BY DEF MapInv, MapUntouched, OnlyDrops, RefsAreLive, NewestIsTracked, NoFinishedEntry,
       FinalScanAfterSignal

LEMMA GotoDrops ==
    ASSUME TypeOK, NEW c \in Calls, NEW l, l \notin HoldsProcess, Goto(c, l),
           own' = own \/ own' = [own EXCEPT ![c] = NoProc]
    PROVE  OnlyDrops
BY DEF TypeOK, Goto, OnlyDrops

LEMMA ReturnDrops ==
    ASSUME TypeOK, NEW c \in Calls, Return(c)
    PROVE  OnlyDrops
BY GotoDrops DEF Return, HoldsProcess

LEMMA StartReturnsDrops ==
    ASSUME TypeOK, NEW c \in Calls, StartReturns(c)
    PROVE  OnlyDrops
BY GotoDrops, ReturnDrops DEF StartReturns, HoldsProcess

LEMMA StopReturnsDrops ==
    ASSUME TypeOK, NEW c \in Calls, StopReturns(c)
    PROVE  OnlyDrops
<1>1. CASE kind[c] \in {"arm", "disarm"} \cup RestartKinds
    <2> DEFINE l == IF kind[c] \in RestartKinds THEN "start" ELSE "setMode"
    <2>1. l \notin HoldsProcess
        BY DEF HoldsProcess
    <2>2. Goto(c, l) /\ own' = [own EXCEPT ![c] = NoProc]
        BY <1>1 DEF StopReturns
    <2> HIDE DEF l
    <2>3. QED BY <2>1, <2>2, GotoDrops
<1>2. CASE kind[c] \notin {"arm", "disarm"} \cup RestartKinds
    BY <1>2, ReturnDrops DEF StopReturns
<1>3. QED BY <1>1, <1>2

\* A handler that begins does not touch the map.
LEMMA BeginsUntouched ==
    ASSUME TypeOK, NEW c \in Calls, HandlerBegins(c)
    PROVE  MapUntouched /\ OnlyDrops
<1> USE DEF HoldsProcess
<1>1. ASSUME NEW k, NEW l, l \notin HoldsProcess, Begin(c, k, l)
      PROVE  MapUntouched /\ OnlyDrops
    BY <1>1, GotoDrops DEF Begin, MapUntouched
<1>2. CASE Request(c)
    BY <1>1, <1>2 DEF Request
<1>3. CASE DiskGuard(c)
    BY <1>1, <1>3 DEF DiskGuard
<1>4. CASE SetMotionRecording(c)
    BY <1>1, <1>4 DEF SetMotionRecording
<1>5. CASE HealthTick(c)
    BY <1>1, <1>5 DEF HealthTick
<1>6. CASE MotionTimerFires(c)
    BY <1>6, GotoDrops DEF MotionTimerFires, MapUntouched
<1>7. QED BY <1>2, <1>3, <1>4, <1>5, <1>6 DEF HandlerBegins

\* Neither do the steps of setMotionRecording, of the motion handlers and of the
\* PATCH handlers.
LEMMA OtherUntouched ==
    ASSUME TypeOK, NEW c \in Calls, OtherStep(c)
    PROVE  MapUntouched /\ OnlyDrops
<1> USE DEF HoldsProcess, MapUntouched, serviceVars
<1>1. CASE SetMode(c)
    BY <1>1, ReturnDrops DEF SetMode
<1>2. CASE MotionRead(c)
    BY <1>2, GotoDrops, ReturnDrops DEF MotionRead
<1>3. CASE MotionStatus(c)
    BY <1>3, GotoDrops DEF MotionStatus
<1>4. CASE MotionActive(c)
    BY <1>4, GotoDrops, ReturnDrops DEF MotionActive
<1>5. CASE MotionEvent(c)
    BY <1>5, ReturnDrops DEF MotionEvent
<1>6. CASE WriteFails(c)
    BY <1>6, ReturnDrops DEF WriteFails
<1>7. CASE QuietRead(c)
    BY <1>7, GotoDrops, ReturnDrops DEF QuietRead
<1>8. CASE WasEnabled(c)
    BY <1>8, GotoDrops DEF WasEnabled
<1>9. CASE ReadExisting(c)
    BY <1>9, GotoDrops DEF ReadExisting
<1>10. CASE WriteRow(c)
    BY <1>10, GotoDrops, ReturnDrops DEF WriteRow
<1>11. CASE Provision(c)
    BY <1>11, GotoDrops, ReturnDrops DEF Provision
<1>12. CASE BootRead(c)
    BY <1>12, GotoDrops, ReturnDrops DEF BootRead
<1>13. QED BY <1>1, <1>2, <1>3, <1>4, <1>5, <1>6, <1>7, <1>8, <1>9, <1>10, <1>11,
             <1>12 DEF OtherStep

\* Types, stated for the variables the map's invariants relate.
MapTypeOK ==
    /\ active \in Procs \cup {NoProc}
    /\ proc \in [Procs -> {"none", "running", "terminating", "exited"}]
    /\ fin \in [Procs -> {"no", "scanning", "done"}]
    /\ newest \in Procs \cup {NoProc}
    /\ pc \in [Calls -> PCs]
    /\ own \in [Calls -> Procs \cup {NoProc}]
    /\ \A c \in Calls : pc[c] \in HoldsProcess => own[c] \in Procs

\* The steps that do touch the map or a process, one lemma for each.

LEMMA SpawnKeepsMapInv ==
    ASSUME MapInv, TypeOK', NEW c \in Calls, NEW p \in Procs, StartSpawn(c, p)
    PROVE  MapInv'
<1>1. MapTypeOK
    BY DEF MapInv, TypeOK, MapTypeOK
<1>2. \A d \in Calls : own[d] # p
    BY DEF StartSpawn, Unused
<1>3. pc'[c] \notin HoldsProcess /\ \A d \in Calls \ {c} : pc'[d] = pc[d] /\ own'[d] = own[d]
    BY <1>1 DEF StartSpawn, Goto, MapTypeOK, HoldsProcess
<1>4. proc'[p] = "running" /\ fin'[p] = "no" /\ own'[c] = p
    BY <1>1 DEF StartSpawn, MapTypeOK
<1>5. \A q \in Procs \ {p} : proc'[q] = proc[q] /\ fin'[q] = fin[q]
    BY <1>1 DEF StartSpawn, MapTypeOK
<1>6. active' = p /\ newest' = p
    BY DEF StartSpawn
<1>7. RefsAreLive'
    BY <1>1, <1>2, <1>3, <1>4, <1>5, <1>6 DEF MapInv, RefsAreLive, MapTypeOK
<1>8. NewestIsTracked' /\ NoFinishedEntry'
    BY <1>4, <1>6 DEF NewestIsTracked, NoFinishedEntry
<1>9. FinalScanAfterSignal'
    BY <1>4, <1>5 DEF MapInv, FinalScanAfterSignal
<1>10. QED BY <1>7, <1>8, <1>9 DEF MapInv

\* A signal to a process that exists, by a call that may go on to wait for it.
LEMMA KillKeepsMapInv ==
    ASSUME MapInv, TypeOK', NEW c \in Calls, NEW p \in Procs, proc[p] # "none", Kill(p),
           UNCHANGED <<active, fin, newest>>,
           own'[c] = p, \A d \in Calls \ {c} : pc'[d] = pc[d] /\ own'[d] = own[d]
    PROVE  MapInv'
<1>1. MapTypeOK
    BY DEF MapInv, TypeOK, MapTypeOK
<1>2. proc'[p] \in {"terminating", "exited"}
    BY <1>1 DEF Kill, MapTypeOK
<1>3. \A q \in Procs \ {p} : proc'[q] = proc[q]
    BY <1>1 DEF Kill, MapTypeOK
<1>4. RefsAreLive'
    BY <1>1, <1>2, <1>3 DEF MapInv, RefsAreLive, MapTypeOK
<1>5. NewestIsTracked' /\ NoFinishedEntry'
    BY DEF MapInv, NewestIsTracked, NoFinishedEntry
<1>6. FinalScanAfterSignal'
    BY <1>2, <1>3 DEF MapInv, FinalScanAfterSignal
<1>7. QED BY <1>4, <1>5, <1>6 DEF MapInv

\* The final scan of a process that was signalled begins.
LEMMA FinalizeKeepsMapInv ==
    ASSUME MapInv, TypeOK', NEW p \in Procs, BeginFinalize(p),
           proc'[p] \in {"terminating", "exited"},
           \A q \in Procs : proc'[q] \in {proc[q], "exited"},
           UNCHANGED <<active, newest, own>>,
           \A d \in Calls : pc'[d] \in HoldsProcess => pc[d] \in HoldsProcess
    PROVE  MapInv'
<1>1. MapTypeOK
    BY DEF MapInv, TypeOK, MapTypeOK
<1>2. \A q \in Procs : fin'[q] = fin[q] \/ (q = p /\ fin[q] = "no" /\ fin'[q] = "scanning")
    BY <1>1 DEF BeginFinalize, MapTypeOK
<1>3. RefsAreLive'
    BY <1>1 DEF MapInv, RefsAreLive, MapTypeOK
<1>4. NewestIsTracked' /\ NoFinishedEntry'
    BY <1>1, <1>2 DEF MapInv, NewestIsTracked, NoFinishedEntry, MapTypeOK
<1>5. FinalScanAfterSignal'
    BY <1>2 DEF MapInv, FinalScanAfterSignal
<1>6. QED BY <1>3, <1>4, <1>5 DEF MapInv

LEMMA ProcessKeepsMapInv ==
    ASSUME MapInv, TypeOK', NEW p \in Procs, ProcessStep(p)
    PROVE  MapInv'
<1>1. MapTypeOK
    BY DEF MapInv, TypeOK, MapTypeOK
<1>2. ASSUME proc' = [proc EXCEPT ![p] = "exited"], proc[p] # "none",
             UNCHANGED <<serviceVars, callVars>>
      PROVE  MapInv'
    BY <1>1, <1>2 DEF MapInv, MapTypeOK, RefsAreLive, NewestIsTracked, NoFinishedEntry,
                      FinalScanAfterSignal, serviceVars, callVars
<1>3. CASE ProcessDies(p)
    BY <1>2, <1>3 DEF ProcessDies
<1>4. CASE ProcessKilled(p)
    BY <1>2, <1>4 DEF ProcessKilled
<1>5. CASE OnClose(p)
    <2>1. proc'[p] = "exited" /\ \A q \in Procs : proc'[q] = proc[q]
        BY <1>5 DEF OnClose
    <2>2. QED BY <1>5, <2>1, FinalizeKeepsMapInv DEF OnClose, callVars
<1>6. CASE OnError(p)
    <2>1. proc'[p] = "exited" /\ \A q \in Procs : proc'[q] \in {proc[q], "exited"}
        BY <1>1, <1>6 DEF OnError, MapTypeOK
    <2>2. QED BY <1>6, <2>1, FinalizeKeepsMapInv DEF OnError, callVars
<1>7. CASE LateDisable(p)
    BY <1>7, UntouchedKeepsMapInv DEF LateDisable, MapUntouched, OnlyDrops, callVars
<1>8. CASE FinalizeEnds(p)
    <2>1. fin'[p] = "done" /\ \A q \in Procs \ {p} : fin'[q] = fin[q]
        BY <1>1, <1>8 DEF FinalizeEnds, MapTypeOK
    <2>2. active' = (IF active = p THEN NoProc ELSE active) /\ newest' = newest
              /\ fin[p] = "scanning" /\ UNCHANGED <<proc, pc, own>>
        BY <1>8 DEF FinalizeEnds, callVars
    <2>3. RefsAreLive' /\ FinalScanAfterSignal'
        BY <2>1, <2>2 DEF MapInv, RefsAreLive, FinalScanAfterSignal
    <2>4. NewestIsTracked' /\ NoFinishedEntry'
        BY <1>1, <2>1, <2>2, NoProcAssumption
           DEF MapInv, MapTypeOK, NewestIsTracked, NoFinishedEntry
    <2>5. QED BY <2>3, <2>4 DEF MapInv
<1>9. QED BY <1>3, <1>4, <1>5, <1>6, <1>7, <1>8 DEF ProcessStep

LEMMA NextMapInv == MapInv /\ [Next]_vars => MapInv'
<1> SUFFICES ASSUME MapInv, [Next]_vars PROVE MapInv'
    OBVIOUS
<1>1. TypeOK /\ TypeOK'
    BY NextTypeOK DEF MapInv
<1>2. MapTypeOK
    BY <1>1 DEF TypeOK, MapTypeOK
<1>3. CASE UNCHANGED vars
    BY <1>1, <1>3, UntouchedKeepsMapInv DEF vars, MapUntouched, OnlyDrops
<1>4. ASSUME NEW c \in Calls, HandlerBegins(c) \/ OtherStep(c) PROVE MapInv'
    BY <1>1, <1>4, BeginsUntouched, OtherUntouched, UntouchedKeepsMapInv
<1>5. ASSUME NEW c \in Calls, StartStep(c) PROVE MapInv'
    <2>1. ASSUME MapUntouched, OnlyDrops PROVE MapInv'
        BY <1>1, <2>1, UntouchedKeepsMapInv
    <2> USE DEF HoldsProcess, MapUntouched, serviceVars
    <2>2. CASE StartGate(c)
        BY <1>1, <2>1, <2>2, GotoDrops, ReturnDrops DEF StartGate
    <2>3. CASE StartFails(c)
        BY <1>1, <2>1, <2>3, ReturnDrops DEF StartFails
    <2>4. CASE StartCheck(c)
        BY <1>1, <2>1, <2>4, GotoDrops DEF StartCheck
    <2>5. ASSUME NEW p \in Procs, StartSpawn(c, p) PROVE MapInv'
        BY <1>1, <2>5, SpawnKeepsMapInv
    <2>6. CASE StartResolve(c)
        BY <1>1, <2>1, <2>6, GotoDrops DEF StartResolve
    <2>7. CASE StartCommit(c)
        BY <1>1, <2>1, <2>7, StartReturnsDrops DEF StartCommit
    <2>8. CASE StartCommitFails(c)
        <3>1. CASE own[c] = NoProc
            BY <1>1, <2>1, <2>8, <3>1, ReturnDrops DEF StartCommitFails
        <3>2. CASE own[c] # NoProc
            <4>1. own[c] \in Procs /\ proc[own[c]] # "none"
                BY <1>2, <3>2 DEF MapTypeOK, MapInv, RefsAreLive
            <4>2. Kill(own[c]) /\ own' = own /\ Goto(c, "abortWait")
                BY <2>8, <3>2 DEF StartCommitFails
            <4>3. UNCHANGED <<active, fin, newest>>
                BY <2>8 DEF StartCommitFails
            <4>4. \A d \in Calls \ {c} : pc'[d] = pc[d]
                BY <1>2, <4>2 DEF Goto, MapTypeOK
            <4>5. QED BY <1>1, <4>1, <4>2, <4>3, <4>4, KillKeepsMapInv
        <3>3. QED BY <3>1, <3>2
    <2>9. QED BY <1>5, <2>2, <2>3, <2>4, <2>5, <2>6, <2>7, <2>8 DEF StartStep
<1>6. ASSUME NEW c \in Calls, StopStep(c) PROVE MapInv'
    <2>1. ASSUME MapUntouched, OnlyDrops PROVE MapInv'
        BY <1>1, <2>1, UntouchedKeepsMapInv
    <2> USE DEF HoldsProcess, MapUntouched, serviceVars
    <2>2. CASE StopResolve(c)
        BY <1>1, <2>1, <2>2, GotoDrops DEF StopResolve
    <2>3. CASE StopCommit(c)
        BY <1>1, <2>1, <2>3, GotoDrops DEF StopCommit
    <2>4. CASE StopCommitFails(c)
        BY <1>1, <2>1, <2>4, GotoDrops, ReturnDrops DEF StopCommitFails, StopThrows
    <2>5. CASE StopTake(c)
        <3>1. CASE active = NoProc
            BY <1>1, <2>1, <2>5, <3>1, StopReturnsDrops DEF StopTake
        <3>2. CASE active # NoProc
            <4>1. active \in Procs /\ proc[active] # "none"
                BY <1>2, <3>2 DEF MapTypeOK, MapInv, RefsAreLive
            <4>2. Kill(active) /\ own' = [own EXCEPT ![c] = active] /\ Goto(c, "stopWait")
                BY <2>5, <3>2 DEF StopTake
            <4>3. UNCHANGED <<active, fin, newest>>
                BY <2>5 DEF StopTake
            <4>4. own'[c] = active /\ \A d \in Calls \ {c} : pc'[d] = pc[d] /\ own'[d] = own[d]
                BY <1>2, <4>2 DEF Goto, MapTypeOK
            <4>5. QED BY <1>1, <4>1, <4>2, <4>3, <4>4, KillKeepsMapInv
        <3>3. QED BY <3>1, <3>2
    <2>6. CASE ProcessWaited(c)
        <3>1. own[c] \in Procs /\ proc[own[c]] \in {"terminating", "exited"}
            BY <1>2, <2>6 DEF ProcessWaited, MapInv, RefsAreLive, MapTypeOK
        <3>2. BeginFinalize(own[c]) /\ UNCHANGED <<active, newest, own, proc>>
            BY <2>6 DEF ProcessWaited
        <3>3. \A d \in Calls : pc'[d] \in HoldsProcess => pc[d] \in HoldsProcess
            BY <1>2, <2>6 DEF ProcessWaited, Goto, MapTypeOK
        <3> HIDE DEF HoldsProcess, MapUntouched, serviceVars
        <3>4. QED BY <1>1, <3>1, <3>2, <3>3, FinalizeKeepsMapInv
    <2>7. CASE Finalized(c)
        BY <1>1, <2>1, <2>7, StopReturnsDrops, ReturnDrops DEF Finalized
    <2>8. QED BY <1>6, <2>2, <2>3, <2>4, <2>5, <2>6, <2>7 DEF StopStep
<1>7. ASSUME NEW p \in Procs, ProcessStep(p) PROVE MapInv'
    BY <1>1, <1>7, ProcessKeepsMapInv
<1>8. CASE SegmentRegistered \/ TimePasses
    BY <1>1, <1>8, UntouchedKeepsMapInv
       DEF SegmentRegistered, TimePasses, MapUntouched, OnlyDrops, serviceVars, callVars
<1>9. CASE Crash
    <2>1. active' = NoProc /\ newest' = NoProc /\ fin' = [p \in Procs |-> "no"]
        BY <1>9 DEF Crash
    <2>2. \A d \in Calls : own'[d] = NoProc /\ pc'[d] \notin HoldsProcess
        BY <1>9 DEF Crash, HoldsProcess
    <2>3. QED BY <1>1, <2>1, <2>2 DEF MapInv, RefsAreLive, NewestIsTracked,
                                      NoFinishedEntry, FinalScanAfterSignal
<1>10. QED
    BY <1>3, <1>4, <1>5, <1>6, <1>7, <1>8, <1>9 DEF Next, HandlerStep

LEMMA InitMapInv == Init => MapInv
<1> SUFFICES ASSUME Init PROVE MapInv
    OBVIOUS
<1>1. TypeOK
    BY InitTypeOK
<1>2. RefsAreLive
    BY DEF Init, RefsAreLive, HoldsProcess
<1>3. QED BY <1>1, <1>2 DEF Init, MapInv, NewestIsTracked, NoFinishedEntry, FinalScanAfterSignal

LEMMA MapInvHolds == Spec => []MapInv
BY InitMapInv, NextMapInv, PTL DEF Spec

\* A stale finalization never takes the process spawned last out of the map.
THEOREM NewestAlwaysTracked == Spec => []NewestIsTracked
<1>1. MapInv => NewestIsTracked
    BY DEF MapInv
<1>2. QED BY <1>1, MapInvHolds, PTL

\* The map never keeps an entry whose finalization is over.
THEOREM NoEntryOutlivesItsProcess == Spec => []NoFinishedEntry
<1>1. MapInv => NoFinishedEntry
    BY DEF MapInv
<1>2. QED BY <1>1, MapInvHolds, PTL

\* The final scan of a process begins after it exited or was signalled.
THEOREM FinalScanIsLate == Spec => []FinalScanAfterSignal
<1>1. MapInv => FinalScanAfterSignal
    BY DEF MapInv
<1>2. QED BY <1>1, MapInvHolds, PTL

-----------------------------------------------------------------------------
\* stop() answers recording_stopped only once the entry it took is gone.
THEOREM StopsRelease == Spec => StopReleases
<1> DEFINE Released == \A c \in Calls : pc[c] = "stopFinal" /\ pc'[c] # "stopFinal"
                                          => active' # own[c]
<1>1. ASSUME MapInv, [Next]_vars, NEW c \in Calls, pc[c] = "stopFinal", pc'[c] # "stopFinal"
      PROVE  active' # own[c]
    <2>1. MapTypeOK /\ MapInv'
        BY <1>1, NextMapInv DEF MapInv, TypeOK, MapTypeOK
    <2>2. own[c] \in Procs
        BY <1>1, <2>1 DEF MapTypeOK, HoldsProcess
    <2>3. CASE Finalized(c)
        <3>1. fin[own[c]] = "done" /\ active' = active
            BY <2>3 DEF Finalized, serviceVars
        <3>2. QED BY <1>1, <2>2, <3>1, NoProcAssumption DEF MapInv, NoFinishedEntry
    <2>4. CASE Crash
        BY <2>2, <2>4, NoProcAssumption DEF Crash
    <2>5. CASE UNCHANGED pc
        BY <1>1, <2>5
    <2>6. ASSUME NEW d \in Calls, d # c, HandlerBegins(d) \/ HandlerStep(d)
          PROVE  pc'[c] = pc[c]
        BY <2>1, <2>6
           DEF MapTypeOK, HandlerBegins, HandlerStep, StartStep, StopStep, OtherStep,
               Request, DiskGuard, SetMotionRecording, HealthTick, MotionTimerFires, Begin,
               StartGate, StartFails, StartCheck, StartSpawn, StartResolve, StartCommit,
               StartCommitFails, StopResolve, StopCommit, StopCommitFails, StopTake,
               ProcessWaited, Finalized, SetMode, MotionRead, MotionStatus, MotionActive,
               MotionEvent, WriteFails, QuietRead, WasEnabled, ReadExisting, WriteRow,
               Provision, BootRead, StartReturns, StopReturns, StopThrows, Return, Goto
    <2>7. ASSUME HandlerBegins(c) \/ HandlerStep(c), ~Finalized(c)
          PROVE  FALSE
        BY <1>1, <2>7
           DEF HandlerBegins, HandlerStep, StartStep, StopStep, OtherStep,
               Request, DiskGuard, SetMotionRecording, HealthTick, MotionTimerFires, Begin, Idle,
               StartGate, StartFails, StartCheck, StartSpawn, StartResolve, StartCommit,
               StartCommitFails, StopResolve, StopCommit, StopCommitFails, StopTake,
               ProcessWaited, SetMode, MotionRead, MotionStatus, MotionActive,
               MotionEvent, WriteFails, QuietRead, WasEnabled, ReadExisting, WriteRow,
               Provision, BootRead
    <2>8. (\E p \in Procs : ProcessStep(p)) \/ SegmentRegistered \/ TimePasses \/ UNCHANGED vars
              => UNCHANGED pc
        BY DEF ProcessStep, ProcessDies, ProcessKilled, OnClose, OnError, LateDisable,
               FinalizeEnds, SegmentRegistered, TimePasses, callVars, vars
    <2>9. QED
        BY <1>1, <2>3, <2>4, <2>5, <2>6, <2>7, <2>8 DEF Next
<1>2. MapInv /\ [Next]_vars => [Released]_vars
    BY <1>1
<1>3. QED BY <1>2, MapInvHolds, PTL DEF Spec, StopReleases

-----------------------------------------------------------------------------
\* A handler never waits for a promise nobody has made: what is safe about StopEnds.
ScanBegun == \A c \in Calls : pc[c] \in {"stopFinal", "abortFinal"} => fin[own[c]] # "no"

\* A step after which the calls that wait waited before, for the same scans, and
\* no scan is taken back.
LEMMA ScanStays ==
    ASSUME ScanBegun, TypeOK,
           \A c \in Calls : pc'[c] \in {"stopFinal", "abortFinal"} =>
               pc[c] \in {"stopFinal", "abortFinal"} /\ own'[c] = own[c],
           \A c \in Calls : own[c] \in Procs /\ fin[own[c]] # "no" => fin'[own[c]] # "no"
    PROVE  ScanBegun'
BY DEF ScanBegun, TypeOK, HoldsProcess

LEMMA BeginFinalizeBegins ==
    ASSUME TypeOK, NEW p \in Procs, BeginFinalize(p)
    PROVE  fin'[p] # "no" /\ \A q \in Procs : fin[q] # "no" => fin'[q] # "no"
BY DEF TypeOK, BeginFinalize

LEMMA ScanStep ==
    ASSUME TypeOK, ScanBegun, [Next]_vars
    PROVE  ScanBegun'
<1>1. /\ pc \in [Calls -> PCs] /\ own \in [Calls -> Procs \cup {NoProc}]
      /\ fin \in [Procs -> {"no", "scanning", "done"}]
    BY DEF TypeOK
<1>2. ASSUME NEW c \in Calls, NEW l, Goto(c, l), l \notin {"stopFinal", "abortFinal"},
             own' = own \/ own' = [own EXCEPT ![c] = NoProc] \/ own' = [own EXCEPT ![c] = active],
             fin' = fin
      PROVE  ScanBegun'
    BY <1>1, <1>2, ScanStays DEF Goto
<1>3. ASSUME NEW c \in Calls, Return(c), fin' = fin PROVE ScanBegun'
    BY <1>2, <1>3 DEF Return
<1>4. ASSUME NEW c \in Calls, HandlerBegins(c) PROVE ScanBegun'
    BY <1>2, <1>4
       DEF HandlerBegins, Request, DiskGuard, SetMotionRecording, HealthTick,
           MotionTimerFires, Begin
<1>5. ASSUME NEW c \in Calls, NEW p \in Procs, StartSpawn(c, p) PROVE ScanBegun'
    <2>1. \A d \in Calls : pc'[d] = (IF d = c THEN "startResolve" ELSE pc[d])
                           /\ own'[d] = IF d = c THEN p ELSE own[d]
        BY <1>1, <1>5 DEF StartSpawn, Goto
    <2>2. \A d \in Calls : own[d] # p
        BY <1>5 DEF StartSpawn, Unused
    <2>3. \A q \in Procs \ {p} : fin'[q] = fin[q]
        BY <1>1, <1>5 DEF StartSpawn
    <2>4. QED BY <2>1, <2>2, <2>3, ScanStays
<1>6. ASSUME NEW c \in Calls, StartStep(c) PROVE ScanBegun'
    BY <1>2, <1>3, <1>5, <1>6
       DEF StartStep, StartGate, StartFails, StartCheck, StartResolve, StartCommit,
           StartCommitFails, StartReturns, serviceVars
<1>7. ASSUME NEW c \in Calls, ProcessWaited(c) PROVE ScanBegun'
    <2>1. own[c] \in Procs /\ BeginFinalize(own[c]) /\ own' = own
        BY <1>7 DEF ProcessWaited, TypeOK, HoldsProcess
    <2>2. fin'[own[c]] # "no" /\ \A q \in Procs : fin[q] # "no" => fin'[q] # "no"
        BY <2>1, BeginFinalizeBegins
    <2>3. \A d \in Calls \ {c} : pc'[d] = pc[d]
        BY <1>1, <1>7 DEF ProcessWaited, Goto
    <2>4. QED BY <2>1, <2>2, <2>3 DEF ScanBegun, TypeOK, HoldsProcess
<1>8. ASSUME NEW c \in Calls, StopStep(c) PROVE ScanBegun'
    <2>1. ASSUME StopReturns(c), fin' = fin PROVE ScanBegun'
        BY <1>2, <1>3, <2>1 DEF StopReturns
    <2>2. CASE StopResolve(c) \/ StopCommit(c) \/ StopCommitFails(c)
        BY <1>2, <1>3, <2>2 DEF StopResolve, StopCommit, StopCommitFails, StopThrows, serviceVars
    <2>3. CASE StopTake(c)
        BY <1>2, <2>1, <2>3 DEF StopTake, serviceVars
    <2>4. CASE Finalized(c)
        BY <1>3, <2>1, <2>4 DEF Finalized, serviceVars
    <2>5. QED BY <1>7, <1>8, <2>2, <2>3, <2>4 DEF StopStep
<1>9. ASSUME NEW c \in Calls, OtherStep(c) PROVE ScanBegun'
    BY <1>2, <1>3, <1>9
       DEF OtherStep, SetMode, MotionRead, MotionStatus, MotionActive, MotionEvent,
           WriteFails, QuietRead, WasEnabled, ReadExisting, WriteRow, Provision,
           BootRead, serviceVars
<1>10. ASSUME NEW p \in Procs, ProcessStep(p) PROVE ScanBegun'
    <2>1. UNCHANGED <<pc, own>>
        BY <1>10 DEF ProcessStep, ProcessDies, ProcessKilled, OnClose, OnError, LateDisable,
                     FinalizeEnds, callVars
    <2>2. \A q \in Procs : fin[q] # "no" => fin'[q] # "no"
        <3>1. CASE OnClose(p) \/ OnError(p)
            BY <3>1, BeginFinalizeBegins DEF OnClose, OnError
        <3>2. CASE FinalizeEnds(p)
            BY <1>1, <3>2 DEF FinalizeEnds
        <3>3. QED BY <1>10, <3>1, <3>2
                     DEF ProcessStep, ProcessDies, ProcessKilled, LateDisable, serviceVars
    <2>3. QED BY <2>1, <2>2, ScanStays
<1>11. CASE SegmentRegistered \/ TimePasses \/ UNCHANGED vars
    BY <1>11, ScanStays DEF SegmentRegistered, TimePasses, serviceVars, callVars, vars
<1>12. CASE Crash
    BY <1>12 DEF Crash, ScanBegun
<1>13. QED BY <1>4, <1>6, <1>8, <1>9, <1>10, <1>11, <1>12 DEF Next, HandlerStep

\* A stop, or a start that takes its process down again, waits only for a final
\* scan that has begun and whose end the fairness of the scans brings, however
\* many handlers share or restart the camera's recording meanwhile.
THEOREM ScansAwaitedHaveBegun == Spec => []ScanBegun
<1>1. Init => ScanBegun
    BY DEF Init, ScanBegun
<1>2. TypeOK /\ ScanBegun /\ [Next]_vars => ScanBegun'
    BY ScanStep
<1>3. QED BY <1>1, <1>2, TypeCorrect, PTL DEF Spec

-----------------------------------------------------------------------------
\* The database's mark follows the process, when the operations that write the
\* mark without looking at the process are left out.

\* A call is a handler of an admitted operation, one that clears the mark blindly
\* is of one of the blind operations.
KindsInv ==
    /\ lateDisable = {}
    /\ \A c \in Calls :
         /\ kind[c] \notin BlindOps
         /\ pc[c] \notin {"setMode", "wasEnabled", "readExisting", "write"}

\* The inductive invariant for the mark.
FlagInv == MapInv /\ KindsInv /\ FlagFollowsProcess

LEMMA KindsStep ==
    ASSUME Ops \cap BlindOps = {}, TypeOK, KindsInv, [Next]_vars
    PROVE  KindsInv'
<1> USE DEF KindsInv
<1>1. /\ pc \in [Calls -> PCs]
      /\ kind \in [Calls -> Kinds \cup {"none"}]
    BY DEF TypeOK
<1>2. ASSUME NEW c \in Calls, HandlerBegins(c) PROVE KindsInv'
    <2>1. ASSUME NEW k \in Ops, NEW l \in {"start", "stop", "motionRead", "quietRead"},
                 Goto(c, l), kind' = [kind EXCEPT ![c] = k], lateDisable' = lateDisable
          PROVE  KindsInv'
        BY <1>1, <2>1 DEF Goto
    <2>2. \A k \in UpdateKinds \cup {"arm", "disarm"} : k \notin Ops
        BY DEF BlindOps
    <2>3. CASE Request(c)
        BY <2>1, <2>2, <2>3 DEF Request, Begin
    <2>4. CASE DiskGuard(c)
        BY <2>1, <2>4 DEF DiskGuard, Begin
    <2>5. CASE SetMotionRecording(c)
        BY <2>2, <2>5 DEF SetMotionRecording, Begin
    <2>6. CASE HealthTick(c)
        BY <2>1, <2>6 DEF HealthTick, Begin
    <2>7. CASE MotionTimerFires(c)
        BY <1>1, <2>7 DEF MotionTimerFires, Goto, BlindOps, UpdateKinds
    <2>8. QED BY <1>2, <2>3, <2>4, <2>5, <2>6, <2>7 DEF HandlerBegins
<1>3. ASSUME NEW c \in Calls, NEW l, Goto(c, l),
             l \notin {"setMode", "wasEnabled", "readExisting", "write"},
             kind' = kind \/ kind' = [kind EXCEPT ![c] = "none"], lateDisable' = lateDisable
      PROVE  KindsInv'
    BY <1>1, <1>3 DEF Goto, BlindOps, UpdateKinds
<1>4. ASSUME NEW c \in Calls, Return(c), lateDisable' = lateDisable PROVE KindsInv'
    BY <1>3, <1>4 DEF Return
<1>5. \A c \in Calls : kind[c] \notin {"arm", "disarm"}
    BY DEF BlindOps
<1>6. ASSUME NEW c \in Calls, StartStep(c) PROVE KindsInv'
    <2> USE DEF serviceVars
    <2>1. CASE StartGate(c)
        BY <1>3, <1>4, <2>1 DEF StartGate
    <2>2. CASE StartFails(c)
        BY <1>4, <2>2 DEF StartFails
    <2>3. CASE StartCheck(c)
        BY <1>3, <2>3 DEF StartCheck
    <2>4. ASSUME NEW p \in Procs, StartSpawn(c, p) PROVE KindsInv'
        BY <1>3, <2>4 DEF StartSpawn
    <2>5. CASE StartResolve(c)
        BY <1>3, <2>5 DEF StartResolve
    <2>6. CASE StartCommit(c)
        BY <1>3, <1>4, <2>6 DEF StartCommit, StartReturns
    <2>7. CASE StartCommitFails(c)
        BY <1>3, <1>4, <2>7 DEF StartCommitFails
    <2>8. QED BY <1>6, <2>1, <2>2, <2>3, <2>4, <2>5, <2>6, <2>7 DEF StartStep
<1>7. ASSUME NEW c \in Calls, StopStep(c) PROVE KindsInv'
    <2> USE DEF serviceVars
    <2>1. ASSUME StopReturns(c), lateDisable' = lateDisable PROVE KindsInv'
        BY <1>3, <1>4, <1>5, <2>1 DEF StopReturns
    <2>2. CASE StopResolve(c)
        BY <1>3, <2>2 DEF StopResolve
    <2>3. CASE StopCommit(c)
        BY <1>3, <2>3 DEF StopCommit
    <2>4. CASE StopCommitFails(c)
        BY <1>4, <1>5, <2>4 DEF StopCommitFails, StopThrows
    <2>5. CASE StopTake(c)
        BY <1>3, <2>1, <2>5 DEF StopTake
    <2>6. CASE ProcessWaited(c)
        BY <1>3, <2>6 DEF ProcessWaited
    <2>7. CASE Finalized(c)
        BY <1>4, <2>1, <2>7 DEF Finalized
    <2>8. QED BY <1>7, <2>2, <2>3, <2>4, <2>5, <2>6, <2>7 DEF StopStep
<1>8. ASSUME NEW c \in Calls, OtherStep(c) PROVE KindsInv'
    <2> USE DEF serviceVars
    <2>1. CASE MotionRead(c)
        BY <1>3, <1>4, <2>1 DEF MotionRead
    <2>2. CASE MotionStatus(c)
        BY <1>3, <2>2 DEF MotionStatus
    <2>3. CASE MotionActive(c)
        BY <1>3, <1>4, <2>3 DEF MotionActive
    <2>4. CASE MotionEvent(c)
        BY <1>4, <2>4 DEF MotionEvent
    <2>5. CASE WriteFails(c)
        BY <1>4, <2>5 DEF WriteFails
    <2>6. CASE QuietRead(c)
        BY <1>3, <1>4, <2>6 DEF QuietRead
    <2>7. CASE Provision(c)
        BY <1>3, <1>4, <2>7 DEF Provision
    <2>8. CASE BootRead(c)
        BY <1>3, <1>4, <2>8 DEF BootRead
    <2>9. ~(SetMode(c) \/ WasEnabled(c) \/ ReadExisting(c) \/ WriteRow(c))
        BY DEF SetMode, WasEnabled, ReadExisting, WriteRow
    <2>10. QED BY <1>8, <2>1, <2>2, <2>3, <2>4, <2>5, <2>6, <2>7, <2>8, <2>9 DEF OtherStep
<1>9. ASSUME NEW p \in Procs, ProcessStep(p) PROVE KindsInv'
    BY <1>9 DEF ProcessStep, ProcessDies, ProcessKilled, OnClose, OnError, LateDisable,
                FinalizeEnds, serviceVars, callVars, BlindOps
<1>10. CASE SegmentRegistered \/ TimePasses \/ UNCHANGED vars
    BY <1>10 DEF SegmentRegistered, TimePasses, serviceVars, callVars, vars
<1>11. CASE Crash
    BY <1>11 DEF Crash, BlindOps, UpdateKinds
<1>12. QED
    BY <1>2, <1>6, <1>7, <1>8, <1>9, <1>10, <1>11 DEF Next, HandlerStep

\* A step of a call that neither marks nor takes, and leaves the row, the map and
\* the processes alone, leaves the mark and the process as they are.
LEMMA FlagFrame ==
    ASSUME FlagFollowsProcess, NEW c \in Calls,
           pc[c] \notin {"startResolve", "startCommit", "stopTake"},
           \A d \in Calls \ {c} : pc'[d] = pc[d] /\ own'[d] = own[d],
           UNCHANGED <<active, proc, row>>
    PROVE  FlagFollowsProcess'
BY DEF FlagFollowsProcess

\* The steps of a call change that call's variables only.
LEMMA OthersUnchanged ==
    ASSUME TypeOK, NEW c \in Calls, HandlerBegins(c) \/ HandlerStep(c)
    PROVE  \A d \in Calls \ {c} : pc'[d] = pc[d] /\ own'[d] = own[d]
<1>1. /\ pc \in [Calls -> PCs]
      /\ own \in [Calls -> Procs \cup {NoProc}]
    BY DEF TypeOK
<1>2. CASE HandlerBegins(c)
    BY <1>1, <1>2
       DEF HandlerBegins, Request, DiskGuard, SetMotionRecording, HealthTick,
           MotionTimerFires, Begin, Goto
<1>3. CASE StartStep(c)
    BY <1>1, <1>3
       DEF StartStep, StartGate, StartFails, StartCheck, StartSpawn, StartResolve,
           StartCommit, StartCommitFails, StartReturns, Return, Goto
<1>4. CASE StopStep(c)
    BY <1>1, <1>4
       DEF StopStep, StopResolve, StopCommit, StopCommitFails, StopTake, ProcessWaited,
           Finalized, StopReturns, StopThrows, Return, Goto
<1>5. CASE OtherStep(c)
    BY <1>1, <1>5
       DEF OtherStep, SetMode, MotionRead, MotionStatus, MotionActive, MotionEvent,
           WriteFails, QuietRead, WasEnabled, ReadExisting, WriteRow, Provision,
           BootRead, Return, Goto
<1>6. QED BY <1>2, <1>3, <1>4, <1>5 DEF HandlerStep

LEMMA FlagStep ==
    ASSUME FlagInv, [Next]_vars
    PROVE  FlagFollowsProcess'
<1>1. /\ pc \in [Calls -> PCs]
      /\ own \in [Calls -> Procs \cup {NoProc}]
      /\ proc \in [Procs -> {"none", "running", "terminating", "exited"}]
      /\ active \in Procs \cup {NoProc}
      /\ row \in [enabled : BOOLEAN, recordingEnabled : BOOLEAN, mode : Modes]
      /\ TypeOK /\ FlagFollowsProcess
    BY DEF FlagInv, MapInv, TypeOK, Row
<1>2. ASSUME NEW c \in Calls, HandlerBegins(c) PROVE FlagFollowsProcess'
    <2>1. pc[c] = "idle" /\ UNCHANGED <<active, proc, row>>
        BY <1>2 DEF HandlerBegins, Request, DiskGuard, SetMotionRecording, HealthTick,
                    MotionTimerFires, Begin, Idle
    <2>2. QED BY <1>1, <1>2, <2>1, OthersUnchanged, FlagFrame
<1>3. ASSUME NEW c \in Calls, StartStep(c) PROVE FlagFollowsProcess'
    <2>1. \A d \in Calls \ {c} : pc'[d] = pc[d] /\ own'[d] = own[d]
        BY <1>1, <1>3, OthersUnchanged DEF HandlerStep
    <2>2. CASE StartGate(c) \/ StartFails(c) \/ StartCheck(c)
        BY <1>1, <2>1, <2>2, FlagFrame DEF StartGate, StartFails, StartCheck, serviceVars
    <2>3. ASSUME NEW p \in Procs, StartSpawn(c, p) PROVE FlagFollowsProcess'
        BY <1>1, <2>3 DEF StartSpawn, Goto, FlagFollowsProcess
    <2>4. CASE StartResolve(c)
        BY <1>1, <2>1, <2>4 DEF StartResolve, Goto, serviceVars, FlagFollowsProcess
    <2>5. CASE StartCommit(c)
        <3>1. row' = [row EXCEPT !.recordingEnabled = TRUE, !.mode = ModeAfter(c)]
            BY <2>5 DEF StartCommit
        <3>2. row \in Row /\ ModeAfter(c) \in Modes
            BY <1>1, ModeAfterType DEF TypeOK
        <3>3. row'.recordingEnabled = TRUE
            BY <3>1, <3>2, RowUpdates
        <3>4. QED BY <3>3 DEF FlagFollowsProcess
    <2>6. CASE StartCommitFails(c)
        <3>1. UNCHANGED <<active, row>>
            BY <2>6 DEF StartCommitFails, serviceVars
        <3>2. CASE own[c] = NoProc
            BY <1>1, <2>1, <2>6, <3>1, <3>2 DEF StartCommitFails, FlagFollowsProcess
        <3>3. CASE own[c] # NoProc
            <4>1. Kill(own[c]) /\ own[c] \in Procs
                BY <1>1, <2>6, <3>3 DEF StartCommitFails
            <4>2. proc'[own[c]] # "running" /\ \A q \in Procs \ {own[c]} : proc'[q] = proc[q]
                BY <1>1, <4>1 DEF Kill
            <4>3. pc[c] = "startCommit" /\ own' = own
                BY <2>6, <3>3 DEF StartCommitFails
            <4>4. CASE own[c] = active
                BY <3>1, <4>2, <4>4 DEF FlagFollowsProcess
            <4>5. CASE own[c] # active
                BY <1>1, <2>1, <3>1, <4>2, <4>3, <4>5 DEF FlagFollowsProcess
            <4>6. QED BY <4>4, <4>5
        <3>4. QED BY <3>2, <3>3
    <2>7. QED BY <1>3, <2>2, <2>3, <2>4, <2>5, <2>6 DEF StartStep
<1>4. ASSUME NEW c \in Calls, StopStep(c) PROVE FlagFollowsProcess'
    <2>1. \A d \in Calls \ {c} : pc'[d] = pc[d] /\ own'[d] = own[d]
        BY <1>1, <1>4, OthersUnchanged DEF HandlerStep
    <2>2. CASE StopResolve(c) \/ StopCommitFails(c) \/ Finalized(c)
        BY <1>1, <2>1, <2>2, FlagFrame DEF StopResolve, StopCommitFails, Finalized, serviceVars
    <2>3. CASE ProcessWaited(c)
        BY <1>1, <2>1, <2>3, FlagFrame DEF ProcessWaited
    <2>4. CASE StopCommit(c)
        BY <1>1, <2>4 DEF StopCommit, Goto, FlagFollowsProcess
    <2>5. CASE StopTake(c)
        <3>1. active' = active
            BY <2>5 DEF StopTake, serviceVars
        <3>2. active # NoProc => proc'[active] # "running"
            BY <1>1, <2>5 DEF StopTake, Kill
        <3>3. QED BY <3>1, <3>2 DEF FlagFollowsProcess
    <2>6. QED BY <1>4, <2>2, <2>3, <2>4, <2>5 DEF StopStep
<1>5. ASSUME NEW c \in Calls, OtherStep(c) PROVE FlagFollowsProcess'
    <2>1. \A d \in Calls \ {c} : pc'[d] = pc[d] /\ own'[d] = own[d]
        BY <1>1, <1>5, OthersUnchanged DEF HandlerStep
    <2>2. pc[c] \notin {"setMode", "write"}
        BY DEF FlagInv, KindsInv
    <2>3. UNCHANGED <<active, proc, row>> /\ pc[c] \notin {"startResolve", "startCommit", "stopTake"}
        BY <1>5, <2>2 DEF OtherStep, SetMode, MotionRead, MotionStatus, MotionActive,
               MotionEvent, WriteFails, QuietRead, WasEnabled, ReadExisting, WriteRow,
               Provision, BootRead, serviceVars
    <2>4. QED BY <1>1, <2>1, <2>3, FlagFrame
<1>6. ASSUME NEW p \in Procs, ProcessStep(p) PROVE FlagFollowsProcess'
    <2>1. ~LateDisable(p)
        BY DEF LateDisable, FlagInv, KindsInv
    <2>2. \A q \in Procs : proc'[q] = "running" => proc[q] = "running"
        BY <1>1, <1>6, <2>1 DEF ProcessStep, ProcessDies, ProcessKilled, OnClose, OnError, FinalizeEnds
    <2>3. UNCHANGED <<row, pc, own>> /\ active' \in {active, NoProc}
        BY <1>6, <2>1 DEF ProcessStep, ProcessDies, ProcessKilled, OnClose, OnError,
                          FinalizeEnds, serviceVars, callVars
    <2>4. QED BY <1>1, <2>2, <2>3 DEF FlagFollowsProcess
<1>7. CASE SegmentRegistered \/ TimePasses \/ UNCHANGED vars
    BY <1>1, <1>7 DEF SegmentRegistered, TimePasses, serviceVars, callVars, vars, FlagFollowsProcess
<1>8. CASE Crash
    BY <1>8 DEF Crash, FlagFollowsProcess
<1>9. QED BY <1>2, <1>3, <1>4, <1>5, <1>6, <1>7, <1>8 DEF Next, HandlerStep

\* A recording that nobody is stopping is marked in the database, or about to be.
THEOREM FlagAlwaysFollows ==
    ASSUME Ops \cap BlindOps = {}
    PROVE  Spec => []FlagFollowsProcess
<1>1. Init => FlagInv
    <2> SUFFICES ASSUME Init PROVE FlagInv
        OBVIOUS
    <2>1. KindsInv /\ FlagFollowsProcess
        BY DEF Init, KindsInv, FlagFollowsProcess, BlindOps, UpdateKinds
    <2>2. QED BY <2>1, InitMapInv DEF FlagInv
<1>2. FlagInv /\ [Next]_vars => FlagInv'
    <2> SUFFICES ASSUME FlagInv, [Next]_vars PROVE FlagInv'
        OBVIOUS
    <2>1. TypeOK /\ KindsInv /\ MapInv
        BY DEF FlagInv, MapInv
    <2>2. KindsInv'
        BY <2>1, KindsStep
    <2>3. QED BY <2>1, <2>2, NextMapInv, FlagStep DEF FlagInv
<1>3. FlagInv => FlagFollowsProcess
    BY DEF FlagInv
<1>4. QED BY <1>1, <1>2, <1>3, PTL DEF Spec

-----------------------------------------------------------------------------
\* One handler at a time. What a handler read is then still so when it acts on
\* it, unless it has written it itself; FFmpeg ends meanwhile as it likes.
OneCall == \A c, d \in Calls : c = d

SawRow(c) ==
    /\ pc[c] \in {"startCommit", "stopCommit"} => saw[c].mode = row.mode
    /\ pc[c] \in {"wasEnabled", "readExisting", "write"} => kind[c] \in UpdateKinds
    /\ pc[c] = "readExisting" => saw[c].enabled = row.enabled
    /\ pc[c] = "write" => /\ kind[c] = "patch" => saw[c].enabled = row.enabled
                          /\ kind[c] = "enable" => saw[c].enabled

\* A start spawns for an enabled camera without an entry.
MaySpawn(c) ==
    /\ pc[c] \in {"startCheck", "startProbe"} => row.enabled
    /\ pc[c] = "startProbe" => active = NoProc
CallSees(c) == SawRow(c) /\ MaySpawn(c)

\* A running process is the camera's entry, so that a stop reaches it.
RunningIsTracked == \A p \in Procs : proc[p] = "running" => active = p

SeqInv == MapInv /\ RunningIsTracked /\ \A c \in Calls : CallSees(c)

LEMMA RowAt ==
    ASSUME TypeOK
    PROVE  row.enabled \in BOOLEAN /\ row.recordingEnabled \in BOOLEAN /\ row.mode \in Modes
BY DEF TypeOK, Row

\* A call that goes on to where nothing is expected of what it saw.
Unexpecting == PCs \ {"startCommit", "stopCommit", "wasEnabled", "readExisting", "write",
                      "startCheck", "startProbe"}
LEMMA LeavesOff ==
    ASSUME OneCall, TypeOK, NEW c \in Calls, pc'[c] \in Unexpecting
    PROVE  \A d \in Calls : CallSees(d)'
BY DEF OneCall, CallSees, SawRow, MaySpawn, Unexpecting

LEMMA LeavesByReturn ==
    ASSUME OneCall, TypeOK, NEW c \in Calls,
           Return(c) \/ StartReturns(c) \/ StopReturns(c) \/ StopThrows(c)
    PROVE  \A d \in Calls : CallSees(d)'
<1>1. pc'[c] \in {"idle", "motionEvent", "start", "setMode"}
    BY DEF TypeOK, Return, StartReturns, StopReturns, StopThrows, Goto
<1>2. QED BY <1>1, LeavesOff DEF Unexpecting, PCs

LEMMA LeavesByGoto ==
    ASSUME OneCall, TypeOK, NEW c \in Calls, NEW l \in Unexpecting, Goto(c, l)
    PROVE  \A d \in Calls : CallSees(d)'
<1>1. pc'[c] = l
    BY DEF TypeOK, Goto
<1>2. QED BY <1>1, LeavesOff

LEMMA CallSeesStep ==
    ASSUME OneCall, SeqInv, NEW c \in Calls, HandlerBegins(c) \/ HandlerStep(c)
    PROVE  \A d \in Calls : CallSees(d)'
<1>1. TypeOK /\ CallSees(c) /\ pc \in [Calls -> PCs] /\ kind \in [Calls -> Kinds \cup {"none"}]
      /\ saw \in [Calls -> Row] /\ \A d \in Calls : d = c
    BY DEF SeqInv, MapInv, TypeOK, OneCall
<1>2. {"start", "stop", "motionRead", "quietRead", "startResolve", "abortWait", "stopTake",
       "stopWait", "stopFinal", "abortFinal", "motionStatus", "motionActive",
       "provision"} \subseteq Unexpecting
    BY DEF Unexpecting, PCs
<1>3. CASE HandlerBegins(c)
    <2>1. ASSUME NEW k \in UpdateKinds, Begin(c, k, "wasEnabled") PROVE CallSees(c)'
        BY <1>1, <2>1 DEF Begin, Goto, CallSees, SawRow, MaySpawn
    <2>2. ASSUME NEW k, NEW l \in {"start", "stop", "motionRead"}, Begin(c, k, l)
          PROVE  CallSees(c)'
        BY <1>1, <1>2, <2>2, LeavesByGoto DEF Begin
    <2>3. CASE MotionTimerFires(c)
        BY <1>1, <1>2, <2>3, LeavesByGoto DEF MotionTimerFires
    <2>4. QED BY <1>1, <1>3, <2>1, <2>2, <2>3
                 DEF HandlerBegins, Request, DiskGuard, SetMotionRecording, HealthTick
<1>4. CASE StartGate(c)
    <2>1. CASE row.enabled
        BY <1>1, <1>4, <2>1 DEF StartGate, Goto, CallSees, SawRow, MaySpawn
    <2>2. CASE ~row.enabled
        BY <1>1, <1>4, <2>2, LeavesByReturn DEF StartGate
    <2>3. QED BY <2>1, <2>2
<1>5. CASE StartCheck(c)
    <2>1. CASE active = NoProc
        BY <1>1, <1>5, <2>1 DEF StartCheck, Goto, CallSees, SawRow, MaySpawn, serviceVars
    <2>2. CASE active # NoProc
        BY <1>1, <1>2, <1>5, <2>2, LeavesByGoto DEF StartCheck
    <2>3. QED BY <2>1, <2>2
<1>6. CASE StartResolve(c) \/ StopResolve(c)
    BY <1>1, <1>6 DEF StartResolve, StopResolve, Goto, CallSees, SawRow, MaySpawn
<1>7. CASE StartFails(c) \/ StartCommit(c) \/ StopCommitFails(c) \/ Finalized(c)
    BY <1>1, <1>7, LeavesByReturn DEF StartFails, StartCommit, StopCommitFails, Finalized
<1>8. ASSUME NEW p \in Procs, StartSpawn(c, p) PROVE CallSees(c)'
    BY <1>1, <1>2, <1>8, LeavesByGoto DEF StartSpawn
<1>9. CASE StartCommitFails(c) \/ StopCommit(c) \/ StopTake(c)
    BY <1>1, <1>2, <1>9, LeavesByGoto, LeavesByReturn DEF StartCommitFails, StopCommit, StopTake
<1>10. CASE ProcessWaited(c)
    BY <1>1, <1>2, <1>10, LeavesByGoto DEF ProcessWaited
<1>11. CASE SetMode(c) \/ MotionRead(c) \/ MotionStatus(c) \/ MotionActive(c) \/ MotionEvent(c)
            \/ WriteFails(c) \/ QuietRead(c) \/ Provision(c) \/ BootRead(c)
    BY <1>1, <1>2, <1>11, LeavesByGoto, LeavesByReturn
       DEF SetMode, MotionRead, MotionStatus, MotionActive, MotionEvent, WriteFails,
           QuietRead, Provision, BootRead
<1>12. CASE WasEnabled(c)
    BY <1>1, <1>12 DEF WasEnabled, Goto, CallSees, SawRow, MaySpawn
<1>13. CASE ReadExisting(c)
    <2>1. /\ kind[c] \in UpdateKinds /\ saw[c].enabled = row.enabled /\ row' = row
          /\ pc'[c] = "write"
          /\ kind'[c] = IF \/ kind[c] = "disable" /\ ~saw[c].enabled
                           \/ kind[c] = "enable" /\ saw[c].enabled
                        THEN "patch" ELSE kind[c]
          /\ saw'[c].enabled = IF kind[c] = "patch" THEN row.enabled ELSE kind[c] = "enable"
        BY <1>1, <1>13 DEF ReadExisting, Goto, CallSees, SawRow, TypeOK, Row
    <2>2. QED BY <1>1, <2>1, RowAt DEF CallSees, SawRow, MaySpawn, UpdateKinds
<1>14. CASE WriteRow(c)
    BY <1>1, <1>2, <1>14, LeavesByGoto, LeavesByReturn DEF WriteRow
<1>15. QED
    BY <1>1, <1>3, <1>4, <1>5, <1>6, <1>7, <1>8, <1>9, <1>10, <1>11, <1>12, <1>13, <1>14
       DEF HandlerStep, StartStep, StopStep, OtherStep

LEMMA RunningStep ==
    ASSUME OneCall, SeqInv, [Next]_vars
    PROVE  RunningIsTracked'
<1>1. /\ proc \in [Procs -> {"none", "running", "terminating", "exited"}]
      /\ RunningIsTracked /\ FinalScanAfterSignal
      /\ active \in Procs \cup {NoProc}
      /\ \A c \in Calls : MaySpawn(c)
    BY DEF SeqInv, MapInv, TypeOK, CallSees
<1>2. ASSUME NEW c \in Calls, NEW p \in Procs, StartSpawn(c, p) PROVE RunningIsTracked'
    BY <1>1, <1>2, NoProcAssumption DEF StartSpawn, MaySpawn, RunningIsTracked
<1>3. ASSUME NEW p \in Procs, FinalizeEnds(p) PROVE RunningIsTracked'
    BY <1>1, <1>3 DEF FinalizeEnds, FinalScanAfterSignal, RunningIsTracked
<1>4. ASSUME active' = active, \A p \in Procs : proc'[p] = "running" => proc[p] = "running"
      PROVE  RunningIsTracked'
    BY <1>1, <1>4 DEF RunningIsTracked
<1>5. ASSUME NEW c \in Calls, HandlerBegins(c) \/ OtherStep(c) PROVE RunningIsTracked'
    BY <1>4, <1>5
       DEF HandlerBegins, Request, DiskGuard, SetMotionRecording, HealthTick, MotionTimerFires,
           Begin, OtherStep, SetMode, MotionRead, MotionStatus, MotionActive, MotionEvent,
           WriteFails, QuietRead, WasEnabled, ReadExisting, WriteRow, Provision, BootRead,
           serviceVars
<1>6. ASSUME NEW q, Kill(q), active' = active PROVE RunningIsTracked'
    <2>1. \A p \in Procs : proc'[p] = "running" => proc[p] = "running"
        BY <1>1, <1>6 DEF Kill
    <2>2. QED BY <1>4, <1>6, <2>1
<1>7. ASSUME NEW c \in Calls, StartStep(c) PROVE RunningIsTracked'
    BY <1>2, <1>4, <1>6, <1>7
       DEF StartStep, StartGate, StartFails, StartCheck, StartResolve, StartCommit,
           StartCommitFails, serviceVars
<1>8. ASSUME NEW c \in Calls, StopStep(c) PROVE RunningIsTracked'
    BY <1>4, <1>6, <1>8
       DEF StopStep, StopResolve, StopCommit, StopCommitFails, StopTake, ProcessWaited,
           Finalized, serviceVars
<1>9. ASSUME NEW p \in Procs, ProcessStep(p) PROVE RunningIsTracked'
    BY <1>1, <1>3, <1>4, <1>9
       DEF ProcessStep, ProcessDies, ProcessKilled, OnClose, OnError, LateDisable, serviceVars
<1>10. CASE SegmentRegistered \/ TimePasses \/ UNCHANGED vars
    BY <1>4, <1>10 DEF SegmentRegistered, TimePasses, serviceVars, vars
<1>11. CASE Crash
    BY <1>11 DEF Crash, RunningIsTracked
<1>12. QED BY <1>5, <1>7, <1>8, <1>9, <1>10, <1>11 DEF Next, HandlerStep

LEMMA SeqInvNext ==
    ASSUME OneCall, SeqInv, [Next]_vars
    PROVE  SeqInv'
<1>1. MapInv /\ TypeOK /\ \A c \in Calls : CallSees(c)
    BY DEF SeqInv, MapInv
<1>2. MapInv'
    BY <1>1, NextMapInv
<1>3. ASSUME active' \in {active, NoProc}, row'.enabled = row.enabled, row'.mode = row.mode,
             UNCHANGED callVars
      PROVE  \A c \in Calls : CallSees(c)'
    BY <1>1, <1>3 DEF CallSees, SawRow, MaySpawn, callVars
<1>4. ASSUME NEW p \in Procs, ProcessStep(p) PROVE \A c \in Calls : CallSees(c)'
    <2>1. row' = row \/ row' = [row EXCEPT !.recordingEnabled = FALSE]
        BY <1>4 DEF ProcessStep, ProcessDies, ProcessKilled, OnClose, OnError, LateDisable,
                    FinalizeEnds, serviceVars
    <2>2. row'.enabled = row.enabled /\ row'.mode = row.mode
        BY <1>1, <2>1 DEF TypeOK, Row
    <2>3. active' \in {active, NoProc} /\ UNCHANGED callVars
        BY <1>4 DEF ProcessStep, ProcessDies, ProcessKilled, OnClose, OnError, LateDisable,
                    FinalizeEnds, serviceVars
    <2>4. QED BY <1>3, <2>2, <2>3
<1>5. ASSUME SegmentRegistered \/ TimePasses \/ UNCHANGED vars
      PROVE  \A c \in Calls : CallSees(c)'
    BY <1>3, <1>5 DEF SegmentRegistered, TimePasses, serviceVars, callVars, vars
<1>6. ASSUME Crash PROVE \A c \in Calls : CallSees(c)'
    BY <1>6 DEF Crash, CallSees, SawRow, MaySpawn
<1>7. \A c \in Calls : CallSees(c)'
    BY <1>4, <1>5, <1>6, CallSeesStep DEF Next
<1>8. QED BY <1>2, <1>7, RunningStep DEF SeqInv

LEMMA SeqInvHolds ==
    ASSUME OneCall
    PROVE  Spec => []SeqInv
<1>1. Init => SeqInv
    BY InitMapInv DEF Init, SeqInv, RunningIsTracked, CallSees, SawRow, MaySpawn
<1>2. SeqInv /\ [Next]_vars => SeqInv'
    BY SeqInvNext
<1>3. QED BY <1>1, <1>2, PTL DEF Spec

\* As long as handlers do not overlap, the only FFmpeg that records the camera is
\* the one `active` names: no second recording, none out of a stop's reach,
\* though processes die, are given up on and are finalized at any time.
THEOREM OnlyTheEntryRecords ==
    ASSUME OneCall
    PROVE  Spec => []RunningIsTracked
<1>1. SeqInv => RunningIsTracked
    BY DEF SeqInv
<1>2. QED BY <1>1, SeqInvHolds, PTL

\* A disabled camera that still records is being stopped by the handler that has
\* disabled it.
DisabledIsStopped ==
    ~row.enabled /\ (\E p \in Procs : proc[p] = "running") =>
        \E c \in Calls : pc[c] \in {"stop", "stopCommit", "stopTake"}

LEMMA DisabledStep ==
    ASSUME OneCall, "dbFails" \notin Ops, SeqInv, DisabledIsStopped, [Next]_vars
    PROVE  DisabledIsStopped'
<1>1. /\ TypeOK /\ RunningIsTracked /\ RunningIsTracked'
      /\ proc \in [Procs -> {"none", "running", "terminating", "exited"}]
      /\ pc \in [Calls -> PCs] /\ active \in Procs \cup {NoProc}
      /\ \A c \in Calls : CallSees(c) /\ saw[c].enabled \in BOOLEAN
    BY RunningStep DEF SeqInv, MapInv, TypeOK, Row
<1>2. ASSUME row'.enabled = row.enabled,
             \A p \in Procs : proc'[p] = "running" => proc[p] = "running",
             \A c \in Calls : pc[c] \in {"stop", "stopCommit", "stopTake"} =>
                              pc'[c] \in {"stop", "stopCommit", "stopTake"}
      PROVE  DisabledIsStopped'
    BY <1>2 DEF DisabledIsStopped
<1>3. ASSUME NEW q, Kill(q) PROVE \A p \in Procs : proc'[p] = "running" => proc[p] = "running"
    BY <1>1, <1>3 DEF Kill
<1>4. ASSUME NEW c \in Calls, pc[c] \notin {"stop", "stopCommit", "stopTake"},
             row'.enabled = row.enabled,
             \A p \in Procs : proc'[p] = "running" => proc[p] = "running"
      PROVE  DisabledIsStopped'
    <2>1. \A d \in Calls : d = c
        BY DEF OneCall
    <2>2. QED BY <1>2, <1>4, <2>1
<1>5. ASSUME NEW c \in Calls, HandlerBegins(c) PROVE DisabledIsStopped'
    BY <1>4, <1>5
       DEF HandlerBegins, Request, DiskGuard, SetMotionRecording, HealthTick, MotionTimerFires,
           Begin, Idle
<1>6. ASSUME NEW c \in Calls, StartStep(c) PROVE DisabledIsStopped'
    <2>1. ASSUME NEW p \in Procs, StartSpawn(c, p) PROVE DisabledIsStopped'
        BY <1>1, <2>1 DEF StartSpawn, CallSees, MaySpawn, DisabledIsStopped
    <2>2. CASE StartCommit(c)
        BY <1>1, <1>4, <2>2 DEF StartCommit, TypeOK, Row
    <2>3. QED
        BY <1>4, <1>6, <2>1, <2>2
           DEF StartStep, StartGate, StartFails, StartCheck, StartResolve, StartCommitFails,
               serviceVars
<1>7. ASSUME NEW c \in Calls, StopStep(c) PROVE DisabledIsStopped'
    <2>1. CASE StopResolve(c)
        BY <1>1, <1>2, <2>1 DEF StopResolve, Goto, OneCall
    <2>2. CASE StopCommit(c)
        <3>1. row'.enabled = row.enabled
            BY <1>1, <2>2 DEF StopCommit, TypeOK, Row
        <3>2. QED BY <1>1, <1>2, <2>2, <3>1 DEF StopCommit, Goto, OneCall
    <2>3. CASE StopTake(c)
        <3>1. \A p \in Procs : proc'[p] # "running"
            <4>1. CASE active = NoProc
                BY <1>1, <2>3, <4>1, NoProcAssumption DEF StopTake, RunningIsTracked
            <4>2. CASE active # NoProc
                BY <1>1, <2>3, <4>2 DEF StopTake, Kill, RunningIsTracked
            <4>3. QED BY <4>1, <4>2
        <3>2. QED BY <3>1 DEF DisabledIsStopped
    <2>4. CASE ProcessWaited(c) \/ Finalized(c)
        BY <1>4, <2>4 DEF ProcessWaited, Finalized, serviceVars
    <2>5. ~StopCommitFails(c)
        BY DEF StopCommitFails
    <2>6. QED BY <1>7, <2>1, <2>2, <2>3, <2>4, <2>5 DEF StopStep
<1>8. ASSUME NEW c \in Calls, OtherStep(c) PROVE DisabledIsStopped'
    <2>1. CASE WriteRow(c)
        <3>1. /\ row'.enabled = saw[c].enabled /\ proc' = proc
              /\ pc[c] = "write" /\ kind[c] \in UpdateKinds
              /\ kind[c] = "patch" => saw[c].enabled = row.enabled
              /\ kind[c] = "enable" => saw[c].enabled
            BY <1>1, <2>1 DEF WriteRow, CallSees, SawRow
        <3>2. CASE kind[c] = "disable"
            BY <1>1, <2>1, <3>2 DEF WriteRow, Goto, DisabledIsStopped
        <3>3. CASE kind[c] = "enable"
            BY <3>1, <3>3 DEF DisabledIsStopped
        <3>4. CASE kind[c] = "patch"
            BY <1>4, <3>1, <3>4
        <3>5. QED BY <3>1, <3>2, <3>3, <3>4 DEF UpdateKinds
    <2>2. CASE SetMode(c)
        BY <1>1, <1>4, <2>2 DEF SetMode, TypeOK, Row
    <2>3. QED
        BY <1>4, <1>8, <2>1, <2>2
           DEF OtherStep, MotionRead, MotionStatus, MotionActive, MotionEvent, WriteFails,
               QuietRead, WasEnabled, ReadExisting, Provision, BootRead, serviceVars
<1>9. ASSUME NEW p \in Procs, ProcessStep(p) PROVE DisabledIsStopped'
    <2>1. row' = row \/ row' = [row EXCEPT !.recordingEnabled = FALSE]
        BY <1>9 DEF ProcessStep, ProcessDies, ProcessKilled, OnClose, OnError, LateDisable,
                    FinalizeEnds, serviceVars
    <2>2. row'.enabled = row.enabled
        BY <1>1, <2>1 DEF TypeOK, Row
    <2>3. UNCHANGED pc /\ \A q \in Procs : proc'[q] = "running" => proc[q] = "running"
        BY <1>1, <1>9 DEF ProcessStep, ProcessDies, ProcessKilled, OnClose, OnError, LateDisable,
                    FinalizeEnds, callVars
    <2>4. QED BY <1>2, <2>2, <2>3
<1>10. CASE SegmentRegistered \/ TimePasses \/ UNCHANGED vars
    BY <1>2, <1>10 DEF SegmentRegistered, TimePasses, serviceVars, callVars, vars
<1>11. CASE Crash
    BY <1>11 DEF Crash, DisabledIsStopped
<1>12. QED BY <1>5, <1>6, <1>7, <1>8, <1>9, <1>10, <1>11 DEF Next, HandlerStep

\* Once nothing is in flight, a disabled camera has no recording, as long as
\* handlers do not overlap and every write of a stop succeeds.
THEOREM DisabledNeverRecords ==
    ASSUME OneCall, "dbFails" \notin Ops
    PROVE  Spec => []DisabledDoesNotRecord
<1>1. Init => DisabledIsStopped
    BY DEF Init, DisabledIsStopped
<1>2. SeqInv /\ DisabledIsStopped /\ [Next]_vars => DisabledIsStopped'
    BY DisabledStep
<1>3. DisabledIsStopped => DisabledDoesNotRecord
    BY DEF DisabledIsStopped, DisabledDoesNotRecord, Quiescent, Idle
<1>4. QED BY <1>1, <1>2, <1>3, SeqInvHolds, PTL DEF Spec
=============================================================================
