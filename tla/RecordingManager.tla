-------------------------- MODULE RecordingManager --------------------------
(***************************************************************************)
(* RecordingProcessManagerService of the API, in controlMode 'local', for  *)
(* one camera: the map `active` has one entry per camera and no handler    *)
(* looks at two entries, so the cameras do not interact.                   *)
(*                                                                         *)
(* Node runs one handler at a time and switches only where a handler       *)
(* awaits. Each handler below is therefore a chain of steps, one per       *)
(* await at which state it uses later can change under it: `pc` is where a *)
(* running call stands, `saw` the camera row it read before its last       *)
(* await, `own` the process state it holds a reference to.                 *)
(***************************************************************************)

CONSTANTS
    Calls,      \* slots for handlers running at the same time (a bound)
    Procs,      \* identities of FFmpeg processes (a bound on live ones)
    NoProc,     \* "no entry": active.get(cameraId) is undefined
    Ops         \* the operations and environment events of this instance

Modes == {"continuous", "motion", "manual"}
Row   == [enabled : BOOLEAN, recordingEnabled : BOOLEAN, mode : Modes]

\* What starts a handler: the routes, the two health remediations, the disk
\* guard (and whoever calls stopAll), the post-roll timer, the boot auto-start.
UpdateKinds == {"patch", "disable", "enable"}
HealthKinds == {"reconnect", "fps"}
RestartKinds == HealthKinds \cup {"restart"}
Kinds == {"userStart", "userStop", "guardStop", "motion", "quiet", "arm",
          "disarm", "boot"} \cup UpdateKinds \cup RestartKinds
EnvOps == {"die", "spawnError", "startFails", "dbFails", "writeFails", "crash", "age"}

ASSUME OpsAssumption == Ops \subseteq Kinds \cup EnvOps
ASSUME NoProcAssumption == NoProc \notin Procs

\* Operations that write recordingEnabled without looking at the process: the
\* PATCH handlers write back the value they read, arm and disarm clear it after
\* their stop, the spawn-error handler clears it whenever its write lands.
BlindOps == UpdateKinds \cup {"arm", "disarm", "spawnError"}

VARIABLES
    row,             \* the camera's row in the database
    active,          \* active.get(cameraId), a process or NoProc
    motionStopTimer, \* motionStopTimers.has(cameraId)
    proc,            \* proc[p]: the operating system's view of FFmpeg p
    fin,             \* fin[p]: state.finalizePromise of p
    lateDisable,     \* processes whose 'error' handler's write has not landed
    newest,          \* history: the process spawned last
    age,             \* age of the camera's latest registered segment
    pc, kind, own, saw

serviceVars == <<active, motionStopTimer, fin, lateDisable, newest>>
callVars    == <<pc, kind, own, saw>>
vars        == <<row, active, motionStopTimer, proc, fin, lateDisable, newest,
                 age, pc, kind, own, saw>>

PCs == {"idle", "start", "startCheck", "startProbe", "startResolve",
        "startCommit", "abortWait", "abortFinal", "stop", "stopCommit",
        "stopTake", "stopWait", "stopFinal", "setMode", "motionRead",
        "motionStatus", "motionActive", "motionEvent", "quietRead", "wasEnabled", "readExisting",
        "write", "provision", "bootRead"}
\* Where a call waits for the process it is taking down.
HoldsProcess == {"abortWait", "abortFinal", "stopWait", "stopFinal"}
Ages == {"fresh", "stale", "old"}  \* below the stale threshold, below 15
                                   \* minutes, older (or no segment at all)
NoRow == [enabled |-> FALSE, recordingEnabled |-> FALSE, mode |-> "manual"]

TypeOK ==
    /\ row \in Row
    /\ active \in Procs \cup {NoProc}
    /\ motionStopTimer \in BOOLEAN
    /\ proc \in [Procs -> {"none", "running", "terminating", "exited"}]
    /\ fin \in [Procs -> {"no", "scanning", "done"}]
    /\ lateDisable \subseteq Procs
    /\ newest \in Procs \cup {NoProc}
    /\ age \in Ages
    /\ pc \in [Calls -> PCs]
    /\ kind \in [Calls -> Kinds \cup {"none"}]
    /\ own \in [Calls -> Procs \cup {NoProc}]
    /\ \A c \in Calls : pc[c] \in HoldsProcess => own[c] \in Procs
    /\ saw \in [Calls -> Row]

-----------------------------------------------------------------------------
\* Helpers

Idle(c) == pc[c] = "idle"
Goto(c, l) == pc' = [pc EXCEPT ![c] = l]

Alive(p) == proc[p] \in {"running", "terminating"}

\* A process identity that no process, entry or call refers to any more.
Unused(p) ==
    /\ proc[p] = "none" \/ (proc[p] = "exited" /\ fin[p] = "done")
    /\ \A c \in Calls : own[c] # p
    /\ p \notin lateDisable

\* Only the recording routes ask for a mode, and they ask for 'manual'.
RequestsManual(c) == kind[c] \in {"userStart", "userStop"}

\* resolveRecordingModeUpdate: a 'manual' request over a camera that was in
\* 'motion' when the handler looked is ignored.
ModeAfter(c) == IF RequestsManual(c) /\ saw[c].mode # "motion"
                THEN "manual" ELSE row.mode

\* The handler of call c returns or throws.
Return(c) ==
    /\ Goto(c, "idle")
    /\ kind' = [kind EXCEPT ![c] = "none"]
    /\ own'  = [own EXCEPT ![c] = NoProc]
    /\ saw'  = [saw EXCEPT ![c] = NoRow]

\* start() has returned to the handler that called it.
StartReturns(c) ==
    IF kind[c] = "motion"
    THEN /\ Goto(c, "motionEvent")
         /\ own' = [own EXCEPT ![c] = NoProc]
         /\ UNCHANGED <<kind, saw>>
    ELSE Return(c)

\* stop() has returned to the handler that called it: setMotionRecording goes
\* on to write the mode, a reconnection or a remediation goes on to start().
StopReturns(c) ==
    IF kind[c] \in {"arm", "disarm"} \cup RestartKinds
    THEN /\ Goto(c, IF kind[c] \in RestartKinds THEN "start" ELSE "setMode")
         /\ own' = [own EXCEPT ![c] = NoProc]
         /\ UNCHANGED <<kind, saw>>
    ELSE Return(c)

\* stop() has thrown: setMotionRecording swallows it, the others give up.
StopThrows(c) ==
    IF kind[c] \in {"arm", "disarm"}
    THEN /\ Goto(c, "setMode")
         /\ UNCHANGED <<kind, own, saw>>
    ELSE Return(c)

Kill(p) == proc' = [proc EXCEPT ![p] = IF @ = "running" THEN "terminating" ELSE @]
BeginFinalize(p) == fin' = [fin EXCEPT ![p] = IF @ = "no" THEN "scanning" ELSE @]

-----------------------------------------------------------------------------
\* Handlers begin

Begin(c, k, l) ==
    /\ Idle(c)
    /\ k \in Ops
    /\ kind' = [kind EXCEPT ![c] = k]
    /\ Goto(c, l)
    /\ UNCHANGED <<row, proc, active, fin, lateDisable, newest, age, own, saw>>

\* POST recording/start, recording/stop and recordings/reconnect-stale (of a
\* camera getStatus finds stale), MOTION_DETECTED, PATCH camera.
Request(c) ==
    /\ \/ Begin(c, "userStart", "start")
       \/ Begin(c, "userStop", "stop")
       \/ /\ active = NoProc /\ row.recordingEnabled /\ age # "fresh"
          /\ Begin(c, "restart", "stop")
       \/ Begin(c, "motion", "motionRead")
       \/ \E k \in UpdateKinds : Begin(c, k, "wasEnabled")
    /\ UNCHANGED motionStopTimer

\* enforceDiskGuard on a full disk; stopAll for DELETE /recordings and for a
\* licence without local recording.
DiskGuard(c) ==
    /\ active # NoProc
    /\ Begin(c, "guardStop", "stop")
    /\ UNCHANGED motionStopTimer

\* setMotionRecording drops the post-roll timer before it stops the camera.
SetMotionRecording(c) ==
    /\ \E k \in {"arm", "disarm"} : Begin(c, k, "stop")
    /\ motionStopTimer' = FALSE

\* The health job, one at a time: checkRecordingStaleness takes cameras whose
\* recording is enabled, not in motion mode and without a recent segment; the
\* FPS remediation takes any camera whose recording is enabled.
HealthTick(c) ==
    /\ \A d \in Calls : kind[d] \notin HealthKinds
    /\ row.recordingEnabled
    /\ \/ row.mode # "motion" /\ age # "fresh" /\ Begin(c, "reconnect", "stop")
       \/ Begin(c, "fps", "stop")
    /\ UNCHANGED motionStopTimer

\* stopMotionRecordingAfterQuiet, run by the post-roll timer.
MotionTimerFires(c) ==
    /\ Idle(c)
    /\ motionStopTimer
    /\ motionStopTimer' = FALSE
    /\ kind' = [kind EXCEPT ![c] = "quiet"]
    /\ Goto(c, "quietRead")
    /\ UNCHANGED <<row, proc, active, fin, lateDisable, newest, age, own, saw>>

-----------------------------------------------------------------------------
\* start()

\* Mutant: start() does not look whether the camera is enabled.
StartUngated(c) ==
    /\ pc[c] = "start"
    /\ Goto(c, "startCheck")
    /\ UNCHANGED <<row, proc, serviceVars, age, kind, own, saw>>

\* The enabled gate; the licence and storage checks that follow may throw.
StartGate(c) ==
    /\ pc[c] = "start"
    /\ IF row.enabled
       THEN Goto(c, "startCheck") /\ UNCHANGED <<kind, own, saw>>
       ELSE Return(c)
    /\ UNCHANGED <<row, proc, serviceVars, age>>

StartFails(c) ==
    /\ "startFails" \in Ops
    /\ pc[c] = "startCheck"
    /\ Return(c)
    /\ UNCHANGED <<row, proc, serviceVars, age>>

\* active.has(cameraId): a running or finalizing entry answers
\* already_recording, otherwise the source codec is probed, for up to 12 s.
StartCheck(c) ==
    /\ pc[c] = "startCheck"
    /\ Goto(c, IF active = NoProc THEN "startProbe" ELSE "startResolve")
    /\ UNCHANGED <<row, proc, serviceVars, age, kind, own, saw>>

\* spawn and active.set, in one turn of the event loop.
StartSpawn(c, p) ==
    /\ pc[c] = "startProbe"
    /\ Unused(p)
    /\ proc' = [proc EXCEPT ![p] = "running"]
    /\ fin' = [fin EXCEPT ![p] = "no"]
    /\ active' = p
    /\ newest' = p
    /\ own' = [own EXCEPT ![c] = p]
    /\ Goto(c, "startResolve")
    /\ UNCHANGED <<row, motionStopTimer, lateDisable, age, kind, saw>>

StartResolve(c) ==
    /\ pc[c] = "startResolve"
    /\ saw' = [saw EXCEPT ![c] = row]
    /\ Goto(c, "startCommit")
    /\ UNCHANGED <<row, proc, serviceVars, age, kind, own>>

StartCommit(c) ==
    /\ pc[c] = "startCommit"
    /\ row' = [row EXCEPT !.recordingEnabled = TRUE, !.mode = ModeAfter(c)]
    /\ StartReturns(c)
    /\ UNCHANGED <<proc, serviceVars, age>>

\* Mutant: the process of a start that could not write the row is forgotten.
StartCommitForgets(c) ==
    /\ "dbFails" \in Ops
    /\ pc[c] = "startCommit"
    /\ Return(c)
    /\ UNCHANGED <<row, proc, serviceVars, age>>

\* The row could not be written: a start that spawned takes its process down,
\* an already_recording start only throws.
StartCommitFails(c) ==
    /\ "dbFails" \in Ops
    /\ pc[c] = "startCommit"
    /\ IF own[c] = NoProc
       THEN Return(c) /\ UNCHANGED proc
       ELSE Goto(c, "abortWait") /\ Kill(own[c]) /\ UNCHANGED <<kind, own, saw>>
    /\ UNCHANGED <<row, serviceVars, age>>

-----------------------------------------------------------------------------
\* stop()

StopResolve(c) ==
    /\ pc[c] = "stop"
    /\ saw' = [saw EXCEPT ![c] = row]
    /\ Goto(c, "stopCommit")
    /\ UNCHANGED <<row, proc, serviceVars, age, kind, own>>

StopCommit(c) ==
    /\ pc[c] = "stopCommit"
    /\ row' = [row EXCEPT !.recordingEnabled = FALSE, !.mode = ModeAfter(c)]
    /\ Goto(c, "stopTake")
    /\ UNCHANGED <<proc, serviceVars, age, kind, own, saw>>

StopCommitFails(c) ==
    /\ "dbFails" \in Ops
    /\ pc[c] = "stopCommit"
    /\ StopThrows(c)
    /\ UNCHANGED <<row, proc, serviceVars, age>>

\* Mutant: the process is waited for and finalized without a signal.
StopTakeSilent(c) ==
    /\ pc[c] = "stopTake"
    /\ IF active = NoProc
       THEN StopReturns(c)
       ELSE /\ own' = [own EXCEPT ![c] = active]
            /\ Goto(c, "stopWait")
            /\ UNCHANGED <<kind, saw>>
    /\ UNCHANGED <<row, proc, serviceVars, age>>

\* active.get(cameraId): nothing to stop, or SIGTERM (SIGKILL after 2.5 s).
StopTake(c) ==
    /\ pc[c] = "stopTake"
    /\ IF active = NoProc
       THEN StopReturns(c) /\ UNCHANGED proc
       ELSE /\ Kill(active)
            /\ own' = [own EXCEPT ![c] = active]
            /\ Goto(c, "stopWait")
            /\ UNCHANGED <<kind, saw>>
    /\ UNCHANGED <<row, serviceVars, age>>

\* Mutant: stopProcessAndWait without its give-up timer.
ProcessWaitedForExit(c) ==
    /\ pc[c] \in {"stopWait", "abortWait"}
    /\ proc[own[c]] = "exited"
    /\ BeginFinalize(own[c])
    /\ Goto(c, IF pc[c] = "stopWait" THEN "stopFinal" ELSE "abortFinal")
    /\ UNCHANGED <<row, active, motionStopTimer, proc, lateDisable, newest, age,
                   kind, own, saw>>

\* stopProcessAndWait resolves, by the exit or by the 7.5 s give-up timer, and
\* finalizeRecordingState starts or joins the final scan.
ProcessWaited(c) ==
    /\ pc[c] \in {"stopWait", "abortWait"}
    /\ BeginFinalize(own[c])
    /\ Goto(c, IF pc[c] = "stopWait" THEN "stopFinal" ELSE "abortFinal")
    /\ UNCHANGED <<row, active, motionStopTimer, proc, lateDisable, newest, age,
                   kind, own, saw>>

\* Mutant: the final scan is not awaited.
FinalizedUnawaited(c) ==
    /\ pc[c] \in {"stopFinal", "abortFinal"}
    /\ IF pc[c] = "stopFinal" THEN StopReturns(c) ELSE Return(c)
    /\ UNCHANGED <<row, proc, serviceVars, age>>

\* The final scan's promise has resolved.
Finalized(c) ==
    /\ pc[c] \in {"stopFinal", "abortFinal"}
    /\ fin[own[c]] = "done"
    /\ IF pc[c] = "stopFinal" THEN StopReturns(c) ELSE Return(c)
    /\ UNCHANGED <<row, proc, serviceVars, age>>

-----------------------------------------------------------------------------
\* setMotionRecording, handleMotionDetected, the post-roll stop

SetMode(c) ==
    /\ pc[c] = "setMode"
    /\ row' = [row EXCEPT !.recordingEnabled = FALSE,
                          !.mode = IF kind[c] = "arm" THEN "motion" ELSE "manual"]
    /\ Return(c)
    /\ UNCHANGED <<proc, serviceVars, age>>

MotionRead(c) ==
    /\ pc[c] = "motionRead"
    /\ IF row.enabled /\ row.mode = "motion"
       THEN Goto(c, "motionStatus") /\ UNCHANGED <<kind, own, saw>>
       ELSE Return(c)
    /\ UNCHANGED <<row, proc, serviceVars, age>>

\* getStatus() reads the latest segment and the row; one younger than 15 minutes
\* on a camera marked as recording will do for isRecording ...
MotionStatus(c) ==
    /\ pc[c] = "motionStatus"
    /\ saw' = [saw EXCEPT ![c] = [row EXCEPT !.recordingEnabled = @ /\ age # "old"]]
    /\ Goto(c, "motionActive")
    /\ UNCHANGED <<row, proc, serviceVars, age, kind, own>>

\* ... and so does an entry in `active`, looked up an await later. A camera that
\* records only has its post-roll timer set again, another one is started.
MotionActive(c) ==
    /\ pc[c] = "motionActive"
    /\ IF active # NoProc \/ saw[c].recordingEnabled
       THEN Return(c) /\ motionStopTimer' = TRUE
       ELSE Goto(c, "start") /\ UNCHANGED <<motionStopTimer, kind, own, saw>>
    /\ UNCHANGED <<row, proc, active, fin, lateDisable, newest, age>>

\* The event of the start is registered, then the timer is set.
MotionEvent(c) ==
    /\ pc[c] = "motionEvent"
    /\ motionStopTimer' = TRUE
    /\ Return(c)
    /\ UNCHANGED <<row, proc, active, fin, lateDisable, newest, age>>

\* A write other than start()'s and stop()'s fails (the event, the mode that
\* setMotionRecording sets, the form of a PATCH) and the handler throws. Without
\* the event a recording that movement started is left without a timer.
WriteFails(c) ==
    /\ "writeFails" \in Ops
    /\ pc[c] \in {"motionEvent", "setMode", "write"}
    /\ Return(c)
    /\ UNCHANGED <<row, proc, serviceVars, age>>

QuietRead(c) ==
    /\ pc[c] = "quietRead"
    /\ IF row.mode = "motion" /\ row.recordingEnabled
       THEN Goto(c, "stop") /\ UNCHANGED <<kind, own, saw>>
       ELSE Return(c)
    /\ UNCHANGED <<row, proc, serviceVars, age>>

-----------------------------------------------------------------------------
\* PATCH /cameras/:id and the provisioning it schedules

\* The controller looks whether the camera was enabled ...
WasEnabled(c) ==
    /\ pc[c] = "wasEnabled"
    /\ saw' = [saw EXCEPT ![c] = row]
    /\ Goto(c, "readExisting")
    /\ UNCHANGED <<row, proc, serviceVars, age, kind, own>>

\* ... and CamerasService.update reads the row again. The first reading decides
\* what follows the write; a call with nothing to do then goes on as a plain
\* patch. `enabled` is the dto's value, or the one just read.
ReadExisting(c) ==
    /\ pc[c] = "readExisting"
    /\ kind' = [kind EXCEPT ![c] =
                    IF \/ @ = "disable" /\ ~saw[c].enabled
                       \/ @ = "enable" /\ saw[c].enabled
                    THEN "patch" ELSE @]
    /\ saw' = [saw EXCEPT ![c] = [row EXCEPT !.enabled =
                    IF kind[c] = "patch" THEN @ ELSE kind[c] = "enable"]]
    /\ Goto(c, "write")
    /\ UNCHANGED <<row, proc, serviceVars, age, own>>

\* The update. Fields the dto leaves out are written back as they were read,
\* whatever happened to them since; a form may set the recording fields.
WriteRow(c) ==
    /\ pc[c] = "write"
    /\ \E flag \in BOOLEAN, m \in Modes :
         /\ kind[c] # "patch" => flag = saw[c].recordingEnabled /\ m = row.mode
         /\ row' = [enabled |-> saw[c].enabled, recordingEnabled |-> flag, mode |-> m]
    /\ IF kind[c] = "patch"
       THEN Return(c)
       ELSE /\ Goto(c, IF kind[c] = "disable" THEN "stop" ELSE "provision")
            /\ UNCHANGED <<kind, own, saw>>
    /\ UNCHANGED <<proc, serviceVars, age>>

\* postCreateProvisioning restarts a continuous recording.
Provision(c) ==
    /\ pc[c] = "provision"
    /\ IF row.recordingEnabled /\ row.mode = "continuous"
       THEN Goto(c, "start") /\ UNCHANGED <<kind, own, saw>>
       ELSE Return(c)
    /\ UNCHANGED <<row, proc, serviceVars, age>>

\* startEnabledContinuousRecordings, some seconds after the boot.
BootRead(c) ==
    /\ pc[c] = "bootRead"
    /\ IF row.enabled /\ row.recordingEnabled /\ row.mode = "continuous"
       THEN Goto(c, "start") /\ UNCHANGED <<kind, own, saw>>
       ELSE Return(c)
    /\ UNCHANGED <<row, proc, serviceVars, age>>

-----------------------------------------------------------------------------
\* FFmpeg processes, their events, segments, time, crashes

\* FFmpeg ends by itself (the camera drops the stream) ...
ProcessDies(p) ==
    /\ "die" \in Ops
    /\ proc[p] = "running"
    /\ proc' = [proc EXCEPT ![p] = "exited"]
    /\ UNCHANGED <<row, serviceVars, age, callVars>>

\* ... or because it was signalled.
ProcessKilled(p) ==
    /\ proc[p] = "terminating"
    /\ proc' = [proc EXCEPT ![p] = "exited"]
    /\ UNCHANGED <<row, serviceVars, age, callVars>>

\* Mutant: only a stop listens to 'close'.
OnCloseInStop(p) ==
    /\ proc[p] = "exited"
    /\ fin[p] = "no"
    /\ \E c \in Calls : pc[c] = "stopWait" /\ own[c] = p
    /\ BeginFinalize(p)
    /\ UNCHANGED <<row, active, motionStopTimer, proc, lateDisable, newest, age, callVars>>

\* The 'close' event.
OnClose(p) ==
    /\ proc[p] = "exited"
    /\ fin[p] = "no"
    /\ BeginFinalize(p)
    /\ UNCHANGED <<row, active, motionStopTimer, proc, lateDisable, newest, age, callVars>>

\* The 'error' event of a process that could not be spawned: the write that
\* clears recordingEnabled is not awaited and lands later.
OnError(p) ==
    /\ "spawnError" \in Ops
    /\ proc[p] = "running"
    /\ proc' = [proc EXCEPT ![p] = "exited"]
    /\ BeginFinalize(p)
    /\ lateDisable' = lateDisable \cup {p}
    /\ UNCHANGED <<row, active, motionStopTimer, newest, age, callVars>>

LateDisable(p) ==
    /\ p \in lateDisable
    /\ lateDisable' = lateDisable \ {p}
    /\ row' = [row EXCEPT !.recordingEnabled = FALSE]
    /\ UNCHANGED <<active, motionStopTimer, proc, fin, newest, age, callVars>>

\* Mutant: whatever entry the camera has goes.
FinalizeEndsBlindly(p) ==
    /\ fin[p] = "scanning"
    /\ fin' = [fin EXCEPT ![p] = "done"]
    /\ active' = NoProc
    /\ age' \in {age, "fresh"}
    /\ UNCHANGED <<row, motionStopTimer, proc, lateDisable, newest, callVars>>

\* Mutant: the entry goes only if a call is waiting for it.
FinalizeEndsLeaving(p) ==
    /\ fin[p] = "scanning"
    /\ fin' = [fin EXCEPT ![p] = "done"]
    /\ active' = IF active = p /\ \E c \in Calls : own[c] = p THEN NoProc ELSE active
    /\ age' \in {age, "fresh"}
    /\ UNCHANGED <<row, motionStopTimer, proc, lateDisable, newest, callVars>>

\* The final scan ends: the entry goes, if it still is this process's, and the
\* scan may have registered a segment.
FinalizeEnds(p) ==
    /\ fin[p] = "scanning"
    /\ fin' = [fin EXCEPT ![p] = "done"]
    /\ active' = IF active = p THEN NoProc ELSE active
    /\ age' \in {age, "fresh"}
    /\ UNCHANGED <<row, motionStopTimer, proc, lateDisable, newest, callVars>>

\* The 5 s watcher registers a segment FFmpeg has rotated away from.
SegmentRegistered ==
    /\ active # NoProc
    /\ fin[active] = "no"
    /\ \E p \in Procs : Alive(p)
    /\ age' = "fresh"
    /\ UNCHANGED <<row, proc, serviceVars, callVars>>

TimePasses ==
    /\ "age" \in Ops
    /\ age' = IF age = "fresh" THEN "stale" ELSE "old"
    /\ UNCHANGED <<row, proc, serviceVars, callVars>>

\* The API's container dies and boots again: FFmpeg processes, timers, the map
\* and the running handlers go, the row stays.
Crash ==
    /\ "crash" \in Ops
    /\ active' = NoProc
    /\ motionStopTimer' = FALSE
    /\ proc' = [p \in Procs |-> "none"]
    /\ fin' = [p \in Procs |-> "no"]
    /\ lateDisable' = {}
    /\ newest' = NoProc
    /\ \E c \in Calls :
         LET boot == "boot" \in Ops IN
         /\ pc' = [d \in Calls |-> IF d = c /\ boot THEN "bootRead" ELSE "idle"]
         /\ kind' = [d \in Calls |-> IF d = c /\ boot THEN "boot" ELSE "none"]
    /\ own' = [d \in Calls |-> NoProc]
    /\ saw' = [d \in Calls |-> NoRow]
    /\ UNCHANGED <<row, age>>

-----------------------------------------------------------------------------
Init ==
    /\ row \in Row
    /\ active = NoProc
    /\ motionStopTimer = FALSE
    /\ proc = [p \in Procs |-> "none"]
    /\ fin = [p \in Procs |-> "no"]
    /\ lateDisable = {}
    /\ newest = NoProc
    /\ age \in Ages
    /\ pc = [c \in Calls |-> "idle"]
    /\ kind = [c \in Calls |-> "none"]
    /\ own = [c \in Calls |-> NoProc]
    /\ saw = [c \in Calls |-> NoRow]

HandlerBegins(c) == \/ Request(c) \/ DiskGuard(c) \/ SetMotionRecording(c)
                    \/ HealthTick(c) \/ MotionTimerFires(c)

StartStep(c) == \/ StartGate(c) \/ StartFails(c) \/ StartCheck(c)
                \/ \E p \in Procs : StartSpawn(c, p)
                \/ StartResolve(c) \/ StartCommit(c) \/ StartCommitFails(c)

StopStep(c) == \/ StopResolve(c) \/ StopCommit(c) \/ StopCommitFails(c)
               \/ StopTake(c) \/ ProcessWaited(c) \/ Finalized(c)

OtherStep(c) == \/ SetMode(c) \/ MotionRead(c) \/ MotionStatus(c)
                \/ MotionActive(c) \/ MotionEvent(c) \/ WriteFails(c)
                \/ QuietRead(c) \/ WasEnabled(c)
                \/ ReadExisting(c) \/ WriteRow(c) \/ Provision(c) \/ BootRead(c)

HandlerStep(c) == StartStep(c) \/ StopStep(c) \/ OtherStep(c)

ProcessStep(p) == \/ ProcessDies(p) \/ ProcessKilled(p) \/ OnClose(p)
                  \/ OnError(p) \/ LateDisable(p) \/ FinalizeEnds(p)

Next ==
    \/ \E c \in Calls : HandlerBegins(c) \/ HandlerStep(c)
    \/ \E p \in Procs : ProcessStep(p)
    \/ SegmentRegistered
    \/ TimePasses
    \/ Crash

Spec == Init /\ [][Next]_vars

\* Node drains its event loop: every handler that waits for nothing but a
\* finished await goes on, close events are delivered, scans end. Nothing is
\* assumed of users, cameras, timers, or of a signalled process's exit.
Fairness ==
    /\ \A c \in Calls : WF_vars(HandlerStep(c))
    /\ \A p \in Procs : WF_vars(OnClose(p)) /\ WF_vars(FinalizeEnds(p))

FairSpec == Spec /\ Fairness

-----------------------------------------------------------------------------
\* Properties

\* No stale finalization takes the camera's newest process out of the map: as
\* long as the process spawned last is not finalized, `active` points at it and
\* a stop reaches it, whatever older processes end or are finalized meanwhile.
NewestIsTracked ==
    newest # NoProc /\ fin[newest] # "done" => active = newest

\* The map never keeps an entry whose finalization is over (start() would
\* answer already_recording for ever).
NoFinishedEntry == active # NoProc => fin[active] # "done"

\* The final scan, which also takes the file FFmpeg may still be writing, never
\* starts before that FFmpeg has exited or has been signalled.
FinalScanAfterSignal ==
    \A p \in Procs : fin[p] # "no" => proc[p] \in {"terminating", "exited"}

\* A camera with a running recording nobody is stopping is marked as recording
\* in the database, or the start that spawned it is about to mark it, or a stop
\* that cleared the mark is about to take it down. So the health check and the
\* post-roll stop, which look at the mark only, see every recording.
FlagFollowsProcess ==
    active # NoProc /\ proc[active] = "running" =>
        \/ row.recordingEnabled
        \/ \E c \in Calls : pc[c] \in {"startResolve", "startCommit"} /\ own[c] = active
        \/ \E c \in Calls : pc[c] = "stopTake"

\* stop() answers recording_stopped only once the entry it took is gone.
StopReleases ==
    [][\A c \in Calls : pc[c] = "stopFinal" /\ pc'[c] # "stopFinal" => active' # own[c]]_vars

\* A handler inside stop() gets out of it, even when FFmpeg never exits.
StopEnds ==
    \A c \in Calls :
        pc[c] \in {"stop", "stopCommit", "stopTake", "stopWait", "stopFinal"} ~>
        pc[c] \notin {"stop", "stopCommit", "stopTake", "stopWait", "stopFinal"}

\* A process that ends leaves the map without anybody's help.
DeadEntryLeaves ==
    \A p \in Procs : active = p /\ proc[p] = "exited" ~> active # p

\* -- What the repository says of the program, and the code does not do.

Quiescent == /\ \A c \in Calls : Idle(c)
             /\ \A p \in Procs : fin[p] # "scanning" /\ proc[p] # "terminating"
             /\ lateDisable = {}

\* "Desativar câmera: para de exibir, transmitir e gravar" (docs): once nothing
\* is in flight, a disabled camera has no recording.
DisabledDoesNotRecord ==
    Quiescent /\ ~row.enabled => \A p \in Procs : proc[p] # "running"
=============================================================================
