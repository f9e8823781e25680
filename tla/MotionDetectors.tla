-------------------------- MODULE MotionDetectors --------------------------
(***************************************************************************)
(* Who watches one camera for movement: the camera itself, heard through   *)
(* ONVIF (motionTrigger CAMERA), or a processor of the AI service (SYSTEM), *)
(* which is also the camera's reserve while nothing is heard from it        *)
(* (ai/ai-manager.service.ts, cameras/onvif-events.service.ts).             *)
(*                                                                         *)
(* The synchronization, the watchdog of processors, the ONVIF cycle, the    *)
(* probe and requests run side by side and await the database and the AI    *)
(* service; a call is one of them.  The camera stays enabled and open to the *)
(* AI (aiEnabled, the list in the environment), the AI service licensed and *)
(* in mode `motion'.                                                        *)
(***************************************************************************)
EXTENDS Integers

CONSTANTS
  Calls,       \* bound: what runs side by side
  DeadSyncs,   \* AI_ONVIF_DEAD_SYNCS_FOR_FALLBACK
  Ops          \* what this instance admits

AllOps == {"edits", "settings", "requests", "probe", "fails", "aiRestart", "apiRestart"}

ASSUME DeadSyncsAssumption == DeadSyncs \in Nat \ {0}
ASSUME OpsAssumption == Ops \subseteq AllOps

VARIABLES
  on,        \* AiSettings.enabled
  row,       \* recordingMode = 'motion', and motionTrigger
  proc,      \* the camera's processor in the AI service; a blind one is degraded
  strikes,   \* degradedStrikes: 1 when there was one
  cool,      \* lastDegradedRecoveryAt: 2 less than 5 minutes ago, 1 less than 10
  up,        \* the ONVIF listener is connected
  heard,     \* lastEventAt is not null
  dead,      \* deadSyncs, up to the threshold
  fallback,  \* fallbackActive
  lost,      \* history: why a reserve that is marked as active has no processor
  call       \* call[h]: what call h is at

rowVars == <<on, row>>
watchVars == <<strikes, cool>>
onvifVars == <<up, heard, dead>>
reserveVars == <<fallback, lost>>
vars == <<rowVars, proc, watchVars, onvifVars, reserveVars, call>>

Other(t) == IF t = "SYSTEM" THEN "CAMERA" ELSE "SYSTEM"

(* allow: allowCameraTrigger; seen, armed: what was read earlier.            *)
Idle == [kind |-> "none", pc |-> "idle", allow |-> FALSE, seen |-> "none", armed |-> FALSE]

Set(h, next) == call' = [call EXCEPT ![h] = next]
Goto(h, pc) == Set(h, [call[h] EXCEPT !.pc = pc])
End(h) == Set(h, Idle)
Free(h) == call[h] = Idle
At(h, pc) == call[h].pc = pc

Starting(kind, allow) == [Idle EXCEPT !.kind = kind, !.pc = "gate", !.allow = allow]

(* Why the reserve has no processor: its own start was answered `disabled',   *)
(* which activateFallback does not look at; the watchdog has stopped it and   *)
(* could not start it again; a synchronization, a request or a late proof of  *)
(* life has stopped it, or the AI service has restarted.  Nobody clears the   *)
(* mark then.                                                                *)
Losses == {"no", "refused", "restart", "taken"}

-----------------------------------------------------------------------------
(* startCamera, for whoever awaits it.                                       *)

(* It does not start, and whoever awaits it leaves the mark as it is.        *)
NotStarted(h) ==
  IF ~fallback \/ proc # "none" THEN lost
  ELSE CASE call[h].kind = "reserve" -> "refused"
         [] call[h].kind = "blind" -> "restart"
         [] OTHER -> lost

Gate(h) ==
  /\ At(h, "gate")
  /\ IF on THEN Goto(h, "camera") /\ UNCHANGED lost
           ELSE End(h) /\ lost' = NotStarted(h)
  /\ UNCHANGED <<rowVars, proc, watchVars, onvifVars, fallback>>

\* Mutant: a camera that detects by itself is never analysed.
CameraStrictly(h) ==
  /\ At(h, "camera")
  /\ IF row.trigger = "SYSTEM" THEN Goto(h, "post") ELSE End(h)
  /\ UNCHANGED <<rowVars, proc, watchVars, onvifVars, reserveVars>>

(* camera_self_detection, but for reserves.                                  *)
Camera(h) ==
  /\ At(h, "camera")
  /\ IF row.trigger = "SYSTEM" \/ call[h].allow THEN Goto(h, "post") ELSE End(h)
  /\ UNCHANGED <<rowVars, proc, watchVars, onvifVars, reserveVars>>

(* /analyze/start: a processor that is there goes on as it is.               *)
Starts == proc' = (IF proc = "none" THEN "ready" ELSE proc) /\ lost' = "no"

Post(h) ==
  /\ At(h, "post")
  /\ Starts
  /\ End(h)
  /\ UNCHANGED <<rowVars, watchVars, onvifVars, fallback>>

\* Mutant: a reserve that could not be started stays marked as active.
StartFailsMarked(h) ==
  /\ "fails" \in Ops
  /\ call[h].pc \in {"gate", "camera", "post"}
  /\ lost' = IF call[h].kind = "blind" THEN NotStarted(h) ELSE lost
  /\ End(h)
  /\ UNCHANGED <<rowVars, proc, watchVars, onvifVars, fallback>>

(* The database or the AI service fails: startCamera throws, and a reserve   *)
(* is not marked any more.  The AI service may have started the processor    *)
(* though its answer was lost.                                               *)
StartFails(h) ==
  /\ "fails" \in Ops
  /\ call[h].pc \in {"gate", "camera", "post"}
  /\ fallback' = (fallback /\ call[h].kind # "reserve")
  /\ \/ lost' = (IF fallback' THEN NotStarted(h) ELSE "no") /\ UNCHANGED proc
     \/ At(h, "post") /\ Starts
  /\ End(h)
  /\ UNCHANGED <<rowVars, watchVars, onvifVars>>

(* A processor that is stopped, and not to be started again.                 *)
TakenAway == IF fallback /\ proc # "none" THEN "taken" ELSE lost

(* stopAnalysis; whoever restarts goes on to start, even when it fails.      *)
Stopped(h) == IF call[h].kind \in {"blind", "retry"} THEN Goto(h, "gate") ELSE End(h)

Stop(h) ==
  /\ At(h, "stop")
  /\ proc' = "none"
  /\ lost' = IF call[h].kind = "blind" THEN lost ELSE TakenAway
  /\ Stopped(h)
  /\ UNCHANGED <<rowVars, watchVars, onvifVars, fallback>>

(* It may have stopped all the same, which is Stop.                          *)
StopFails(h) ==
  /\ "fails" \in Ops
  /\ At(h, "stop")
  /\ Stopped(h)
  /\ UNCHANGED <<rowVars, proc, watchVars, onvifVars, reserveVars>>

-----------------------------------------------------------------------------
(* syncAll: joins the synchronization in flight, whatever that has read.     *)
SyncAll(h) ==
  /\ At(h, "saved")
  /\ IF \E g \in Calls : call[g].kind = "sync" THEN End(h)
     ELSE Set(h, [Idle EXCEPT !.kind = "sync", !.pc = "settings"])
  /\ UNCHANGED <<rowVars, proc, watchVars, onvifVars, reserveVars>>

SyncSettings(h) ==
  /\ At(h, "settings")
  /\ Goto(h, IF on THEN "list" ELSE "sweep")
  /\ UNCHANGED <<rowVars, proc, watchVars, onvifVars, reserveVars>>

SyncList(h) ==
  /\ At(h, "list")
  /\ Set(h, [call[h] EXCEPT !.pc = "sweep", !.armed = row.armed /\ row.trigger = "SYSTEM"])
  /\ UNCHANGED <<rowVars, proc, watchVars, onvifVars, reserveVars>>

Swept(h) == IF call[h].armed THEN Goto(h, "post") ELSE End(h)

(* stopAll, reserves included; then the armed cameras are started.           *)
Sweep(h) ==
  /\ At(h, "sweep")
  /\ proc' = "none"
  /\ lost' = TakenAway
  /\ Swept(h)
  /\ UNCHANGED <<rowVars, watchVars, onvifVars, fallback>>

SyncFails(h) ==
  /\ "fails" \in Ops
  /\ \/ call[h].pc \in {"settings", "list"} /\ End(h)
     \/ At(h, "sweep") /\ Swept(h)
  /\ UNCHANGED <<rowVars, proc, watchVars, onvifVars, reserveVars>>

-----------------------------------------------------------------------------
(* recoverDegradedProcessors, of a timer that does not wait for the last one. *)
Watch(h) ==
  /\ Free(h)
  /\ Set(h, [Idle EXCEPT !.kind = "watch", !.pc = "health"])
  /\ UNCHANGED <<rowVars, proc, watchVars, onvifVars, reserveVars>>

\* Mutant: only processors that the AI service lists are looked at.
HealthListed(h) ==
  /\ At(h, "health")
  /\ strikes' = IF proc = "blind" THEN strikes ELSE 0
  /\ IF proc = "blind" THEN Goto(h, "strike") ELSE End(h)
  /\ UNCHANGED <<rowVars, proc, cool, onvifVars, reserveVars>>

Health(h) ==
  /\ At(h, "health")
  /\ strikes' = IF proc = "blind" THEN strikes ELSE 0
  /\ CASE proc = "none" -> Goto(h, "missing")
       [] proc = "ready" -> End(h)
       [] proc = "blind" -> Goto(h, "strike")
  /\ UNCHANGED <<rowVars, proc, cool, onvifVars, reserveVars>>

(* {status: 'offline'}: no processor is degraded.                            *)
HealthFails(h) ==
  /\ "fails" \in Ops
  /\ At(h, "health")
  /\ strikes' = 0
  /\ End(h)
  /\ UNCHANGED <<rowVars, proc, cool, onvifVars, reserveVars>>

(* getSettings.                                                              *)
MissingGate(h) ==
  /\ At(h, "missing")
  /\ IF on THEN Goto(h, "armed") ELSE End(h)
  /\ UNCHANGED <<rowVars, proc, watchVars, onvifVars, reserveVars>>

(* No processor, though armed; at most every 5 minutes.                      *)
Missing(h) ==
  /\ At(h, "armed")
  /\ IF row.armed /\ row.trigger = "SYSTEM" /\ cool < 2
     THEN Set(h, Starting("missing", FALSE)) /\ cool' = 2
     ELSE End(h) /\ UNCHANGED cool
  /\ UNCHANGED <<rowVars, proc, strikes, onvifVars, reserveVars>>

\* Mutant: a blind processor is started anew without being stopped.
StrikeStarts(h) ==
  /\ At(h, "strike")
  /\ IF strikes = 0 \/ cool > 0
     THEN strikes' = 1 /\ UNCHANGED cool /\ End(h)
     ELSE strikes' = 0 /\ cool' = 2 /\ Set(h, Starting("blind", TRUE))
  /\ UNCHANGED <<rowVars, proc, onvifVars, reserveVars>>

(* Blind at two checks in a row, at most every 10 minutes.                   *)
Strike(h) ==
  /\ At(h, "strike")
  /\ IF strikes = 0 \/ cool > 0
     THEN strikes' = 1 /\ UNCHANGED cool /\ End(h)
     ELSE /\ strikes' = 0 /\ cool' = 2
          /\ Set(h, [Starting("blind", TRUE) EXCEPT !.pc = "stop"])
  /\ UNCHANGED <<rowVars, proc, onvifVars, reserveVars>>

(* A query that throws ends the check.                                       *)
WatchFails(h) ==
  /\ "fails" \in Ops
  /\ call[h].pc \in {"missing", "armed", "strike"}
  /\ End(h)
  /\ UNCHANGED <<rowVars, proc, watchVars, onvifVars, reserveVars>>

-----------------------------------------------------------------------------
(* activateFallback, when it is not active.                                  *)
Activate(h) ==
  /\ fallback' = TRUE /\ lost' = "no"
  /\ Set(h, Starting("reserve", TRUE))

\* Mutant: a listener that is taken down to connect anew is not dead.
CycleAnew(h) ==
  /\ Free(h)
  /\ \E connected \in {up, FALSE} :
       /\ up' = (connected /\ row.trigger = "CAMERA")
       /\ IF row.trigger = "SYSTEM" \/ ~row.armed
          THEN UNCHANGED <<dead, reserveVars, call>>
          ELSE /\ dead' = IF connected \/ ~up THEN 0 ELSE 1
               /\ \/ ~connected /\ dead' = DeadSyncs /\ ~fallback /\ Activate(h)
                  \/ connected /\ ~heard /\ ~fallback /\ Activate(h)
                  \/ /\ fallback \/ connected \/ dead' < DeadSyncs
                     /\ UNCHANGED <<reserveVars, call>>
  /\ UNCHANGED <<rowVars, proc, watchVars, heard>>

(* syncCameras, when the cameras with trigger CAMERA have been read: the     *)
(* listener of another is dropped, an old one is taken down to connect anew; *)
(* an armed camera whose listener is down for too many cycles, or which has  *)
(* never been heard for hours, gets its reserve.                             *)
Cycle(h) ==
  /\ Free(h)
  /\ \E connected \in {up, FALSE} :
       /\ up' = (connected /\ row.trigger = "CAMERA")
       /\ IF row.trigger = "SYSTEM" \/ ~row.armed
          THEN UNCHANGED <<dead, reserveVars, call>>
          ELSE /\ dead' = IF connected THEN 0 ELSE IF dead < DeadSyncs THEN dead + 1 ELSE dead
               /\ \/ ~connected /\ dead' = DeadSyncs /\ ~fallback /\ Activate(h)
                  \/ connected /\ ~heard /\ ~fallback /\ Activate(h)
                  \/ /\ fallback \/ connected \/ dead' < DeadSyncs
                     /\ UNCHANGED <<reserveVars, call>>
  /\ UNCHANGED <<rowVars, proc, watchVars, heard>>

Connects ==
  /\ ~up /\ row.trigger = "CAMERA"
  /\ up' = TRUE
  /\ UNCHANGED <<rowVars, proc, watchVars, heard, dead, reserveVars, call>>

Drops ==
  /\ up
  /\ up' = FALSE
  /\ UNCHANGED <<rowVars, proc, watchVars, heard, dead, reserveVars, call>>

(* onCameraMotion, of the connected listener or one that was taken down: a   *)
(* proof of life, deactivateFallback.                                        *)
Motion(h) ==
  /\ heard' = TRUE
  /\ fallback' = FALSE /\ lost' = "no"
  /\ IF fallback THEN Free(h) /\ Set(h, [Idle EXCEPT !.kind = "proof", !.pc = "stop"])
                 ELSE UNCHANGED call
  /\ UNCHANGED <<rowVars, proc, watchVars, up, dead>>

(* probeAllCameras: the answer may come long after the row was read.         *)
Probe(h) ==
  /\ "probe" \in Ops
  /\ Free(h)
  /\ Set(h, [Idle EXCEPT !.kind = "probe", !.pc = "probe",
                         !.seen = row.trigger, !.armed = row.armed])
  /\ UNCHANGED <<rowVars, proc, watchVars, onvifVars, reserveVars>>

ProbeAnswers(h) ==
  /\ At(h, "probe")
  /\ \/ End(h) /\ UNCHANGED row
     \/ /\ row' = [row EXCEPT !.trigger = Other(call[h].seen)]
        /\ IF call[h].armed THEN Goto(h, "flip") ELSE End(h)
  /\ UNCHANGED <<on, proc, watchVars, onvifVars, reserveVars>>

Flip(h) ==
  /\ At(h, "flip")
  /\ \/ /\ call[h].seen = "CAMERA"
        /\ fallback' = FALSE /\ lost' = "no"
        /\ Set(h, Starting("system", FALSE))
     \/ call[h].seen = "SYSTEM" /\ ~fallback /\ Activate(h)
     \/ call[h].seen = "SYSTEM" /\ fallback /\ End(h) /\ UNCHANGED reserveVars
  /\ UNCHANGED <<rowVars, proc, watchVars, onvifVars>>

-----------------------------------------------------------------------------
(* Requests.  PATCH of the row tells nobody.                                 *)
Edit ==
  /\ "edits" \in Ops
  /\ \E r \in [armed : BOOLEAN, trigger : {"SYSTEM", "CAMERA"}] : r # row /\ row' = r
  /\ UNCHANGED <<on, proc, watchVars, onvifVars, reserveVars, call>>

(* setMotionRecording(true), or live view and whoever else starts it.        *)
Ask(h) ==
  /\ "requests" \in Ops
  /\ Free(h)
  /\ \E armed \in {row.armed, TRUE} : row' = [row EXCEPT !.armed = armed]
  /\ Set(h, Starting("ask", FALSE))
  /\ UNCHANGED <<on, proc, watchVars, onvifVars, reserveVars>>

(* setMotionRecording(false), /ai/stop, or restartCamera.                    *)
AskStop(h) ==
  /\ "requests" \in Ops
  /\ Free(h)
  /\ \E kind \in {"stop", "retry"}, armed \in {row.armed, FALSE} :
       /\ kind = "retry" => armed = row.armed
       /\ row' = [row EXCEPT !.armed = armed]
       /\ Set(h, [Idle EXCEPT !.kind = kind, !.pc = "stop"])
  /\ UNCHANGED <<on, proc, watchVars, onvifVars, reserveVars>>

(* updateSettings, or /ai/sync.                                              *)
AskSync(h) ==
  /\ "settings" \in Ops
  /\ Free(h)
  /\ on' \in BOOLEAN
  /\ Set(h, [Idle EXCEPT !.kind = "save", !.pc = "saved"])
  /\ UNCHANGED <<row, proc, watchVars, onvifVars, reserveVars>>

-----------------------------------------------------------------------------
(* The processor loses its source, or finds it again.                        *)
Sight ==
  /\ proc # "none"
  /\ proc' \in {"ready", "blind"} \ {proc}
  /\ UNCHANGED <<rowVars, watchVars, onvifVars, reserveVars, call>>

TimePasses ==
  /\ cool > 0
  /\ cool' = cool - 1
  /\ UNCHANGED <<rowVars, proc, strikes, onvifVars, reserveVars, call>>

AiRestart ==
  /\ "aiRestart" \in Ops
  /\ proc' = "none"
  /\ lost' = TakenAway
  /\ UNCHANGED <<rowVars, watchVars, onvifVars, fallback, call>>

BootSync(h) == [g \in Calls |-> IF g = h THEN [Idle EXCEPT !.kind = "save", !.pc = "saved"]
                                        ELSE Idle]

(* The API's memory is gone; it synchronizes when it is up again.            *)
ApiRestart ==
  /\ "apiRestart" \in Ops
  /\ strikes' = 0 /\ cool' = 0
  /\ up' = FALSE /\ heard' = FALSE /\ dead' = 0
  /\ fallback' = FALSE /\ lost' = "no"
  /\ \E h \in Calls : call' = BootSync(h)
  /\ UNCHANGED <<rowVars, proc>>

-----------------------------------------------------------------------------
Init ==
  /\ on = TRUE
  /\ row \in [armed : BOOLEAN, trigger : {"SYSTEM", "CAMERA"}]
  /\ proc = "none"
  /\ strikes = 0 /\ cool = 0
  /\ up = FALSE /\ heard = FALSE /\ dead = 0
  /\ fallback = FALSE /\ lost = "no"
  /\ \E h \in Calls : call = BootSync(h)

CallStep(h) ==
  \/ Gate(h) \/ Camera(h) \/ Post(h) \/ Stop(h)
  \/ SyncAll(h) \/ SyncSettings(h) \/ SyncList(h) \/ Sweep(h)
  \/ Health(h) \/ MissingGate(h) \/ Missing(h) \/ Strike(h)
  \/ ProbeAnswers(h) \/ Flip(h)

Works ==
  \/ \E h \in Calls :
       \/ CallStep(h) \/ Watch(h) \/ Cycle(h) \/ Motion(h) \/ Probe(h)
       \/ Ask(h) \/ AskStop(h) \/ AskSync(h)
  \/ Connects \/ Drops \/ Edit \/ Sight \/ TimePasses

CallFails(h) ==
  StartFails(h) \/ StopFails(h) \/ SyncFails(h) \/ HealthFails(h) \/ WatchFails(h)

Next ==
  \/ Works
  \/ \E h \in Calls : CallFails(h)
  \/ AiRestart \/ ApiRestart

Spec == Init /\ [][Next]_vars

(* Awaits end, time passes, the timers of the watchdog and of the ONVIF      *)
(* cycle fire (the slots for calls are the model's, hence strong fairness).  *)
(* The AI service, the database and the API fail finitely often.             *)
Fairness ==
  /\ \A h \in Calls : WF_vars(CallStep(h))
  /\ WF_vars(TimePasses)
  /\ SF_vars(\E h \in Calls : Watch(h))
  /\ SF_vars(\E h \in Calls : Cycle(h))
  /\ <>[][Works]_vars

FairSpec == Spec /\ Fairness

-----------------------------------------------------------------------------
TypeOK ==
  /\ on \in BOOLEAN
  /\ row \in [armed : BOOLEAN, trigger : {"SYSTEM", "CAMERA"}]
  /\ proc \in {"none", "ready", "blind"}
  /\ strikes \in 0 .. 1 /\ cool \in 0 .. 2
  /\ up \in BOOLEAN /\ heard \in BOOLEAN /\ dead \in 0 .. DeadSyncs
  /\ fallback \in BOOLEAN /\ lost \in Losses
  /\ call \in [Calls -> [kind : {"none", "ask", "stop", "retry", "save", "sync", "watch",
                                 "missing", "blind", "reserve", "system", "proof", "probe"},
                         pc : {"idle", "gate", "camera", "post", "stop", "saved", "settings",
                               "list", "sweep", "health", "missing", "armed", "strike",
                               "probe", "flip"},
                         allow : BOOLEAN, seen : {"none", "SYSTEM", "CAMERA"},
                         armed : BOOLEAN]]

(* A reserve that is marked as active has a processor, or its start or       *)
(* restart is under way: one whose start throws is not marked, and the       *)
(* watchdog gives back what it stopped (onvif-events.service.ts 208-221,     *)
(* ai-manager.service.ts 186-201).  The exceptions, in which the code leaves *)
(* the mark and nobody starts it again: the AI was off when the reserve      *)
(* started, which is an answer and no exception (213); the watchdog's own    *)
(* restart failed, or found the AI off, after its stop (193-201); a          *)
(* synchronization, a request or a restart of the AI service took it away.   *)
ReserveIsThere ==
  fallback /\ lost = "no" /\ (\A h \in Calls : call[h].kind \notin {"reserve", "blind"})
    => proc # "none"

(* An armed camera without the processor it depends on gets one again,       *)
(* though the AI service restarts and loses all of them (150-171).           *)
MissingComesBack ==
  (on /\ row.armed /\ row.trigger = "SYSTEM")
    ~> (proc # "none" \/ ~on \/ ~row.armed \/ row.trigger = "CAMERA")

(* An armed camera whose listener stays down is watched by its reserve, even *)
(* when starting that threw at first (onvif-events.service.ts 266-279).  Not *)
(* when it is marked and has lost its processor in one of the ways that      *)
(* ReserveIsThere names, a restart of the AI service among them: the cycle   *)
(* looks at the mark alone (275, 286) and does not start it again before the *)
(* camera has been heard.                                                    *)
ReserveStepsIn ==
  (on /\ row.armed /\ row.trigger = "CAMERA" /\ ~up)
    ~> \/ proc # "none" \/ (fallback /\ lost # "no")
       \/ up \/ ~on \/ ~row.armed \/ row.trigger = "SYSTEM"

(* No processor stays blind (174-204).                                       *)
BlindReplaced == []<>(proc # "blind")
=============================================================================
