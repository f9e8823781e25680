----------------------- MODULE MotionDetectorsProofs -----------------------
(***************************************************************************)
(* Proofs about MotionDetectors, for any number of calls side by side, any  *)
(* threshold of dead cycles and any set of operations.                      *)
(***************************************************************************)
EXTENDS MotionDetectors, TLAPS

CallSet == [kind : {"none", "ask", "stop", "retry", "save", "sync", "watch",
                    "missing", "blind", "reserve", "system", "proof", "probe"},
            pc : {"idle", "gate", "camera", "post", "stop", "saved", "settings",
                  "list", "sweep", "health", "missing", "armed", "strike",
                  "probe", "flip"},
            allow : BOOLEAN, seen : {"none", "SYSTEM", "CAMERA"},
            armed : BOOLEAN]

(* A call that is to bring the reserve's processor back may start it for a   *)
(* camera that detects by itself, and is at nothing else; only the watchdog  *)
(* stops it first.                                                           *)
Bringing == {"reserve", "blind"}
Brings(c) ==
  /\ c.kind \in Bringing => c.allow /\ c.pc \in {"gate", "camera", "post", "stop"}
  /\ c.kind = "reserve" => c.pc # "stop"
CallsBring == \A h \in Calls : Brings(call[h])

IInv == TypeOK /\ CallsBring /\ ReserveIsThere

-----------------------------------------------------------------------------
(* A call that moves leaves the others where they are.                       *)
LEMMA Moves ==
  ASSUME call \in [Calls -> CallSet], CallsBring,
         NEW h \in Calls, NEW r \in CallSet, Set(h, r), Brings(r)
  PROVE  /\ call' \in [Calls -> CallSet] /\ CallsBring'
         /\ call'[h] = r /\ \A g \in Calls \ {h} : call'[g] = call[g]
  BY DEF Set, CallsBring

(* What a call may become.                                                   *)
KindsBegun == {"ask", "stop", "retry", "save", "sync", "watch", "missing", "blind",
               "reserve", "system", "proof", "probe"}

LEMMA IdleTyped == Idle \in CallSet /\ Brings(Idle) /\ Idle.kind = "none"
  BY DEF Idle, CallSet, Brings, Bringing

LEMMA StartingTyped ==
  ASSUME NEW kind \in KindsBegun, NEW allow \in BOOLEAN, kind \in Bringing => allow
  PROVE  /\ Starting(kind, allow) \in CallSet /\ Brings(Starting(kind, allow))
         /\ Starting(kind, allow).kind = kind
<1>. DEFINE i == Idle
            c == [i EXCEPT !.kind = kind, !.pc = "gate", !.allow = allow]
<1>1. i \in CallSet  BY IdleTyped
<1>. HIDE DEF i
<1>2. c \in CallSet /\ c.kind = kind /\ c.pc = "gate" /\ c.allow = allow
  BY <1>1 DEF CallSet, KindsBegun
<1>3. c = Starting(kind, allow)  BY DEF Starting, i
<1>. QED  BY <1>2, <1>3 DEF Brings, Bringing

(* Whoever begins with something else than a start brings nothing.           *)
PCs == {"gate", "camera", "post", "stop", "saved", "settings", "list", "sweep",
        "health", "missing", "armed", "strike", "probe", "flip"}

LEMMA BegunTyped ==
  ASSUME NEW kind \in KindsBegun \ Bringing, NEW p \in PCs
  PROVE  LET c == [Idle EXCEPT !.kind = kind, !.pc = p]
         IN  c \in CallSet /\ Brings(c) /\ c.kind = kind
<1>. DEFINE i == Idle
            c == [i EXCEPT !.kind = kind, !.pc = p]
<1>1. i \in CallSet  BY IdleTyped
<1>. HIDE DEF i
<1>2. c \in CallSet /\ c.kind = kind
  BY <1>1 DEF CallSet, KindsBegun, PCs
<1>3. c = [Idle EXCEPT !.kind = kind, !.pc = p]  BY DEF i
<1>. QED  BY <1>2, <1>3 DEF Brings, Bringing

LEMMA ProbeTyped ==
  ASSUME NEW seen \in {"SYSTEM", "CAMERA"}, NEW armed \in BOOLEAN
  PROVE  LET c == [Idle EXCEPT !.kind = "probe", !.pc = "probe",
                               !.seen = seen, !.armed = armed]
         IN  c \in CallSet /\ Brings(c) /\ c.kind = "probe"
<1>. DEFINE i == Idle
            c == [i EXCEPT !.kind = "probe", !.pc = "probe", !.seen = seen, !.armed = armed]
<1>1. i \in CallSet  BY IdleTyped
<1>. HIDE DEF i
<1>2. c \in CallSet /\ c.kind = "probe"
  BY <1>1 DEF CallSet
<1>3. c = [Idle EXCEPT !.kind = "probe", !.pc = "probe", !.seen = seen, !.armed = armed]
  BY DEF i
<1>. QED  BY <1>2, <1>3 DEF Brings, Bringing

LEMMA StrikeTyped ==
  LET c == [Starting("blind", TRUE) EXCEPT !.pc = "stop"]
  IN  c \in CallSet /\ Brings(c) /\ c.kind = "blind"
<1>. DEFINE i == Starting("blind", TRUE)
            c == [i EXCEPT !.pc = "stop"]
<1>1. i \in CallSet /\ Brings(i) /\ i.kind = "blind"
  BY StartingTyped DEF KindsBegun, Bringing
<1>. HIDE DEF i
<1>2. c \in CallSet /\ Brings(c) /\ c.kind = "blind"
  BY <1>1 DEF CallSet, Brings, Bringing
<1>3. c = [Starting("blind", TRUE) EXCEPT !.pc = "stop"]  BY DEF i
<1>. QED  BY <1>2, <1>3

LEMMA GoesTyped ==
  ASSUME NEW c \in CallSet, Brings(c), NEW p \in PCs,
         c.kind \in Bringing => p \in {"gate", "camera", "post"}
  PROVE  /\ [c EXCEPT !.pc = p] \in CallSet /\ Brings([c EXCEPT !.pc = p])
         /\ [c EXCEPT !.pc = p].kind = c.kind
  BY DEF CallSet, Brings, Bringing, PCs

(* The state but for the calls.                                              *)
ScalarsOK ==
  /\ on \in BOOLEAN
  /\ row \in [armed : BOOLEAN, trigger : {"SYSTEM", "CAMERA"}]
  /\ proc \in {"none", "ready", "blind"}
  /\ strikes \in 0 .. 1 /\ cool \in 0 .. 2
  /\ up \in BOOLEAN /\ heard \in BOOLEAN /\ dead \in 0 .. DeadSyncs
  /\ fallback \in BOOLEAN /\ lost \in Losses

LEMMA TypesSplit == TypeOK <=> ScalarsOK /\ call \in [Calls -> CallSet]
  BY DEF TypeOK, ScalarsOK, CallSet

(* Call h becomes r, and where it stops to bring the reserve, or the reserve *)
(* loses its processor, the reserve is no longer marked, or marked as lost.  *)
Kept(h, r) ==
  /\ r \in CallSet /\ Brings(r) /\ Set(h, r)
  /\ call[h].kind \in Bringing /\ fallback' /\ lost' = "no"
       => r.kind \in Bringing \/ proc' # "none"
  /\ fallback' /\ lost' = "no"
       => \/ r.kind \in Bringing \/ proc' # "none"
          \/ fallback /\ lost = "no" /\ proc = "none"

LEMMA StepKept ==
  ASSUME IInv, ScalarsOK', NEW h \in Calls, NEW r, Kept(h, r)
  PROVE  IInv'
<1>1. /\ call' \in [Calls -> CallSet] /\ CallsBring'
      /\ call'[h] = r /\ \A g \in Calls \ {h} : call'[g] = call[g]
  BY Moves, TypesSplit DEF IInv, Kept
<1>2. TypeOK'  BY <1>1, TypesSplit DEF ScalarsOK, TypeOK, CallSet
<1>3. ReserveIsThere'
  <2>. SUFFICES ASSUME fallback', lost' = "no", proc' = "none",
                       \A g \in Calls : call'[g].kind \notin Bringing
                PROVE  FALSE
    BY DEF ReserveIsThere, Bringing
  <2>1. \A g \in Calls : call[g].kind \notin Bringing  BY <1>1 DEF Kept
  <2>2. fallback /\ lost = "no" /\ proc = "none"  BY <1>1 DEF Kept
  <2>. QED  BY <2>1, <2>2 DEF IInv, ReserveIsThere, Bringing
<1>. QED  BY <1>1, <1>2, <1>3 DEF IInv

(* Nobody moves, and the reserve's processor stays or is marked as lost.     *)
Still ==
  /\ call' = call
  /\ fallback' /\ lost' = "no" => fallback /\ lost = "no" /\ (proc' = "none" => proc = "none")

LEMMA StillKept ==
  ASSUME IInv, ScalarsOK', Still
  PROVE  IInv'
<1>1. TypeOK'  BY TypesSplit DEF IInv, ScalarsOK, TypeOK, CallSet, Still
<1>2. CallsBring'  BY DEF IInv, CallsBring, Still
<1>3. ReserveIsThere'
  BY DEF IInv, ReserveIsThere, Still
<1>. QED  BY <1>1, <1>2, <1>3 DEF IInv

LEMMA CallAt ==
  ASSUME IInv, NEW h \in Calls
  PROVE  /\ call[h] \in CallSet /\ Brings(call[h]) /\ ScalarsOK
         /\ call[h].pc \notin {"gate", "camera", "post", "stop"}
              => call[h].kind \notin Bringing
         /\ call[h].kind \in Bringing => call[h].allow
         /\ call[h].kind = "reserve" => call[h].pc # "stop"
  BY TypesSplit DEF IInv, CallsBring, Brings

-----------------------------------------------------------------------------
(* startCamera.                                                              *)
LEMMA GateStep ==
  ASSUME IInv, NEW h \in Calls, Gate(h)
  PROVE  IInv'
<1>1. ScalarsOK'
  BY CallAt DEF ScalarsOK, Gate, Goto, End, At, NotStarted, Losses, rowVars,
     watchVars, onvifVars
<1>2. ASSUME on PROVE IInv'
  <2>1. Kept(h, [call[h] EXCEPT !.pc = "camera"])
    BY <1>2, CallAt, GoesTyped DEF Kept, Gate, Goto, End, At, NotStarted, Losses,
       rowVars,
       watchVars, onvifVars, Bringing, PCs
  <2>. QED  BY <1>1, <2>1, StepKept
<1>3. ASSUME ~on PROVE IInv'
  <2>1. Kept(h, Idle)
    BY <1>3, CallAt, IdleTyped DEF Kept, Gate, Goto, End, At, NotStarted, Losses,
       rowVars,
       watchVars, onvifVars, Bringing
  <2>. QED  BY <1>1, <2>1, StepKept
<1>. QED  BY <1>2, <1>3

LEMMA CameraStep ==
  ASSUME IInv, NEW h \in Calls, Camera(h)
  PROVE  IInv'
<1>1. ScalarsOK'
  BY CallAt DEF ScalarsOK, Camera, Goto, End, At, rowVars, watchVars, onvifVars,
     reserveVars
<1>2. ASSUME row.trigger = "SYSTEM" \/ call[h].allow PROVE IInv'
  <2>1. Kept(h, [call[h] EXCEPT !.pc = "post"])
    BY <1>2, CallAt, GoesTyped DEF Kept, Camera, Goto, End, At, rowVars, watchVars,
       onvifVars, reserveVars, Bringing, PCs
  <2>. QED  BY <1>1, <2>1, StepKept
<1>3. ASSUME ~(row.trigger = "SYSTEM" \/ call[h].allow) PROVE IInv'
  <2>1. Kept(h, Idle)
    BY <1>3, CallAt, IdleTyped DEF Kept, Camera, Goto, End, At, rowVars, watchVars,
       onvifVars, reserveVars, Bringing
  <2>. QED  BY <1>1, <2>1, StepKept
<1>. QED  BY <1>2, <1>3

LEMMA PostStep ==
  ASSUME IInv, NEW h \in Calls, Post(h)
  PROVE  IInv'
<1>1. ScalarsOK'
  BY CallAt DEF Starts, Losses, ScalarsOK, Post, End, At, rowVars, watchVars, onvifVars
<1>2. Kept(h, Idle)
  BY CallAt, IdleTyped DEF Starts, Kept, Post, End, At, rowVars, watchVars,
     onvifVars, Bringing
<1>. QED  BY <1>1, <1>2, StepKept

LEMMA StartFailsStep ==
  ASSUME IInv, NEW h \in Calls, StartFails(h)
  PROVE  IInv'
<1>1. ScalarsOK'
  BY CallAt DEF NotStarted, Starts, At, Losses, ScalarsOK, StartFails, End,
     rowVars, watchVars, onvifVars
<1>2. Kept(h, Idle)
  BY CallAt, IdleTyped DEF NotStarted, Starts, At, Kept, StartFails, End, rowVars,
     watchVars, onvifVars,
     Bringing
<1>. QED  BY <1>1, <1>2, StepKept

LEMMA StopStep ==
  ASSUME IInv, NEW h \in Calls, Stop(h)
  PROVE  IInv'
<1>1. ScalarsOK'
  BY CallAt DEF TakenAway, Losses, ScalarsOK, Stop, At, Stopped, Goto, End,
     rowVars, watchVars, onvifVars
<1>2. ASSUME call[h].kind \in {"blind", "retry"} PROVE IInv'
  <2>1. Kept(h, [call[h] EXCEPT !.pc = "gate"])
    BY <1>2, CallAt, GoesTyped DEF TakenAway, Kept, Stop, At, Stopped, Goto, End,
       rowVars,
       watchVars, onvifVars, Bringing, PCs
  <2>. QED  BY <1>1, <2>1, StepKept
<1>3. ASSUME call[h].kind \notin {"blind", "retry"} PROVE IInv'
  <2>1. Kept(h, Idle)
    BY <1>3, CallAt, IdleTyped DEF TakenAway, Kept, Stop, At, Stopped, Goto, End,
       rowVars,
       watchVars, onvifVars, Bringing
  <2>. QED  BY <1>1, <2>1, StepKept
<1>. QED  BY <1>2, <1>3

LEMMA StopFailsStep ==
  ASSUME IInv, NEW h \in Calls, StopFails(h)
  PROVE  IInv'
<1>1. ScalarsOK'
  BY CallAt DEF ScalarsOK, StopFails, At, Stopped, Goto, End, rowVars, watchVars,
     onvifVars, reserveVars
<1>2. ASSUME call[h].kind \in {"blind", "retry"} PROVE IInv'
  <2>1. Kept(h, [call[h] EXCEPT !.pc = "gate"])
    BY <1>2, CallAt, GoesTyped DEF Kept, StopFails, At, Stopped, Goto, End, rowVars,
       watchVars, onvifVars, reserveVars, Bringing, PCs
  <2>. QED  BY <1>1, <2>1, StepKept
<1>3. ASSUME call[h].kind \notin {"blind", "retry"} PROVE IInv'
  <2>1. Kept(h, Idle)
    BY <1>3, CallAt, IdleTyped DEF Kept, StopFails, At, Stopped, Goto, End, rowVars,
       watchVars, onvifVars, reserveVars, Bringing
  <2>. QED  BY <1>1, <2>1, StepKept
<1>. QED  BY <1>2, <1>3

(* syncAll.                                                                  *)
LEMMA SyncAllStep ==
  ASSUME IInv, NEW h \in Calls, SyncAll(h)
  PROVE  IInv'
<1>1. ScalarsOK'
  BY CallAt DEF ScalarsOK, SyncAll, End, At, rowVars, watchVars, onvifVars, reserveVars
<1>2. ASSUME \E g \in Calls : call[g].kind = "sync" PROVE IInv'
  <2>1. Kept(h, Idle)
    BY <1>2, CallAt, IdleTyped DEF Kept, SyncAll, End, At, rowVars, watchVars,
       onvifVars, reserveVars, Bringing
  <2>. QED  BY <1>1, <2>1, StepKept
<1>3. ASSUME ~\E g \in Calls : call[g].kind = "sync" PROVE IInv'
  <2>1. Kept(h, [Idle EXCEPT !.kind = "sync", !.pc = "settings"])
    BY <1>3, CallAt, BegunTyped DEF Kept, SyncAll, End, At, rowVars, watchVars,
       onvifVars, reserveVars, Bringing, PCs, KindsBegun
  <2>. QED  BY <1>1, <2>1, StepKept
<1>. QED  BY <1>2, <1>3

LEMMA SyncSettingsStep ==
  ASSUME IInv, NEW h \in Calls, SyncSettings(h)
  PROVE  IInv'
<1>1. ScalarsOK'
  BY CallAt DEF ScalarsOK, SyncSettings, Goto, At, rowVars, watchVars, onvifVars,
     reserveVars
<1>2. ASSUME on PROVE IInv'
  <2>1. Kept(h, [call[h] EXCEPT !.pc = "list"])
    BY <1>2, CallAt, GoesTyped DEF Kept, SyncSettings, Goto, At, rowVars, watchVars,
       onvifVars, reserveVars, Bringing, PCs
  <2>. QED  BY <1>1, <2>1, StepKept
<1>3. ASSUME ~on PROVE IInv'
  <2>1. Kept(h, [call[h] EXCEPT !.pc = "sweep"])
    BY <1>3, CallAt, GoesTyped DEF Kept, SyncSettings, Goto, At, rowVars, watchVars,
       onvifVars, reserveVars, Bringing, PCs
  <2>. QED  BY <1>1, <2>1, StepKept
<1>. QED  BY <1>2, <1>3

LEMMA SweepStep ==
  ASSUME IInv, NEW h \in Calls, Sweep(h)
  PROVE  IInv'
<1>1. ScalarsOK'
  BY CallAt DEF TakenAway, Losses, ScalarsOK, Sweep, At, Swept, Goto, End, rowVars,
     watchVars, onvifVars
<1>2. ASSUME call[h].armed PROVE IInv'
  <2>1. Kept(h, [call[h] EXCEPT !.pc = "post"])
    BY <1>2, CallAt, GoesTyped DEF TakenAway, Kept, Sweep, At, Swept, Goto, End,
       rowVars,
       watchVars, onvifVars, Bringing, PCs
  <2>. QED  BY <1>1, <2>1, StepKept
<1>3. ASSUME ~call[h].armed PROVE IInv'
  <2>1. Kept(h, Idle)
    BY <1>3, CallAt, IdleTyped DEF TakenAway, Kept, Sweep, At, Swept, Goto, End,
       rowVars,
       watchVars, onvifVars, Bringing
  <2>. QED  BY <1>1, <2>1, StepKept
<1>. QED  BY <1>2, <1>3

(* recoverDegradedProcessors.                                                *)
LEMMA WatchStep ==
  ASSUME IInv, NEW h \in Calls, Watch(h)
  PROVE  IInv'
<1>1. ScalarsOK'
  BY CallAt DEF ScalarsOK, Watch, Free, rowVars, watchVars, onvifVars, reserveVars
<1>2. Kept(h, [Idle EXCEPT !.kind = "watch", !.pc = "health"])
  BY CallAt, IdleTyped, BegunTyped DEF Kept, Watch, Free, rowVars, watchVars, onvifVars,
     reserveVars, Bringing, PCs, KindsBegun
<1>. QED  BY <1>1, <1>2, StepKept

LEMMA HealthStep ==
  ASSUME IInv, NEW h \in Calls, Health(h)
  PROVE  IInv'
<1>1. ScalarsOK'
  BY CallAt DEF ScalarsOK, Health, Goto, End, At, rowVars, onvifVars, reserveVars
<1>2. ASSUME proc = "none" PROVE IInv'
  <2>1. Kept(h, [call[h] EXCEPT !.pc = "missing"])
    BY <1>2, CallAt, GoesTyped DEF Kept, Health, Goto, End, At, rowVars, onvifVars,
       reserveVars, Bringing, PCs
  <2>. QED  BY <1>1, <2>1, StepKept
<1>3. ASSUME proc = "ready" PROVE IInv'
  <2>1. Kept(h, Idle)
    BY <1>3, CallAt, IdleTyped DEF Kept, Health, Goto, End, At, rowVars, onvifVars,
       reserveVars, Bringing
  <2>. QED  BY <1>1, <2>1, StepKept
<1>4. ASSUME proc = "blind" PROVE IInv'
  <2>1. Kept(h, [call[h] EXCEPT !.pc = "strike"])
    BY <1>4, CallAt, GoesTyped DEF Kept, Health, Goto, End, At, rowVars, onvifVars,
       reserveVars, Bringing, PCs
  <2>. QED  BY <1>1, <2>1, StepKept
<1>5. proc \in {"none", "ready", "blind"}  BY CallAt DEF ScalarsOK
<1>. QED  BY <1>2, <1>3, <1>4, <1>5

LEMMA HealthFailsStep ==
  ASSUME IInv, NEW h \in Calls, HealthFails(h)
  PROVE  IInv'
<1>1. ScalarsOK'
  BY CallAt DEF ScalarsOK, HealthFails, End, At, rowVars, onvifVars, reserveVars
<1>2. Kept(h, Idle)
  BY CallAt, IdleTyped DEF Kept, HealthFails, End, At, rowVars, onvifVars, reserveVars,
     Bringing
<1>. QED  BY <1>1, <1>2, StepKept

LEMMA MissingGateStep ==
  ASSUME IInv, NEW h \in Calls, MissingGate(h)
  PROVE  IInv'
<1>1. ScalarsOK'
  BY CallAt DEF ScalarsOK, MissingGate, Goto, End, At, rowVars, watchVars, onvifVars,
     reserveVars
<1>2. ASSUME on PROVE IInv'
  <2>1. Kept(h, [call[h] EXCEPT !.pc = "armed"])
    BY <1>2, CallAt, GoesTyped DEF Kept, MissingGate, Goto, End, At, rowVars, watchVars,
       onvifVars, reserveVars, Bringing, PCs
  <2>. QED  BY <1>1, <2>1, StepKept
<1>3. ASSUME ~on PROVE IInv'
  <2>1. Kept(h, Idle)
    BY <1>3, CallAt, IdleTyped DEF Kept, MissingGate, Goto, End, At, rowVars, watchVars,
       onvifVars, reserveVars, Bringing
  <2>. QED  BY <1>1, <2>1, StepKept
<1>. QED  BY <1>2, <1>3

LEMMA MissingStep ==
  ASSUME IInv, NEW h \in Calls, Missing(h)
  PROVE  IInv'
<1>0. cool' \in 0 .. 2
  <2>1. cool' = cool \/ cool' = 2  BY DEF Missing
  <2>. QED  BY <2>1, CallAt DEF ScalarsOK
<1>1. ScalarsOK'
  BY CallAt, <1>0 DEF ScalarsOK, Missing, End, At, rowVars, onvifVars, reserveVars
<1>2. ASSUME row.armed /\ row.trigger = "SYSTEM" /\ cool < 2 PROVE IInv'
  <2>1. Kept(h, Starting("missing", FALSE))
    BY <1>2, CallAt, StartingTyped DEF Kept, Missing, End, At, rowVars, onvifVars,
       reserveVars, Bringing, KindsBegun
  <2>. QED  BY <1>1, <2>1, StepKept
<1>3. ASSUME ~(row.armed /\ row.trigger = "SYSTEM" /\ cool < 2) PROVE IInv'
  <2>1. Kept(h, Idle)
    BY <1>3, CallAt, IdleTyped DEF Kept, Missing, End, At, rowVars, onvifVars,
       reserveVars, Bringing
  <2>. QED  BY <1>1, <2>1, StepKept
<1>. QED  BY <1>2, <1>3

LEMMA StrikeStep ==
  ASSUME IInv, NEW h \in Calls, Strike(h)
  PROVE  IInv'
<1>1. ScalarsOK'
  BY CallAt DEF ScalarsOK, Strike, End, At, rowVars, onvifVars, reserveVars
<1>2. ASSUME strikes = 0 \/ cool > 0 PROVE IInv'
  <2>1. Kept(h, Idle)
    BY <1>2, CallAt, IdleTyped DEF Kept, Strike, End, At, rowVars, onvifVars,
       reserveVars, Bringing
  <2>. QED  BY <1>1, <2>1, StepKept
<1>3. ASSUME ~(strikes = 0 \/ cool > 0) PROVE IInv'
  <2>1. Kept(h, [Starting("blind", TRUE) EXCEPT !.pc = "stop"])
    BY <1>3, CallAt, StrikeTyped DEF Kept, Strike, End, At, rowVars, onvifVars,
       reserveVars, Bringing
  <2>. QED  BY <1>1, <2>1, StepKept
<1>. QED  BY <1>2, <1>3

LEMMA WatchFailsStep ==
  ASSUME IInv, NEW h \in Calls, WatchFails(h)
  PROVE  IInv'
<1>1. ScalarsOK'
  BY CallAt DEF ScalarsOK, WatchFails, End, rowVars, watchVars, onvifVars, reserveVars
<1>2. Kept(h, Idle)
  BY CallAt, IdleTyped DEF Kept, WatchFails, End, rowVars, watchVars, onvifVars,
     reserveVars, Bringing
<1>. QED  BY <1>1, <1>2, StepKept

(* ONVIF.                                                                    *)
LEMMA ConnectsStep ==
  ASSUME IInv, Connects
  PROVE  IInv'
<1>1. ScalarsOK'
  BY TypesSplit DEF IInv, ScalarsOK, Connects, rowVars, watchVars, reserveVars
<1>2. Still
  BY TypesSplit DEF IInv, ScalarsOK, Still, Connects, rowVars, watchVars, reserveVars
<1>. QED  BY <1>1, <1>2, StillKept

LEMMA DropsStep ==
  ASSUME IInv, Drops
  PROVE  IInv'
<1>1. ScalarsOK'
  BY TypesSplit DEF IInv, ScalarsOK, Drops, rowVars, watchVars, reserveVars
<1>2. Still
  BY TypesSplit DEF IInv, ScalarsOK, Still, Drops, rowVars, watchVars, reserveVars
<1>. QED  BY <1>1, <1>2, StillKept

LEMMA MotionStep ==
  ASSUME IInv, NEW h \in Calls, Motion(h)
  PROVE  IInv'
<1>1. ScalarsOK'
  BY CallAt DEF Losses, ScalarsOK, Motion, Free, rowVars, watchVars
<1>2. ASSUME fallback PROVE IInv'
  <2>1. Kept(h, [Idle EXCEPT !.kind = "proof", !.pc = "stop"])
    BY <1>2, CallAt, IdleTyped, BegunTyped DEF Kept, Motion, Free, rowVars, watchVars,
       Bringing, PCs, KindsBegun
  <2>. QED  BY <1>1, <2>1, StepKept
<1>3. ASSUME ~fallback PROVE IInv'
  <2>1. Still
    BY <1>3, CallAt DEF ScalarsOK, Still, Motion, Free, rowVars, watchVars
  <2>. QED  BY <1>1, <2>1, StillKept
<1>. QED  BY <1>2, <1>3

(* Requests.                                                                 *)
LEMMA AskSyncStep ==
  ASSUME IInv, NEW h \in Calls, AskSync(h)
  PROVE  IInv'
<1>1. ScalarsOK'
  BY CallAt DEF ScalarsOK, AskSync, Free, watchVars, onvifVars, reserveVars
<1>2. Kept(h, [Idle EXCEPT !.kind = "save", !.pc = "saved"])
  BY CallAt, IdleTyped, BegunTyped DEF Kept, AskSync, Free, watchVars, onvifVars,
     reserveVars, Bringing, PCs, KindsBegun
<1>. QED  BY <1>1, <1>2, StepKept

LEMMA AskStep ==
  ASSUME IInv, NEW h \in Calls, Ask(h)
  PROVE  IInv'
<1>1. ScalarsOK'
  BY CallAt DEF ScalarsOK, Ask, Free, watchVars, onvifVars, reserveVars
<1>2. Kept(h, Starting("ask", FALSE))
  BY CallAt, IdleTyped, StartingTyped DEF Kept, Ask, Free, watchVars, onvifVars,
     reserveVars, Bringing, KindsBegun
<1>. QED  BY <1>1, <1>2, StepKept

LEMMA EditStep ==
  ASSUME IInv, Edit
  PROVE  IInv'
<1>1. ScalarsOK'
  BY TypesSplit DEF IInv, ScalarsOK, Edit, watchVars, onvifVars, reserveVars
<1>2. Still
  BY TypesSplit DEF IInv, ScalarsOK, Still, Edit, watchVars, onvifVars, reserveVars
<1>. QED  BY <1>1, <1>2, StillKept

(* The processor, the clock and the AI service.                              *)
LEMMA SightStep ==
  ASSUME IInv, Sight
  PROVE  IInv'
<1>1. ScalarsOK'
  BY TypesSplit DEF IInv, ScalarsOK, Sight, rowVars, watchVars, onvifVars, reserveVars
<1>2. Still
  BY TypesSplit DEF IInv, ScalarsOK, Still, Sight, rowVars, watchVars, onvifVars,
     reserveVars
<1>. QED  BY <1>1, <1>2, StillKept

LEMMA TimePassesStep ==
  ASSUME IInv, TimePasses
  PROVE  IInv'
<1>1. ScalarsOK'
  BY TypesSplit DEF IInv, ScalarsOK, TimePasses, rowVars, onvifVars, reserveVars
<1>2. Still
  BY TypesSplit DEF IInv, ScalarsOK, Still, TimePasses, rowVars, onvifVars, reserveVars
<1>. QED  BY <1>1, <1>2, StillKept

LEMMA AiRestartStep ==
  ASSUME IInv, AiRestart
  PROVE  IInv'
<1>1. ScalarsOK'
  BY TypesSplit DEF TakenAway, Losses, IInv, ScalarsOK, AiRestart, rowVars,
     watchVars, onvifVars
<1>2. Still
  BY TypesSplit DEF TakenAway, IInv, ScalarsOK, Still, AiRestart, rowVars,
     watchVars, onvifVars
<1>. QED  BY <1>1, <1>2, StillKept

(* The synchronization's list, and its failure.                              *)
LEMMA ListTyped ==
  ASSUME NEW c \in CallSet, c.kind \notin Bringing, NEW b \in BOOLEAN
  PROVE  LET d == [c EXCEPT !.pc = "sweep", !.armed = b]
         IN  d \in CallSet /\ Brings(d) /\ d.kind = c.kind
  BY DEF CallSet, Brings

LEMMA SyncListStep ==
  ASSUME IInv, NEW h \in Calls, SyncList(h)
  PROVE  IInv'
<1>1. ScalarsOK'
  BY CallAt DEF ScalarsOK, SyncList, rowVars, watchVars, onvifVars, reserveVars
<1>. DEFINE b == row.armed /\ row.trigger = "SYSTEM"
<1>2. b \in BOOLEAN  OBVIOUS
<1>3. Set(h, [call[h] EXCEPT !.pc = "sweep", !.armed = b])  BY DEF SyncList
<1>4. /\ call[h] \in CallSet /\ call[h].kind \notin Bringing
      /\ UNCHANGED <<proc, fallback, lost>>
  BY CallAt DEF SyncList, At, reserveVars
<1>. HIDE DEF b
<1>5. Kept(h, [call[h] EXCEPT !.pc = "sweep", !.armed = b])
  BY <1>2, <1>3, <1>4, ListTyped DEF Kept
<1>. QED  BY <1>1, <1>5, StepKept

LEMMA SyncFailsStep ==
  ASSUME IInv, NEW h \in Calls, SyncFails(h)
  PROVE  IInv'
<1>1. ScalarsOK'
  BY CallAt DEF ScalarsOK, SyncFails, rowVars, watchVars, onvifVars, reserveVars
<1>2. ASSUME End(h) PROVE IInv'
  <2>1. Kept(h, Idle)
    BY <1>2, CallAt, IdleTyped DEF Kept, SyncFails, End, At, reserveVars
  <2>. QED  BY <1>1, <2>1, StepKept
<1>3. ASSUME At(h, "sweep"), Goto(h, "post") PROVE IInv'
  <2>1. Kept(h, [call[h] EXCEPT !.pc = "post"])
    BY <1>3, CallAt, GoesTyped DEF Kept, SyncFails, Goto, At, reserveVars, PCs
  <2>. QED  BY <1>1, <2>1, StepKept
<1>. QED  BY <1>2, <1>3 DEF SyncFails, Swept

-----------------------------------------------------------------------------
(* The ONVIF cycle, the probe and the proof of life.                         *)
LEMMA ActivateKept ==
  ASSUME IInv, NEW h \in Calls, Activate(h), Free(h) \/ At(h, "flip")
  PROVE  Kept(h, Starting("reserve", TRUE))
<1>1. call[h].kind \notin Bringing
  BY CallAt, IdleTyped DEF Free, At, Bringing
<1>2. Starting("reserve", TRUE) \in CallSet /\ Brings(Starting("reserve", TRUE))
      /\ Starting("reserve", TRUE).kind = "reserve"
  BY StartingTyped DEF KindsBegun
<1>. QED  BY <1>1, <1>2 DEF Kept, Activate, Bringing

LEMMA CycleStep ==
  ASSUME IInv, NEW h \in Calls, Cycle(h)
  PROVE  IInv'
<1>0. ScalarsOK /\ DeadSyncs \in Nat  BY CallAt, DeadSyncsAssumption
<1>1. PICK connected \in {up, FALSE} :
        /\ up' = (connected /\ row.trigger = "CAMERA")
        /\ \/ UNCHANGED <<dead, reserveVars, call>>
           \/ /\ dead' = IF connected THEN 0 ELSE IF dead < DeadSyncs THEN dead + 1 ELSE dead
              /\ Activate(h) \/ UNCHANGED <<reserveVars, call>>
  BY DEF Cycle
<1>2. up' \in BOOLEAN  BY <1>1
<1>3. dead' \in 0 .. DeadSyncs  BY <1>0, <1>1 DEF ScalarsOK
<1>4. Activate(h) \/ UNCHANGED <<reserveVars, call>>  BY <1>1
<1>5. ScalarsOK'
  BY <1>0, <1>2, <1>3, <1>4
     DEF ScalarsOK, Losses, Cycle, Activate, rowVars, watchVars, reserveVars
<1>6. CASE Activate(h)
  BY <1>5, <1>6, ActivateKept, StepKept DEF Cycle
<1>7. CASE UNCHANGED <<reserveVars, call>>
  <2>1. Still  BY <1>7 DEF Still, Cycle, reserveVars
  <2>. QED  BY <1>5, <2>1, StillKept
<1>. QED  BY <1>4, <1>6, <1>7

LEMMA ProbeStep ==
  ASSUME IInv, NEW h \in Calls, Probe(h)
  PROVE  IInv'
<1>1. ScalarsOK'
  BY CallAt DEF ScalarsOK, Probe, rowVars, watchVars, onvifVars, reserveVars
<1>. DEFINE r == [Idle EXCEPT !.kind = "probe", !.pc = "probe",
                              !.seen = row.trigger, !.armed = row.armed]
<1>2. row.trigger \in {"SYSTEM", "CAMERA"} /\ row.armed \in BOOLEAN
  BY CallAt DEF ScalarsOK
<1>3. r \in CallSet /\ Brings(r)  BY <1>2, ProbeTyped
<1>4. Set(h, r) /\ call[h].kind \notin Bringing /\ UNCHANGED <<proc, fallback, lost>>
  BY IdleTyped DEF Probe, Free, reserveVars, Bringing
<1>. HIDE DEF r
<1>5. Kept(h, r)  BY <1>3, <1>4 DEF Kept
<1>. QED  BY <1>1, <1>5, StepKept

LEMMA ProbeAnswersStep ==
  ASSUME IInv, NEW h \in Calls, ProbeAnswers(h)
  PROVE  IInv'
<1>1. row' = row \/ row' = [row EXCEPT !.trigger = Other(call[h].seen)]
  BY DEF ProbeAnswers
<1>2. Other(call[h].seen) \in {"SYSTEM", "CAMERA"}  BY DEF Other
<1>3. row' \in [armed : BOOLEAN, trigger : {"SYSTEM", "CAMERA"}]
  BY <1>1, <1>2, CallAt DEF ScalarsOK
<1>4. ScalarsOK'
  BY <1>3, CallAt DEF ScalarsOK, ProbeAnswers, watchVars, onvifVars, reserveVars
<1>5. /\ call[h] \in CallSet /\ Brings(call[h]) /\ call[h].kind \notin Bringing
      /\ UNCHANGED <<proc, fallback, lost>>
  BY CallAt DEF ProbeAnswers, At, reserveVars
<1>6. ASSUME End(h) PROVE IInv'
  <2>1. Kept(h, Idle)  BY <1>5, <1>6, IdleTyped DEF Kept, End
  <2>. QED  BY <1>4, <2>1, StepKept
<1>7. ASSUME Goto(h, "flip") PROVE IInv'
  <2>1. Kept(h, [call[h] EXCEPT !.pc = "flip"])
    BY <1>5, <1>7, GoesTyped DEF Kept, Goto, PCs
  <2>. QED  BY <1>4, <2>1, StepKept
<1>. QED  BY <1>6, <1>7 DEF ProbeAnswers

LEMMA FlipStep ==
  ASSUME IInv, NEW h \in Calls, Flip(h)
  PROVE  IInv'
<1>1. ScalarsOK'
  BY CallAt DEF Losses, ScalarsOK, Flip, Activate, rowVars, watchVars, onvifVars,
     reserveVars
<1>2. ASSUME fallback' = FALSE, Set(h, Starting("system", FALSE)) PROVE IInv'
  <2>1. Starting("system", FALSE) \in CallSet /\ Brings(Starting("system", FALSE))
    BY StartingTyped DEF KindsBegun, Bringing
  <2>2. Kept(h, Starting("system", FALSE))  BY <1>2, <2>1 DEF Kept
  <2>. QED  BY <1>1, <2>2, StepKept
<1>3. ASSUME Activate(h) PROVE IInv'
  BY <1>1, <1>3, ActivateKept, StepKept DEF Flip
<1>4. ASSUME End(h), UNCHANGED reserveVars PROVE IInv'
  <2>1. Kept(h, Idle)
    BY <1>4, CallAt, IdleTyped DEF Kept, Flip, End, At, reserveVars
  <2>. QED  BY <1>1, <2>1, StepKept
<1>. QED  BY <1>2, <1>3, <1>4 DEF Flip

LEMMA AskStopStep ==
  ASSUME IInv, NEW h \in Calls, AskStop(h)
  PROVE  IInv'
<1>1. PICK kind \in {"stop", "retry"}, armed \in {row.armed, FALSE} :
        /\ row' = [row EXCEPT !.armed = armed]
        /\ Set(h, [Idle EXCEPT !.kind = kind, !.pc = "stop"])
  BY DEF AskStop
<1>2. row' \in [armed : BOOLEAN, trigger : {"SYSTEM", "CAMERA"}]
  BY <1>1, CallAt DEF ScalarsOK
<1>3. ScalarsOK'
  BY <1>2, CallAt DEF ScalarsOK, AskStop, watchVars, onvifVars, reserveVars
<1>. DEFINE r == [Idle EXCEPT !.kind = kind, !.pc = "stop"]
<1>4. r \in CallSet /\ Brings(r)
  BY BegunTyped DEF KindsBegun, PCs, Bringing
<1>5. Set(h, r) /\ call[h].kind \notin Bringing /\ UNCHANGED <<proc, fallback, lost>>
  BY <1>1, IdleTyped DEF AskStop, Free, reserveVars, Bringing
<1>. HIDE DEF r
<1>6. Kept(h, r)  BY <1>4, <1>5 DEF Kept
<1>. QED  BY <1>3, <1>6, StepKept

-----------------------------------------------------------------------------
(* The API's start, with the synchronization it begins with.                 *)
LEMMA BootTyped ==
  ASSUME NEW h \in Calls
  PROVE  BootSync(h) \in [Calls -> CallSet] /\ \A g \in Calls : Brings(BootSync(h)[g])
<1>. DEFINE b == [Idle EXCEPT !.kind = "save", !.pc = "saved"]
            i == Idle
<1>1. b \in CallSet /\ Brings(b)  BY BegunTyped DEF KindsBegun, PCs, Bringing
<1>2. i \in CallSet /\ Brings(i)  BY IdleTyped
<1>3. BootSync(h) = [g \in Calls |-> IF g = h THEN b ELSE i]  BY DEF BootSync
<1>. HIDE DEF b, i
<1>. QED  BY <1>1, <1>2, <1>3

LEMMA ApiRestartStep ==
  ASSUME IInv, ApiRestart
  PROVE  IInv'
<1>0. PICK h \in Calls : call' = BootSync(h)  BY DEF ApiRestart
<1>1. ScalarsOK'
  <2>1. /\ strikes' \in 0 .. 1 /\ cool' \in 0 .. 2 /\ dead' \in 0 .. DeadSyncs
    BY DeadSyncsAssumption DEF ApiRestart
  <2>2. up' \in BOOLEAN /\ heard' \in BOOLEAN /\ fallback' \in BOOLEAN /\ lost' \in Losses
    BY Zenon DEF Losses, ApiRestart
  <2>3. UNCHANGED <<on, row, proc>>  BY DEF ApiRestart, rowVars
  <2>. QED  BY <2>1, <2>2, <2>3, TypesSplit DEF IInv, ScalarsOK
<1>2. call' \in [Calls -> CallSet] /\ CallsBring'
  BY <1>0, BootTyped DEF CallsBring
<1>3. TypeOK'  BY <1>1, <1>2 DEF ScalarsOK, TypeOK, CallSet
<1>4. ReserveIsThere'  BY DEF ApiRestart, ReserveIsThere
<1>. QED  BY <1>2, <1>3, <1>4 DEF IInv

LEMMA InitIInv == Init => IInv
<1>. SUFFICES ASSUME Init PROVE IInv  OBVIOUS
<1>0. PICK h \in Calls : call = BootSync(h)  BY DEF Init
<1>1. call \in [Calls -> CallSet] /\ CallsBring
  BY <1>0, BootTyped DEF CallsBring
<1>2. ScalarsOK
  <2>1. strikes \in 0 .. 1 /\ cool \in 0 .. 2 /\ dead \in 0 .. DeadSyncs
    BY DeadSyncsAssumption DEF Init
  <2>2. /\ on \in BOOLEAN /\ up \in BOOLEAN /\ heard \in BOOLEAN
        /\ fallback \in BOOLEAN /\ lost \in Losses
    BY Zenon DEF Losses, Init
  <2>. QED  BY <2>1, <2>2 DEF Init, ScalarsOK
<1>3. TypeOK  BY <1>1, <1>2, TypesSplit
<1>4. ReserveIsThere  BY DEF Init, ReserveIsThere
<1>. QED  BY <1>1, <1>3, <1>4 DEF IInv

LEMMA CallStepKeeps ==
  ASSUME IInv, NEW h \in Calls, CallStep(h)
  PROVE  IInv'
  BY GateStep, CameraStep, PostStep, StopStep, SyncAllStep, SyncSettingsStep,
     SyncListStep, SweepStep, HealthStep, MissingGateStep, MissingStep, StrikeStep,
     ProbeAnswersStep, FlipStep
     DEF CallStep

LEMMA CallFailsKeeps ==
  ASSUME IInv, NEW h \in Calls, CallFails(h)
  PROVE  IInv'
  BY StartFailsStep, StopFailsStep, SyncFailsStep, HealthFailsStep, WatchFailsStep
     DEF CallFails

LEMMA NextIInv ==
  ASSUME IInv, [Next]_vars
  PROVE  IInv'
<1>1. CASE Works
  BY <1>1, CallStepKeeps, WatchStep, CycleStep, MotionStep, ProbeStep, AskStep,
     AskStopStep, AskSyncStep, ConnectsStep, DropsStep, EditStep, SightStep,
     TimePassesStep
     DEF Works
<1>2. CASE \E h \in Calls : CallFails(h)  BY <1>2, CallFailsKeeps
<1>3. CASE AiRestart  BY <1>3, AiRestartStep
<1>4. CASE ApiRestart  BY <1>4, ApiRestartStep
<1>5. CASE UNCHANGED vars
  BY <1>5 DEF vars, rowVars, watchVars, onvifVars, reserveVars, IInv, TypeOK,
              CallsBring, ReserveIsThere
<1>. QED  BY <1>1, <1>2, <1>3, <1>4, <1>5 DEF Next

(* The calls, the row and the counters stay what they are meant to be,       *)
(* whoever runs side by side.                                                *)
THEOREM TypeCorrect == Spec => []TypeOK
<1>1. IInv /\ [Next]_vars => IInv'  BY NextIInv
<1>2. IInv => TypeOK  BY DEF IInv
<1>. QED  BY InitIInv, <1>1, <1>2, PTL DEF Spec

(* Whatever calls run side by side, and whichever of them fails: a reserve    *)
(* that is marked as active has a processor, or a start or restart of it is  *)
(* under way, but for the three ways in which the code leaves a mark without *)
(* one: its own start was answered `disabled', the watchdog could not start  *)
(* again what it had stopped, or a synchronization, a request or the AI      *)
(* service's restart took it away.  A start that throws never leaves one.    *)
THEOREM ReserveAlwaysThere == Spec => []ReserveIsThere
<1>1. IInv /\ [Next]_vars => IInv'  BY NextIInv
<1>2. IInv => ReserveIsThere  BY DEF IInv
<1>. QED  BY InitIInv, <1>1, <1>2, PTL DEF Spec
=============================================================================
