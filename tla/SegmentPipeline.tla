--------------------------- MODULE SegmentPipeline ---------------------------
(***************************************************************************)
(* What becomes of the footage of one camera on disk. FFmpeg cuts the      *)
(* stream into .ts segments; a scan of the camera's directory remuxes each *)
(* closed segment to .mp4, registers it in the database and removes the    *)
(* .ts; the orphan recovery does the same for what a crash left behind.    *)
(*                                                                         *)
(* A job is the chain of scans of one recording state (scanInFlight makes  *)
(* it one at a time) or an orphan recovery; nothing keeps a recovery from  *)
(* beginning while an earlier one is at work. A job works through a list   *)
(* of files taken when it began and awaits ffprobe, FFmpeg, the database   *)
(* and unlink for each, so two jobs may be at the same file.               *)
(***************************************************************************)
EXTENDS Naturals, FiniteSets

CONSTANTS
    Segs,           \* segments, numbered in the order they are recorded (a bound)
    States,         \* recording states: one per start() (a bound)
    Recoveries,     \* runs of recoverOrphanedSegments at one time (a bound)
    None,           \* no active state, no segment
    Ops             \* failures and overlaps of this instance

ASSUME SegsAssumption == Segs \subseteq Nat /\ IsFiniteSet(Segs)
ASSUME NamesAssumption ==
    /\ Recoveries \cap States = {} /\ None \notin States
    /\ None \notin Segs /\ None \notin Segs \X {"mp4", "ts"}
ASSUME OpsAssumption ==
    Ops \subseteq {"recovery", "remuxFails", "probeFails", "dbFails", "crash", "time",
                   "startInRecovery",   \* a recording starts while a recovery is at work
                   "twoStarts",         \* two starts of the camera overlap (903-939)
                   "writesOn"}          \* FFmpeg outlives the 7.5 s of stop (842)

Jobs == States \cup Recoveries

\* A file on a job's list: recovery also takes .mp4 files nobody registered.
Item == Segs \X {"mp4", "ts"}

VARIABLES
    ts,         \* ts[s]: the segment's .ts, open while FFmpeg writes it; "givenUp" is
                \* none, by a recovery that took it for invalid
    mp4,        \* mp4[s]: its .mp4; "short" if it was made of an open .ts
    opened,     \* history: the segments FFmpeg has opened so far
    together,   \* history: those that were open while a second recording of the camera
                \* was alive, or while their own was not in the map or given up on
    hurt,       \* history: those at which a job failed or was cut short
    rec,        \* segments with a row in the recordings table
    tsAge, mp4Age,  \* 0, 1 past the grace period, 2 past the delete period
    writing,    \* writing[p]: the segment the FFmpeg of state p writes
    active,     \* active.get(cameraId)
    state,      \* state[p]: "none", "live", "final" (finalizePromise set)
    known,      \* known[p]: state.knownFiles
    pc,         \* where job j stands
    todo,       \* the files it has still to do
    item,       \* the file it is at
    snap        \* what a recovery read when it began: registered rows, ages

diskVars == <<ts, mp4, opened, together, tsAge, mp4Age>>
stateVars == <<writing, active, state, known>>
jobVars == <<pc, todo, item, snap>>
vars == <<ts, mp4, opened, together, hurt, rec, tsAge, mp4Age, writing, active, state, known, pc, todo,
          item, snap>>

PCs == {"idle", "next", "probe", "remux", "register", "unlink", "failed", "unread"}

TypeOK ==
    /\ ts \in [Segs -> {"none", "open", "closed", "givenUp"}]
    /\ mp4 \in [Segs -> {"none", "empty", "partial", "short", "whole"}]
    /\ opened \subseteq Segs /\ together \subseteq Segs /\ hurt \subseteq Segs
    /\ rec \subseteq Segs
    /\ tsAge \in [Segs -> 0..2] /\ mp4Age \in [Segs -> 0..2]
    /\ writing \in [States -> Segs \cup {None}]
    /\ active \in States \cup {None}
    /\ state \in [States -> {"none", "live", "final"}]
    /\ known \in [States -> SUBSET Segs]
    /\ pc \in [Jobs -> PCs]
    /\ todo \in [Jobs -> SUBSET Item]
    /\ item \in [Jobs -> Item \cup {None}]
    /\ \A j \in Jobs : pc[j] \notin {"idle", "next"} => item[j] # None
    /\ snap \in [Recoveries -> [rec : SUBSET Segs, old : SUBSET Item]]

-----------------------------------------------------------------------------
\* Helpers

Goto(j, l) == pc' = [pc EXCEPT ![j] = l]
OnDisk == {s \in Segs : ts[s] \in {"open", "closed"}}

\* unlink of a .ts, if it is there.
Removed(s) == IF s \in OnDisk THEN [ts EXCEPT ![s] = "none"] ELSE ts

\* Files come in the order of their names: X.mp4 before X.ts, both before the
\* next segment's.
Before(a, b) == a[1] < b[1] \/ (a[1] = b[1] /\ a[2] = "mp4" /\ b[2] = "ts")
First(S) == {a \in S : \A b \in S : a = b \/ Before(a, b)}

\* existsSync(mp4Path) and a size other than 0.
HasMp4(s) == mp4[s] \notin {"none", "empty"}
Playable(s) == mp4[s] \in {"short", "whole"}

\* A remux of s is running in some job other than j.
Remuxing(s, j) == \E k \in Jobs \ {j} : pc[k] = "remux" /\ item[k] = <<s, "ts">>

\* What a recovery remembers while it is not at work.
NoSnap == [rec |-> {}, old |-> {}]

\* The file a job is at is done with, well or badly.
ItemDone(j) == Goto(j, "next") /\ item' = [item EXCEPT ![j] = None]

-----------------------------------------------------------------------------
\* FFmpeg

\* The other recordings of the camera: those with a state, in the map or not, and
\* those of which only FFmpeg is left.
Others(p) == {q \in States \ {p} : state[q] # "none" \/ writing[q] # None}

\* A new segment: names grow with time (two FFmpegs name theirs by different
\* seconds).
Opens(p, s) ==
    /\ s \notin opened /\ \A q \in Segs : q < s => q \in opened
    /\ opened' = opened \cup {s}
    /\ together' = together \cup {r \in Segs :
                      \/ \E q \in Others(p) : r \in {s, writing[q]}
                      \/ r = s /\ writing[p] # None /\ ~(state[p] = "live" /\ active = p)}
    /\ writing' = [writing EXCEPT ![p] = s]
    /\ tsAge' = [tsAge EXCEPT ![s] = 0]

\* start() has spawned FFmpeg, which opens its first segment. Of two starts that
\* overlap the second overwrites the first in the map.
Start(p, s) ==
    /\ state[p] = "none" /\ writing[p] = None
    /\ active = None \/ "twoStarts" \in Ops
    /\ (\A r \in Recoveries : pc[r] = "idle") \/ "startInRecovery" \in Ops
    /\ Opens(p, s)
    /\ ts' = [ts EXCEPT ![s] = "open"]
    /\ state' = [state EXCEPT ![p] = "live"]
    /\ known' = [known EXCEPT ![p] = {}]
    /\ active' = p
    /\ UNCHANGED <<mp4, hurt, rec, mp4Age, jobVars>>

\* -segment_time has passed: the segment is closed, the next one opened.
Rotate(p, s) ==
    /\ writing[p] # None
    /\ Opens(p, s)
    /\ ts' = [ts EXCEPT ![s] = "open",
                        ![writing[p]] = IF @ = "open" THEN "closed" ELSE @]
    /\ UNCHANGED <<mp4, hurt, rec, mp4Age, active, state, known, jobVars>>

\* FFmpeg exits, by itself or because stop() signalled it.
Exit(p) ==
    /\ writing[p] # None
    /\ ts' = [ts EXCEPT ![writing[p]] = IF @ = "open" THEN "closed" ELSE @]
    /\ writing' = [writing EXCEPT ![p] = None]
    /\ UNCHANGED <<opened, together, hurt, mp4, rec, tsAge, mp4Age, active, state, known,
                   jobVars>>

-----------------------------------------------------------------------------
\* Jobs begin

\* Mutant: the watcher's scan also takes the newest file.
ScanBeginsAll(p) ==
    /\ active = p /\ state[p] = "live"
    /\ pc[p] = "idle"
    /\ todo' = [todo EXCEPT ![p] = OnDisk \X {"ts"}]
    /\ Goto(p, "next")
    /\ UNCHANGED <<diskVars, hurt, rec, stateVars, item, snap>>

\* The 5 s watcher scans all the camera's .ts files but the newest.
ScanBegins(p) ==
    /\ active = p /\ state[p] = "live"
    /\ pc[p] = "idle"
    /\ todo' = [todo EXCEPT ![p] = {s \in OnDisk : \E q \in OnDisk : s < q} \X {"ts"}]
    /\ Goto(p, "next")
    /\ UNCHANGED <<diskVars, hurt, rec, stateVars, item, snap>>

\* finalizeRecordingState, after the exit or after stop's give-up: a scan in
\* flight is awaited, then every file is scanned.
FinalScanBegins(p) ==
    /\ state[p] = "live"
    /\ writing[p] = None \/ "writesOn" \in Ops
    /\ pc[p] = "idle"
    /\ state' = [state EXCEPT ![p] = "final"]
    /\ todo' = [todo EXCEPT ![p] = OnDisk \X {"ts"}]
    /\ together' = together \cup ({writing[p]} \cap Segs)
    /\ Goto(p, "next")
    /\ UNCHANGED <<ts, mp4, opened, tsAge, mp4Age, hurt, rec, writing, active, known, item, snap>>

\* recoverOrphanedSegments lists the files past the grace period: any .ts, and
\* an .mp4 that no row names. It remembers the rows and the ages it saw.
RecoveryBegins(r) ==
    /\ "recovery" \in Ops
    /\ active = None
    /\ pc[r] = "idle"
    /\ todo' = [todo EXCEPT ![r] =
                  {<<s, "ts">> : s \in {q \in OnDisk : tsAge[q] >= 1}} \cup
                  {<<s, "mp4">> : s \in {q \in Segs : mp4[q] # "none" /\ mp4Age[q] >= 1 /\ q \notin rec}}]
    /\ snap' = [snap EXCEPT ![r] =
                  [rec |-> rec,
                   old |-> {<<s, "ts">> : s \in {q \in Segs : tsAge[q] = 2}} \cup
                           {<<s, "mp4">> : s \in {q \in Segs : mp4Age[q] = 2}}]]
    /\ Goto(r, "next")
    /\ UNCHANGED <<diskVars, hurt, rec, stateVars, item>>

-----------------------------------------------------------------------------
\* A job at a file

Take(j, f) ==
    /\ pc[j] = "next"
    /\ f \in First(todo[j])
    /\ todo' = [todo EXCEPT ![j] = @ \ {f}]

\* What remuxAndRegisterTsSegment does first: an .mp4 with content is registered
\* as it is, otherwise the .ts is probed and remuxed.
Enter(j, s) == Goto(j, IF HasMp4(s) THEN "register" ELSE "probe")

\* A scan skips the files it knows and those still empty; statSync of a file
\* that another job has removed ends the whole scan.
ScanNext(p) == \E f \in todo[p] :
    /\ Take(p, f)
    /\ LET s == f[1] IN
       \/ /\ s \in known[p] \/ ts[s] = "open"
          /\ UNCHANGED <<pc, item>>
       \/ /\ s \notin known[p] /\ s \in OnDisk
          /\ item' = [item EXCEPT ![p] = <<s, "ts">>]
          /\ Enter(p, s)
    /\ UNCHANGED <<diskVars, hurt, rec, stateVars, snap>>

ScanAborts(p) ==
    /\ pc[p] = "next"
    /\ \E f \in First(todo[p]) : f[1] \notin known[p] /\ f[1] \notin OnDisk
    /\ todo' = [todo EXCEPT ![p] = {}]
    /\ UNCHANGED <<diskVars, hurt, rec, stateVars, pc, item, snap>>

\* Mutant: an .mp4 beside the .ts is taken for a registered one.
RecoveryNextByFile(r) == \E f \in todo[r] :
    /\ Take(r, f)
    /\ LET s == f[1] IN
       \/ /\ active # None
          /\ UNCHANGED <<ts, pc, item>>
       \/ /\ active = None /\ f[2] = "ts" /\ HasMp4(s)
          /\ ts' = Removed(s)
          /\ UNCHANGED <<pc, item>>
       \/ /\ active = None /\ ~(f[2] = "ts" /\ HasMp4(s))
          /\ item' = [item EXCEPT ![r] = f]
          /\ IF f[2] = "ts" THEN Enter(r, s) ELSE Goto(r, "register")
          /\ UNCHANGED ts
    /\ UNCHANGED <<opened, together, hurt, mp4, tsAge, mp4Age, rec, stateVars, snap>>

\* A recovery skips the cameras that record by now; the .ts of a registered
\* .mp4 is removed.
RecoveryNext(r) == \E f \in todo[r] :
    /\ Take(r, f)
    /\ LET s == f[1] IN
       \/ /\ active # None
          /\ UNCHANGED <<ts, pc, item>>
       \/ /\ active = None /\ f[2] = "ts" /\ s \in snap[r].rec
          /\ ts' = Removed(s)
          /\ UNCHANGED <<pc, item>>
       \/ /\ active = None /\ f[2] = "ts" /\ s \notin snap[r].rec
          /\ item' = [item EXCEPT ![r] = f]
          /\ Enter(r, s)
          /\ UNCHANGED ts
       \/ /\ active = None /\ f[2] = "mp4"
          /\ item' = [item EXCEPT ![r] = f]
          /\ Goto(r, "register")
          /\ UNCHANGED ts
    /\ UNCHANGED <<opened, together, hurt, mp4, tsAge, mp4Age, rec, stateVars, snap>>

\* The codec is probed, then FFmpeg opens the .ts and truncates the .mp4 (-y),
\* or fails, if the .ts is gone by now.
RemuxBegins(j) ==
    /\ pc[j] = "probe"
    /\ LET s == item[j][1] IN
       IF s \notin OnDisk
       THEN /\ mp4' = [mp4 EXCEPT ![s] = "none"]
            /\ Goto(j, "failed")
            /\ UNCHANGED mp4Age
       ELSE /\ \E v \in {"empty", "partial"} : mp4' = [mp4 EXCEPT ![s] = v]
            /\ mp4Age' = [mp4Age EXCEPT ![s] = 0]
            /\ Goto(j, "remux")
    /\ UNCHANGED <<opened, together, hurt, ts, tsAge, rec, stateVars, todo, item, snap>>

\* Another job may have removed the .mp4 while it was written.
RemuxEnds(j) ==
    /\ pc[j] = "remux"
    /\ LET s == item[j][1] IN
       mp4' = [mp4 EXCEPT ![s] = IF @ = "none" THEN "none"
                                 ELSE IF Remuxing(s, j) THEN "partial"
                                 ELSE IF ts[s] = "open" THEN "short" ELSE "whole"]
    /\ Goto(j, "register")
    /\ UNCHANGED <<opened, together, hurt, ts, tsAge, mp4Age, rec, stateVars, todo, item, snap>>

\* Mutant: what a failed remux wrote is left on disk.
RemuxFailsLeaving(j) ==
    /\ "remuxFails" \in Ops
    /\ pc[j] = "remux"
    /\ mp4' = [mp4 EXCEPT ![item[j][1]] = "partial"]
    /\ hurt' = hurt \cup {item[j][1]}
    /\ Goto(j, "failed")
    /\ UNCHANGED <<opened, together, ts, tsAge, mp4Age, rec, stateVars, todo, item, snap>>

\* FFmpeg fails or takes 180 s: whatever it wrote is removed.
RemuxFails(j) ==
    /\ "remuxFails" \in Ops
    /\ pc[j] = "remux"
    /\ mp4' = [mp4 EXCEPT ![item[j][1]] = "none"]
    /\ hurt' = hurt \cup {item[j][1]}
    /\ Goto(j, "failed")
    /\ UNCHANGED <<opened, together, ts, tsAge, mp4Age, rec, stateVars, todo, item, snap>>

\* Mutant: registerSegment takes a file ffprobe cannot read.
RegisterUnprobed(j) ==
    /\ pc[j] = "register"
    /\ rec' = rec \cup {item[j][1]}
    /\ Goto(j, "unlink")
    /\ UNCHANGED <<diskVars, hurt, stateVars, todo, item, snap>>

\* An .mp4 on a recovery's list that is gone when it is probed ends the whole
\* recovery: the statSync after the failed probe throws outside the try.
RecoveryAborts(r) ==
    /\ pc[r] = "register"
    /\ item[r][2] = "mp4" /\ mp4[item[r][1]] = "none"
    /\ todo' = [todo EXCEPT ![r] = {}]
    /\ ItemDone(r)
    /\ UNCHANGED <<diskVars, hurt, rec, stateVars, snap>>

\* The recovery probes an .mp4 before registerSegment does.
Unusable(j) == IF item[j][2] = "mp4" THEN "unread" ELSE "failed"

\* registerSegment: ffprobe must find a duration, then the row is written.
Register(j) ==
    /\ pc[j] = "register"
    /\ item[j][2] = "ts" \/ mp4[item[j][1]] # "none"
    /\ IF Playable(item[j][1])
       THEN rec' = rec \cup {item[j][1]} /\ Goto(j, "unlink")
       ELSE Goto(j, Unusable(j)) /\ UNCHANGED rec
    /\ UNCHANGED <<diskVars, hurt, stateVars, todo, item, snap>>

\* The row cannot be written, or ffprobe takes 15 s over an .mp4 that plays.
RegisterFails(j) ==
    /\ pc[j] = "register"
    /\ \/ Ops \cap {"dbFails", "probeFails"} # {} /\ Goto(j, "failed")
       \/ "probeFails" \in Ops /\ mp4[item[j][1]] # "none" /\ Goto(j, Unusable(j))
    /\ hurt' = hurt \cup {item[j][1]}
    /\ UNCHANGED <<diskVars, rec, stateVars, todo, item, snap>>

\* The .ts is removed and the file is known; a recovered .mp4 has none to remove.
Unlink(j) ==
    /\ pc[j] = "unlink"
    /\ LET s == item[j][1] IN
       /\ ts' = IF item[j][2] = "ts" THEN Removed(s) ELSE ts
       /\ IF j \in Recoveries
          THEN snap' = [snap EXCEPT ![j].rec = @ \cup {s}] /\ UNCHANGED known
          ELSE known' = [known EXCEPT ![j] = @ \cup {s}] /\ UNCHANGED snap
    /\ ItemDone(j)
    /\ UNCHANGED <<opened, together, hurt, mp4, rec, tsAge, mp4Age, writing, active, state,
                   todo>>

\* Mutant: the recovery gives up what fails, however young it is.
FailsAtOnce(j) ==
    /\ pc[j] \in {"failed", "unread"}
    /\ LET s == item[j][1]
           deletes == j \in Recoveries IN
       /\ ts' = IF deletes /\ item[j][2] = "ts" /\ s \in OnDisk
                THEN [ts EXCEPT ![s] = "givenUp"] ELSE ts
       /\ mp4' = IF deletes /\ pc[j] = "unread" THEN [mp4 EXCEPT ![s] = "none"] ELSE mp4
    /\ ItemDone(j)
    /\ UNCHANGED <<opened, together, hurt, rec, tsAge, mp4Age, stateVars, todo, snap>>

\* A scan leaves a file that failed for the next scan. So does a recovery, unless
\* the file it could not use was past the delete period when it was listed: a .ts
\* whose remux or registration failed, an .mp4 that ffprobe did not read.
Fails(j) ==
    /\ pc[j] \in {"failed", "unread"}
    /\ LET s == item[j][1]
           deletes == j \in Recoveries /\ item[j] \in snap[j].old IN
       /\ ts' = IF deletes /\ item[j][2] = "ts" /\ s \in OnDisk
                THEN [ts EXCEPT ![s] = "givenUp"] ELSE ts
       /\ mp4' = IF deletes /\ pc[j] = "unread" THEN [mp4 EXCEPT ![s] = "none"] ELSE mp4
    /\ ItemDone(j)
    /\ UNCHANGED <<opened, together, hurt, rec, tsAge, mp4Age, stateVars, todo, snap>>

\* The list is done. The final scan's end takes the entry out of the map.
JobEnds(j) ==
    /\ pc[j] = "next"
    /\ todo[j] = {}
    /\ Goto(j, "idle")
    /\ item' = [item EXCEPT ![j] = None]
    /\ IF j \in States /\ state[j] = "final"
       THEN /\ state' = [state EXCEPT ![j] = "none"]
            /\ known' = [known EXCEPT ![j] = {}]
            /\ active' = IF active = j THEN None ELSE active
       ELSE UNCHANGED <<state, active, known>>
    /\ snap' = [r \in Recoveries |-> IF r = j THEN NoSnap ELSE snap[r]]
    /\ UNCHANGED <<diskVars, hurt, rec, writing, todo>>

-----------------------------------------------------------------------------
\* Time and crashes

\* What nobody writes grows older, all together; a segment after its .ts is gone too.
TimePasses ==
    /\ "time" \in Ops
    /\ tsAge' = [s \in Segs |-> IF s \in opened /\ ts[s] # "open" /\ tsAge[s] < 2
                                THEN tsAge[s] + 1 ELSE tsAge[s]]
    /\ mp4Age' = [s \in Segs |-> IF mp4[s] # "none" /\ mp4Age[s] < 2
                                     /\ ~Remuxing(s, None)
                                 THEN mp4Age[s] + 1 ELSE mp4Age[s]]
    /\ UNCHANGED <<opened, together, hurt, ts, mp4, rec, stateVars, jobVars>>

\* The API's container dies with all its FFmpegs; the files stay as they are.
Crash ==
    /\ "crash" \in Ops
    /\ ts' = [s \in Segs |-> IF ts[s] = "open" THEN "closed" ELSE ts[s]]
    /\ writing' = [p \in States |-> None]
    /\ active' = None
    /\ state' = [p \in States |-> "none"]
    /\ known' = [p \in States |-> {}]
    /\ pc' = [j \in Jobs |-> "idle"]
    /\ todo' = [j \in Jobs |-> {}]
    /\ item' = [j \in Jobs |-> None]
    /\ snap' = [r \in Recoveries |-> NoSnap]
    /\ hurt' = hurt \cup {s \in Segs : \E j \in Jobs : pc[j] = "remux" /\ item[j][1] = s}
    /\ UNCHANGED <<opened, together, mp4, rec, tsAge, mp4Age>>

-----------------------------------------------------------------------------
Init ==
    /\ ts = [s \in Segs |-> "none"]
    /\ mp4 = [s \in Segs |-> "none"]
    /\ opened = {} /\ together = {} /\ hurt = {} /\ rec = {}
    /\ tsAge = [s \in Segs |-> 0]
    /\ mp4Age = [s \in Segs |-> 0]
    /\ writing = [p \in States |-> None]
    /\ active = None
    /\ state = [p \in States |-> "none"]
    /\ known = [p \in States |-> {}]
    /\ pc = [j \in Jobs |-> "idle"]
    /\ todo = [j \in Jobs |-> {}]
    /\ item = [j \in Jobs |-> None]
    /\ snap = [r \in Recoveries |-> NoSnap]

Camera(p) == \/ \E s \in Segs : Start(p, s) \/ Rotate(p, s)
             \/ Exit(p)
JobBegins == \/ \E p \in States : ScanBegins(p) \/ FinalScanBegins(p)
             \/ \E r \in Recoveries : RecoveryBegins(r)
JobStep(j) == \/ j \in States /\ (ScanNext(j) \/ ScanAborts(j))
              \/ j \in Recoveries /\ (RecoveryNext(j) \/ RecoveryAborts(j))
              \/ RemuxBegins(j) \/ RemuxEnds(j) \/ RemuxFails(j)
              \/ Register(j) \/ RegisterFails(j)
              \/ Unlink(j) \/ Fails(j) \/ JobEnds(j)

Next ==
    \/ \E p \in States : Camera(p)
    \/ JobBegins
    \/ \E j \in Jobs : JobStep(j)
    \/ TimePasses
    \/ Crash

Spec == Init /\ [][Next]_vars

\* Every await of a job resolves; the watcher of a live state and the recovery's
\* timer fire again and again; a remux and a write that are tried again and again
\* succeed; FFmpeg ends only when the camera or an operator ends it.
Fairness ==
    /\ WF_vars(TimePasses)
    /\ \A r \in Recoveries : SF_vars(RecoveryBegins(r))
    /\ \A p \in States : SF_vars(ScanBegins(p)) /\ SF_vars(FinalScanBegins(p))
    /\ \A j \in Jobs : WF_vars(JobStep(j)) /\ SF_vars(RemuxEnds(j)) /\ SF_vars(Register(j))

FairSpec == Spec /\ Fairness

-----------------------------------------------------------------------------
\* Properties

\* A .ts disappears only once an .mp4 with all of its footage is there, or as one
\* that the recovery could not use and that is past the delete period, whatever
\* fails or crashes (676-679, 717-759).
NoFootageLost == \A s \in opened : ts[s] = "none" => mp4[s] = "whole"

\* A recording the database lists can be played from the file it names.
RegisteredPlayable == \A s \in rec : Playable(s)

\* A segment is remuxed only after FFmpeg has closed it (784), with scans and
\* recoveries at the same files. The code does not keep this for the segments in
\* together: where two FFmpegs of the camera are alive at once (two starts that
\* overlap, 903-939, or a start after the give-up) the newest file is not the only
\* open one, and the final scan after the give-up finds FFmpeg still writing (842).
OnlyClosedRemuxed ==
    \A j \in Jobs : pc[j] = "remux" =>
       ts[item[j][1]] # "open" \/ item[j][1] \in together

\* The segments of which neither file has the footage any more.
Lost == {s \in opened \ rec : s \notin OnDisk /\ mp4[s] # "whole"}

Footage == INSTANCE Archive WITH
    recorded <- opened, old <- {s \in opened : tsAge[s] = 2}, listed <- rec, lost <- Lost

\* Files, rows and remuxes keep what an archive promises: what is listed stays
\* listed, what is not listed is given up only past the delete period, and
\* nothing is lost otherwise.
ArchiveSpec == Footage!Spec

\* Every closed segment comes to be listed, or it is deleted by a recovery that
\* found it past the delete period (734-736), and then a remux, a probe or a write
\* did fail at it: two jobs that get in each other's way are no reason. Without a crash:
\* the partial .mp4 that one leaves (655) is replaced by a recovery only, which passes
\* over a camera that records.
ClosedGetsRegistered ==
    \A s \in Segs : ts[s] = "closed" ~> s \in rec \/ (ts[s] = "givenUp" /\ s \in hurt)
=============================================================================
