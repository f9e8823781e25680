------------------------ MODULE SegmentPipelineProofs ------------------------
(***************************************************************************)
(* SegmentPipeline for any segments, any number of recording states and of *)
(* recoveries: its types, that only closed segments are remuxed unless two *)
(* FFmpegs of the camera have been alive together, and that a job passes   *)
(* over or removes a segment only if it has a row. And, while recordings   *)
(* and recoveries come one after another, that what the database lists can *)
(* be played, that no footage is lost and that the whole implements        *)
(* Archive.                                                                *)
(***************************************************************************)
EXTENDS SegmentPipeline, TLAPS

TsSet == {"none", "open", "closed", "givenUp"}
Mp4Set == {"none", "empty", "partial", "short", "whole"}

DiskTypes ==
    /\ ts \in [Segs -> TsSet] /\ mp4 \in [Segs -> Mp4Set]
    /\ opened \subseteq Segs /\ rec \subseteq Segs
    /\ together \subseteq Segs /\ hurt \subseteq Segs
    /\ tsAge \in [Segs -> 0..2] /\ mp4Age \in [Segs -> 0..2]
StateTypes ==
    /\ writing \in [States -> Segs \cup {None}]
    /\ active \in States \cup {None}
    /\ state \in [States -> {"none", "live", "final"}]
    /\ known \in [States -> SUBSET Segs]
JobTypes ==
    /\ pc \in [Jobs -> PCs]
    /\ todo \in [Jobs -> SUBSET Item]
    /\ item \in [Jobs -> Item \cup {None}]
    /\ \A j \in Jobs : pc[j] \notin {"idle", "next"} => item[j] # None
    /\ snap \in [Recoveries -> [rec : SUBSET Segs, old : SUBSET Item]]
Types == DiskTypes /\ StateTypes /\ JobTypes

LEMMA ItemTyped ==
    ASSUME JobTypes, NEW j \in Jobs, pc[j] \notin {"idle", "next"}
    PROVE  item[j] \in Item /\ item[j][1] \in Segs /\ item[j][2] \in {"mp4", "ts"}
BY DEF JobTypes, Item

LEMMA TodoTyped ==
    ASSUME JobTypes, NEW j \in Jobs, NEW f \in todo[j]
    PROVE  f \in Item /\ f[1] \in Segs /\ f[2] \in {"mp4", "ts"}
BY DEF JobTypes, Item

LEMMA StatesAreJobs == States \subseteq Jobs /\ Recoveries \subseteq Jobs
BY DEF Jobs

LEMMA RemovedTyped ==
    ASSUME DiskTypes, NEW s \in Segs
    PROVE  /\ Removed(s) \in [Segs -> TsSet]
           /\ Removed(s)[s] \in {"none", "givenUp"}
           /\ Removed(s)[s] # ts[s] => ts[s] # "none"
           /\ \A q \in Segs \ {s} : Removed(s)[q] = ts[q]
BY DEF Removed, OnDisk, DiskTypes, TsSet

\* FFmpeg's steps leave the jobs alone.
LEMMA CameraTypes ==
    ASSUME Types, NEW p \in States, Camera(p)
    PROVE  Types'
<1>1. JobTypes'
  BY DEF Types, JobTypes, Camera, Start, Rotate, Exit, jobVars
<1>2. ASSUME NEW s \in Segs, Opens(p, s)
      PROVE  /\ opened' \subseteq Segs /\ together' \subseteq Segs
             /\ tsAge' \in [Segs -> 0..2]
             /\ writing' \in [States -> Segs \cup {None}]
  BY <1>2 DEF Types, DiskTypes, StateTypes, Opens
<1>3. ASSUME NEW s \in Segs, Start(p, s)  PROVE Types'
  BY <1>1, <1>2, <1>3 DEF Types, Start, DiskTypes, StateTypes, TsSet
<1>4. ASSUME NEW s \in Segs, Rotate(p, s)  PROVE Types'
  <2>. DEFINE w == writing[p]
              v == IF ts[w] = "open" THEN "closed" ELSE ts[w]
  <2>1. w \in Segs /\ v \in TsSet
    BY <1>4 DEF Types, DiskTypes, StateTypes, Rotate, TsSet
  <2>2. ts' \in [Segs -> TsSet]
    BY <1>4, <2>1 DEF Types, DiskTypes, Rotate, TsSet
  <2>. QED  BY <1>1, <1>2, <1>4, <2>2 DEF Types, Rotate, DiskTypes, StateTypes
<1>5. CASE Exit(p)
  BY <1>1, <1>5 DEF Types, Exit, DiskTypes, StateTypes, TsSet
<1>. QED  BY <1>3, <1>4, <1>5 DEF Camera

LEMMA JobBeginsTypes ==
    ASSUME Types, JobBegins
    PROVE  Types'
<1>. USE StatesAreJobs
<1>1. ASSUME NEW p \in States, ScanBegins(p)  PROVE Types'
  <2>1. {s \in OnDisk : \E q \in OnDisk : s < q} \X {"ts"} \in SUBSET Item
    BY DEF OnDisk, Item
  <2>. QED
    BY <1>1, <2>1 DEF Types, ScanBegins, DiskTypes, StateTypes, JobTypes, diskVars, stateVars,
                      Goto, PCs
<1>2. ASSUME NEW p \in States, FinalScanBegins(p)  PROVE Types'
  <2>1. OnDisk \X {"ts"} \in SUBSET Item  BY DEF OnDisk, Item
  <2>2. together' \subseteq Segs  BY <1>2 DEF FinalScanBegins, Types, DiskTypes
  <2>. QED
    BY <1>2, <2>1, <2>2 DEF Types, FinalScanBegins, DiskTypes, StateTypes, JobTypes, diskVars,
                      Goto, PCs
<1>3. ASSUME NEW r \in Recoveries, RecoveryBegins(r)  PROVE Types'
  <2>. DEFINE T == {<<s, "ts">> : s \in {q \in OnDisk : tsAge[q] >= 1}} \cup
                   {<<s, "mp4">> : s \in {q \in Segs : /\ mp4[q] # "none" /\ mp4Age[q] >= 1
                                                       /\ q \notin rec}}
              O == {<<s, "ts">> : s \in {q \in Segs : tsAge[q] = 2}} \cup
                   {<<s, "mp4">> : s \in {q \in Segs : mp4Age[q] = 2}}
  <2>1. T \in SUBSET Item /\ O \in SUBSET Item  BY DEF OnDisk, Item
  <2>2. todo' = [todo EXCEPT ![r] = T] /\ snap' = [snap EXCEPT ![r] = [rec |-> rec, old |-> O]]
    BY <1>3 DEF RecoveryBegins
  <2>. HIDE DEF T, O
  <2>. QED
    BY <1>3, <2>1, <2>2 DEF Types, RecoveryBegins, DiskTypes, StateTypes, JobTypes, diskVars,
                            stateVars, Goto, PCs
<1>. QED  BY <1>1, <1>2, <1>3 DEF JobBegins

\* Taking the next file of a job's list.
LEMMA TakeTyped ==
    ASSUME Types, NEW j \in Jobs, NEW f \in todo[j], Take(j, f)
    PROVE  /\ todo' \in [Jobs -> SUBSET Item]
           /\ f[1] \in Segs /\ f \in Item
BY TodoTyped DEF Types, JobTypes, Take

LEMMA NextTypes ==
    ASSUME Types, NEW j \in Jobs,
           \/ j \in States /\ (ScanNext(j) \/ ScanAborts(j))
           \/ j \in Recoveries /\ (RecoveryNext(j) \/ RecoveryAborts(j))
    PROVE  Types'
<1>1. ASSUME NEW l \in PCs, Goto(j, l)
      PROVE  pc' \in [Jobs -> PCs] /\ pc'[j] = l /\ \A k \in Jobs \ {j} : pc'[k] = pc[k]
  BY <1>1 DEF Types, JobTypes, Goto
<1>2. ASSUME NEW f \in Item, item' = [item EXCEPT ![j] = f]
      PROVE  /\ item' \in [Jobs -> Item \cup {None}] /\ item'[j] = f
             /\ \A k \in Jobs \ {j} : item'[k] = item[k]
  BY <1>2 DEF Types, JobTypes
<1>3. ASSUME NEW f \in Item  PROVE f # None
  BY <1>3, NamesAssumption DEF Item
<1>4. ASSUME ScanNext(j)  PROVE Types'
  <2>1. PICK f \in todo[j] : ScanNext(j)!(f)
    BY <1>4 DEF ScanNext
  <2>2. todo' \in [Jobs -> SUBSET Item] /\ f[1] \in Segs /\ f \in Item
    BY <2>1, TakeTyped
  <2>3. CASE UNCHANGED <<pc, item>>
    BY <2>1, <2>2, <2>3 DEF Types, DiskTypes, StateTypes, JobTypes, diskVars, stateVars
  <2>4. CASE item' = [item EXCEPT ![j] = <<f[1], "ts">>] /\ Enter(j, f[1])
    <3>1. <<f[1], "ts">> \in Item  BY <2>2 DEF Item
    <3>2. PICK l \in PCs : Goto(j, l)  BY <2>4 DEF Enter, PCs
    <3>. QED
      BY <1>1, <1>2, <1>3, <2>1, <2>2, <2>4, <3>1, <3>2
         DEF Types, DiskTypes, StateTypes, JobTypes, diskVars, stateVars
  <2>. QED  BY <2>1, <2>3, <2>4
<1>5. ASSUME ScanAborts(j)  PROVE Types'
  BY <1>5 DEF ScanAborts, Types, DiskTypes, StateTypes, JobTypes, diskVars, stateVars
<1>6. ASSUME j \in Recoveries, RecoveryNext(j)  PROVE Types'
  <2>1. PICK f \in todo[j] : RecoveryNext(j)!(f)
    BY <1>6 DEF RecoveryNext
  <2>2. todo' \in [Jobs -> SUBSET Item] /\ f[1] \in Segs /\ f \in Item
    BY <1>6, <2>1, TakeTyped
  <2>3. ts' \in [Segs -> TsSet]
    BY <2>1, <2>2, RemovedTyped DEF Types, DiskTypes
  <2>4. CASE UNCHANGED <<pc, item>>
    BY <2>1, <2>2, <2>3, <2>4 DEF Types, DiskTypes, StateTypes, JobTypes, stateVars
  <2>5. CASE item' = [item EXCEPT ![j] = f] /\ \E l \in PCs : Goto(j, l)
    BY <1>1, <1>2, <1>3, <2>1, <2>2, <2>3, <2>5
       DEF Types, DiskTypes, StateTypes, JobTypes, stateVars
  <2>. QED  BY <1>6, <2>1, <2>4, <2>5 DEF Enter, PCs
<1>7. ASSUME j \in Recoveries, RecoveryAborts(j)  PROVE Types'
  <2>1. pc' \in [Jobs -> PCs] /\ pc'[j] = "next" /\ \A k \in Jobs \ {j} : pc'[k] = pc[k]
    BY <1>1, <1>7 DEF RecoveryAborts, ItemDone, PCs
  <2>2. /\ item' \in [Jobs -> Item \cup {None}]
        /\ \A k \in Jobs \ {j} : item'[k] = item[k]
    BY <1>7 DEF RecoveryAborts, ItemDone, Types, JobTypes
  <2>. QED
    BY <1>7, <2>1, <2>2 DEF RecoveryAborts, Types, DiskTypes, StateTypes, JobTypes, diskVars, stateVars
<1>. QED  BY <1>4, <1>5, <1>6, <1>7

\* The steps of a job at the file it is at.
LEMMA WorkTypes ==
    ASSUME Types, NEW j \in Jobs,
           \/ RemuxBegins(j) \/ RemuxEnds(j) \/ RemuxFails(j)
           \/ Register(j) \/ RegisterFails(j) \/ Unlink(j) \/ Fails(j)
    PROVE  Types'
<1>1. ASSUME NEW l \in PCs, Goto(j, l)
      PROVE  pc' \in [Jobs -> PCs] /\ pc'[j] = l /\ \A k \in Jobs \ {j} : pc'[k] = pc[k]
  BY <1>1 DEF Types, JobTypes, Goto
<1>2. pc[j] \notin {"idle", "next"}
  BY DEF RemuxBegins, RemuxEnds, RemuxFails, Register, RegisterFails, Unlink, Fails
<1>3. item[j][1] \in Segs /\ item[j] # None
  BY <1>2, ItemTyped DEF Types, JobTypes
<1>. DEFINE Left == /\ pc' \in [Jobs -> PCs] /\ pc'[j] = "next"
                    /\ \A k \in Jobs \ {j} : pc'[k] = pc[k] /\ item'[k] = item[k]
                    /\ item' \in [Jobs -> Item \cup {None}]
<1>11. ItemDone(j) => Left
  BY <1>1 DEF ItemDone, PCs, Types, JobTypes
<1>4. CASE RemuxBegins(j)
  BY <1>1, <1>3, <1>4 DEF RemuxBegins, PCs, Types, DiskTypes, StateTypes, JobTypes, stateVars, Mp4Set
<1>5. CASE RemuxEnds(j)
  <2>. DEFINE v == IF mp4[item[j][1]] = "none" THEN "none"
                   ELSE IF Remuxing(item[j][1], j) THEN "partial"
                   ELSE IF ts[item[j][1]] = "open" THEN "short" ELSE "whole"
  <2>1. v \in Mp4Set  BY DEF Mp4Set
  <2>2. mp4' = [mp4 EXCEPT ![item[j][1]] = v]  BY <1>5 DEF RemuxEnds
  <2>. HIDE DEF v
  <2>. QED
    BY <1>1, <1>3, <1>5, <2>1, <2>2
       DEF RemuxEnds, PCs, Types, DiskTypes, StateTypes, JobTypes, stateVars
<1>6. CASE RemuxFails(j)
  <2>1. mp4' \in [Segs -> Mp4Set] /\ hurt' \subseteq Segs
    BY <1>3, <1>6 DEF RemuxFails, Types, DiskTypes, Mp4Set
  <2>. QED
    BY <1>1, <1>3, <1>6, <2>1 DEF RemuxFails, PCs, Types, DiskTypes, StateTypes, JobTypes, stateVars
<1>7. CASE Register(j)
  BY <1>1, <1>3, <1>7
     DEF Register, Unusable, PCs, Types, DiskTypes, StateTypes, JobTypes, stateVars, diskVars
<1>8. CASE RegisterFails(j)
  <2>1. PICK l \in {"failed", "unread"} : Goto(j, l)
    BY <1>8 DEF RegisterFails, Unusable
  <2>2. hurt' \subseteq Segs
    BY <1>3, <1>8 DEF RegisterFails, Types, DiskTypes
  <2>. QED
    BY <1>1, <1>3, <1>8, <2>1, <2>2
       DEF RegisterFails, PCs, Types, DiskTypes, StateTypes, JobTypes, stateVars, diskVars
<1>9. CASE Unlink(j)
  <2>1. ts' \in [Segs -> TsSet]
    BY <1>3, <1>9, RemovedTyped DEF Unlink, Types, DiskTypes
  <2>2. known' \in [States -> SUBSET Segs] /\ snap' \in [Recoveries -> [rec : SUBSET Segs, old : SUBSET Item]]
    BY <1>3, <1>9 DEF Unlink, Types, StateTypes, JobTypes, Jobs
  <2>3. Left  BY <1>9, <1>11 DEF Unlink
  <2>. QED
    BY <1>9, <2>1, <2>2, <2>3 DEF Unlink, Types, DiskTypes, StateTypes, JobTypes
<1>10. CASE Fails(j)
  <2>1. ts' \in [Segs -> TsSet] /\ mp4' \in [Segs -> Mp4Set]
    BY <1>3, <1>10 DEF Fails, Types, DiskTypes, TsSet, Mp4Set
  <2>2. Left  BY <1>10, <1>11 DEF Fails
  <2>. QED
    BY <1>10, <2>1, <2>2 DEF Fails, Types, DiskTypes, StateTypes, JobTypes, stateVars
<1>. QED  BY <1>4, <1>5, <1>6, <1>7, <1>8, <1>9, <1>10

LEMMA TypesStep ==
    ASSUME Types, [Next]_vars
    PROVE  Types'
<1>1. ASSUME NEW j \in Jobs, JobEnds(j)  PROVE Types'
  <2>1. pc' \in [Jobs -> PCs] /\ pc'[j] = "idle" /\ \A k \in Jobs \ {j} : pc'[k] = pc[k]
    BY <1>1 DEF JobEnds, Goto, Types, JobTypes, PCs
  <2>2. item' \in [Jobs -> Item \cup {None}] /\ \A k \in Jobs \ {j} : item'[k] = item[k]
    BY <1>1 DEF JobEnds, Types, JobTypes
  <2>3. /\ state' \in [States -> {"none", "live", "final"}] /\ active' \in States \cup {None}
        /\ known' \in [States -> SUBSET Segs]
    BY <1>1 DEF JobEnds, Types, StateTypes
  <2>4. snap' \in [Recoveries -> [rec : SUBSET Segs, old : SUBSET Item]]
    BY <1>1 DEF JobEnds, NoSnap, Types, JobTypes
  <2>. QED
    BY <1>1, <2>1, <2>2, <2>3, <2>4 DEF JobEnds, Types, DiskTypes, StateTypes, JobTypes, diskVars
<1>2. CASE TimePasses
  BY <1>2 DEF TimePasses, Types, DiskTypes, StateTypes, JobTypes, stateVars, jobVars
<1>3. CASE Crash
  BY <1>3 DEF Crash, NoSnap, Types, DiskTypes, StateTypes, JobTypes, TsSet, PCs
<1>4. CASE UNCHANGED vars
  BY <1>4 DEF vars, Types, DiskTypes, StateTypes, JobTypes
<1>. QED
  BY <1>1, <1>2, <1>3, <1>4, CameraTypes, JobBeginsTypes, NextTypes, WorkTypes
     DEF Next, JobStep

LEMMA InitTypes == Init => Types
BY StatesAreJobs DEF Init, NoSnap, Types, DiskTypes, StateTypes, JobTypes, TsSet, Mp4Set, PCs

-----------------------------------------------------------------------------
\* A job only ever comes to segments that FFmpeg has closed, or that are in together.

AtWork(j) == pc[j] \notin {"idle", "next"}
Settled(s) == s \in opened /\ (ts[s] # "open" \/ s \in together)

\* Segments are opened in their order. What an FFmpeg writes that is not in together
\* is the newest segment, and nobody else records the camera.
Alive ==
    /\ \A q \in opened : \A r \in Segs : r < q => r \in opened
    /\ \A p \in States : writing[p] # None =>
          /\ writing[p] \in opened
          /\ writing[p] \notin together =>
                /\ state[p] = "live" /\ active = p /\ Others(p) = {}
                /\ \A q \in opened : q <= writing[p]
Files ==
    \A s \in Segs :
       /\ ts[s] = "open" => \E p \in States : writing[p] = s
       /\ ts[s] # "none" \/ mp4[s] # "none" => s \in opened
       /\ mp4[s] # "none" => Settled(s)
Listed ==
    /\ \A j \in Jobs : \A f \in todo[j] : Settled(f[1])
    /\ \A j \in Jobs : AtWork(j) => Settled(item[j][1])
    /\ rec \subseteq opened

SettledInv == Types /\ Alive /\ Files /\ Listed

\* What a step of a job leaves alone.
JobFrame(j) ==
    /\ opened' = opened /\ together' = together /\ writing' = writing
    /\ \A s \in Segs : ts'[s] # ts[s] => ts[s] # "none" /\ ts'[s] \in {"none", "givenUp"}
    /\ \A s \in Segs : mp4'[s] # mp4[s] => AtWork(j) /\ s = item[j][1]
    /\ \A k \in Jobs : todo'[k] \subseteq todo[k]
    /\ \A k \in Jobs \ {j} : pc'[k] = pc[k] /\ item'[k] = item[k]
    /\ AtWork(j)' => \/ AtWork(j) /\ item'[j] = item[j]
                     \/ \E f \in todo[j] : item'[j][1] = f[1]
    /\ \A s \in rec' : s \in rec \/ (AtWork(j) /\ s = item[j][1])
    /\ \A p \in States : state'[p] # "none" =>
          state'[p] = state[p] /\ (active = p => active' = p)
    /\ \A p \in States : state[p] = "live" => state'[p] = "live"

LEMMA FramedNext ==
    ASSUME Types, NEW j \in Jobs,
           \/ j \in States /\ (ScanNext(j) \/ ScanAborts(j))
           \/ j \in Recoveries /\ (RecoveryNext(j) \/ RecoveryAborts(j))
    PROVE  JobFrame(j)
<1>1. ASSUME ScanNext(j)  PROVE JobFrame(j)
  <2>1. PICK f \in todo[j] : ScanNext(j)!(f)
    BY <1>1 DEF ScanNext
  <2>. QED
    BY <2>1 DEF Take, Enter, Goto, AtWork, JobFrame, Types, StateTypes, JobTypes, diskVars, stateVars
<1>2. ASSUME ScanAborts(j)  PROVE JobFrame(j)
  BY <1>2 DEF ScanAborts, AtWork, JobFrame, Types, StateTypes, JobTypes, diskVars, stateVars
<1>3. ASSUME j \in Recoveries, RecoveryNext(j)  PROVE JobFrame(j)
  <2>1. PICK f \in todo[j] : RecoveryNext(j)!(f)
    BY <1>3 DEF RecoveryNext
  <2>2. f[1] \in Segs  BY TodoTyped DEF Types
  <2>3. \A s \in Segs : ts'[s] # ts[s] => ts[s] # "none" /\ ts'[s] \in {"none", "givenUp"}
    BY <2>1, <2>2, RemovedTyped DEF Types
  <2>. QED
    BY <1>3, <2>1, <2>3 DEF Take, Enter, Goto, AtWork, JobFrame, Types, StateTypes, JobTypes, stateVars
<1>4. ASSUME j \in Recoveries, RecoveryAborts(j)  PROVE JobFrame(j)
  BY <1>4 DEF RecoveryAborts, ItemDone, Goto, AtWork, JobFrame, Types, StateTypes, JobTypes,
              diskVars, stateVars
<1>. QED  BY <1>1, <1>2, <1>3, <1>4

LEMMA FramedWork ==
    ASSUME Types, NEW j \in Jobs,
           \/ RemuxBegins(j) \/ RemuxEnds(j) \/ RemuxFails(j)
           \/ Register(j) \/ RegisterFails(j) \/ Unlink(j) \/ Fails(j)
    PROVE  /\ JobFrame(j) /\ AtWork(j)
           /\ state' = state /\ active' = active /\ todo' = todo
           /\ item' = item \/ ~AtWork(j)'
<1>1. AtWork(j)
  BY DEF AtWork, RemuxBegins, RemuxEnds, RemuxFails, Register, RegisterFails, Unlink, Fails
<1>2. item[j][1] \in Segs
  BY <1>1, ItemTyped DEF AtWork, Types
<1>3. /\ opened' = opened /\ together' = together /\ writing' = writing
      /\ state' = state /\ active' = active /\ todo' = todo
  BY DEF RemuxBegins, RemuxEnds, RemuxFails, Register, RegisterFails, Unlink, Fails,
         stateVars, diskVars
<1>4. /\ item' = item \/ (pc'[j] = "next" /\ item' = [item EXCEPT ![j] = None])
      /\ \A k \in Jobs \ {j} : pc'[k] = pc[k]
  BY DEF RemuxBegins, RemuxEnds, RemuxFails, Register, RegisterFails, Unlink, Fails,
         ItemDone, Goto, Types, JobTypes
<1>5. \A s \in Segs : ts'[s] # ts[s] => ts[s] # "none" /\ ts'[s] \in {"none", "givenUp"}
  BY <1>2, RemovedTyped
     DEF RemuxBegins, RemuxEnds, RemuxFails, Register, RegisterFails, Unlink, Fails,
         OnDisk, diskVars, Types, DiskTypes
<1>6. \A s \in Segs : mp4'[s] # mp4[s] => s = item[j][1]
  BY DEF RemuxBegins, RemuxEnds, RemuxFails, Register, RegisterFails, Unlink, Fails,
         diskVars, Types, DiskTypes
<1>7. \A s \in rec' : s \in rec \/ s = item[j][1]
  BY DEF RemuxBegins, RemuxEnds, RemuxFails, Register, RegisterFails, Unlink, Fails, diskVars
<1>8. \A k \in Jobs \ {j} : item'[k] = item[k]
  BY <1>4 DEF Types, JobTypes
<1>9. item' = item \/ ~AtWork(j)'
  BY <1>4 DEF AtWork
<1>. QED  BY <1>1, <1>3, <1>4, <1>5, <1>6, <1>7, <1>8, <1>9 DEF JobFrame, AtWork

LEMMA FramedEnds ==
    ASSUME Types, NEW j \in Jobs, JobEnds(j)
    PROVE  JobFrame(j)
BY DEF JobEnds, Goto, AtWork, JobFrame, Types, StateTypes, JobTypes, diskVars

\* A step within the frame keeps what is closed closed.
LEMMA FramedSettled ==
    ASSUME SettledInv, Types', NEW j \in Jobs, JobFrame(j)
    PROVE  SettledInv'
<1>1. Alive'
  <2>1. \A p \in States : Others(p)' \subseteq Others(p)
    BY DEF Others, JobFrame
  <2>2. \A p \in States : state[p] = "live" /\ active = p => state'[p] = "live" /\ active' = p
    BY DEF JobFrame
  <2>. QED  BY <2>1, <2>2 DEF SettledInv, Alive, JobFrame
<1>2. \A s : Settled(s) => Settled(s)'
  <2>1. \A s \in opened : ts[s] # "open" => ts'[s] # "open"
    BY DEF JobFrame, SettledInv, Types, DiskTypes
  <2>. QED  BY <2>1 DEF Settled, JobFrame
<1>3. Listed'
  <2>1. ASSUME NEW k \in Jobs, NEW f \in todo'[k]  PROVE Settled(f[1])'
    BY <1>2, <2>1 DEF SettledInv, Listed, JobFrame
  <2>2. ASSUME NEW k \in Jobs, AtWork(k)'  PROVE Settled(item[k][1])'
    <3>1. CASE k = j
      BY <1>2, <2>2, <3>1 DEF SettledInv, Listed, JobFrame
    <3>2. CASE k # j
      BY <1>2, <2>2, <3>2 DEF SettledInv, Listed, JobFrame, AtWork
    <3>. QED  BY <3>1, <3>2
  <2>3. (rec \subseteq opened)'
    BY DEF SettledInv, Listed, Settled, JobFrame
  <2>. QED  BY <2>1, <2>2, <2>3 DEF Listed
<1>4. Files'
  <2>1. ASSUME NEW s \in Segs
        PROVE  /\ ts'[s] = "open" => ts[s] = "open"
               /\ mp4'[s] # "none" => mp4[s] # "none" \/ Settled(s)
               /\ ts'[s] # "none" => ts[s] # "none"
    BY DEF JobFrame, SettledInv, Listed
  <2>. QED  BY <1>2, <2>1 DEF SettledInv, Files, JobFrame, Settled
<1>. QED  BY <1>1, <1>3, <1>4 DEF SettledInv

LEMMA InitSettled == Init => SettledInv
<1>. SUFFICES ASSUME Init PROVE SettledInv  OBVIOUS
<1>1. Types  BY InitTypes
<1>. QED
  BY <1>1 DEF Init, SettledInv, Alive, Files, Listed, AtWork

\* FFmpeg opens only what nobody has opened; what others write by then is in together.
LEMMA CameraSettled ==
    ASSUME SettledInv, NEW p \in States, Camera(p)
    PROVE  SettledInv'
<1>1. Types'  BY CameraTypes DEF SettledInv
<1>2. ASSUME NEW s \in Segs, Start(p, s) \/ Rotate(p, s)  PROVE SettledInv'
  <2>1. /\ s \notin opened /\ opened' = opened \cup {s}
        /\ writing' = [writing EXCEPT ![p] = s]
        /\ \A q \in Segs : q < s => q \in opened
        /\ todo' = todo /\ item' = item /\ pc' = pc /\ rec' = rec /\ mp4' = mp4
    BY <1>2 DEF Start, Rotate, Opens, jobVars
  <2>2. /\ together \subseteq together'
        /\ \A q \in Others(p) : s \in together' /\ (writing[q] # None => writing[q] \in together')
        /\ writing[p] # None /\ ~(state[p] = "live" /\ active = p) => s \in together'
    <3>1. together' = together \cup {q \in Segs :
                        \/ \E o \in Others(p) : q \in {s, writing[o]}
                        \/ q = s /\ writing[p] # None /\ ~(state[p] = "live" /\ active = p)}
      BY <1>2 DEF Start, Rotate, Opens
    <3>2. \A q \in Others(p) : writing[q] \in Segs \cup {None}
      BY DEF Others, SettledInv, Types, StateTypes
    <3>. QED  BY <3>1, <3>2
  <2>3. /\ s \notin together' => state'[p] = "live" /\ active' = p /\ Others(p) = {}
        /\ \A q \in States \ {p} : state'[q] = state[q] /\ writing'[q] = writing[q]
        /\ writing'[p] = s
    <3>1. s \notin together' => Others(p) = {}  BY <2>2
    <3>2. writing'[p] = s /\ \A q \in States \ {p} : writing'[q] = writing[q]
      BY <2>1 DEF SettledInv, Types, StateTypes
    <3>3. CASE Start(p, s)
      BY <3>1, <3>2, <3>3 DEF Start, SettledInv, Types, StateTypes
    <3>4. CASE Rotate(p, s)
      BY <2>2, <3>1, <3>2, <3>4 DEF Rotate
    <3>. QED  BY <1>2, <3>3, <3>4
  <2>4. /\ \A q \in opened' : q <= s
        /\ \A q \in opened' : \A r \in Segs : r < q => r \in opened'
    <3>1. opened \subseteq Nat /\ s \in Nat  BY SegsAssumption DEF SettledInv, Types, DiskTypes
    <3>2. \A q \in opened : \A r \in Segs : r < q => r \in opened  BY DEF SettledInv, Alive
    <3>3. \A q \in opened : q <= s  BY <2>1, <3>1, <3>2
    <3>. QED  BY <2>1, <3>1, <3>2, <3>3
  <2>5. writing[p] # s /\ (writing[p] # None => writing[p] \in Segs) /\ s # None
    BY <2>1, NamesAssumption DEF SettledInv, Types, DiskTypes, StateTypes, Alive
  <2>6. /\ ts'[s] = "open"
        /\ \A q \in Segs \ {s} : \/ ts'[q] = ts[q] /\ (q = writing[p] => ts[q] # "open")
                                 \/ q = writing[p] /\ ts'[q] = "closed"
    <3>1. CASE Start(p, s)
      BY <2>5, <3>1, NamesAssumption DEF Start, SettledInv, Types, DiskTypes
    <3>2. CASE Rotate(p, s)
      <4>. DEFINE w == writing[p]
                  v == IF ts[w] = "open" THEN "closed" ELSE ts[w]
      <4>1. ts' = [ts EXCEPT ![s] = "open", ![w] = v]
        BY <2>5, <3>2 DEF Rotate, SettledInv, Types, DiskTypes
      <4>2. w # s /\ w \in Segs  BY <2>5, <3>2 DEF Rotate
      <4>3. ts[w] = "open" => v = "closed"  OBVIOUS
      <4>4. ts[w] # "open" => v = ts[w]  OBVIOUS
      <4>. HIDE DEF v
      <4>. QED  BY <4>1, <4>2, <4>3, <4>4 DEF SettledInv, Types, DiskTypes
    <3>. QED  BY <1>2, <3>1, <3>2
  <2>7. \A q : Settled(q) => Settled(q)'
    BY <2>1, <2>2, <2>6 DEF Settled, SettledInv, Types, DiskTypes
  <2>8. Alive'
    <3>1. ASSUME NEW q \in States, q # p, writing[q] # None
          PROVE  writing'[q] \in opened' /\ writing'[q] \in together'
      <4>1. q \in Others(p)  BY <3>1 DEF Others
      <4>. QED  BY <2>1, <2>2, <2>3, <3>1, <4>1 DEF SettledInv, Alive
    <3>2. Others(p)' = Others(p)
      BY <2>3 DEF Others
    <3>3. s \in opened' /\ (s \notin together' => Others(p)' = {})
      BY <2>1, <2>3, <3>2
    <3>4. ASSUME NEW q \in States, writing'[q] # None
          PROVE  /\ writing'[q] \in opened'
                 /\ writing'[q] \notin together' =>
                      /\ state'[q] = "live" /\ active' = q /\ Others(q)' = {}
                      /\ \A r \in opened' : r <= writing'[q]
      <4>1. CASE q = p  BY <2>3, <2>4, <3>3, <4>1
      <4>2. CASE q # p  BY <2>3, <3>1, <3>4, <4>2
      <4>. QED  BY <4>1, <4>2
    <3>. QED  BY <2>4, <3>4 DEF Alive
  <2>9. mp4[s] = "none"
    BY <2>1 DEF SettledInv, Files
  <2>10. Files'
    <3>1. ASSUME NEW q \in Segs, ts'[q] = "open"  PROVE \E r \in States : writing'[r] = q
      <4>1. CASE q = s  BY <2>3, <4>1
      <4>2. CASE q # s
        <5>1. ts[q] = "open" /\ q # writing[p]  BY <2>6, <3>1, <4>2
        <5>2. PICK r \in States : writing[r] = q  BY <5>1 DEF SettledInv, Files
        <5>. QED  BY <2>3, <5>1, <5>2
      <4>. QED  BY <4>1, <4>2
    <3>2. ASSUME NEW q \in Segs  PROVE ts'[q] # "none" \/ mp4'[q] # "none" => q \in opened'
      BY <2>1, <2>5, <2>6, NamesAssumption DEF SettledInv, Files, Alive
    <3>. QED  BY <2>1, <2>7, <2>9, <3>1, <3>2 DEF SettledInv, Files
  <2>11. Listed'
    BY <2>1, <2>7 DEF SettledInv, Listed, AtWork
  <2>. QED  BY <1>1, <2>8, <2>10, <2>11 DEF SettledInv
<1>3. ASSUME Exit(p)  PROVE SettledInv'
  <2>. DEFINE w == writing[p]
              v == IF ts[w] = "open" THEN "closed" ELSE ts[w]
  <2>1. w \in opened /\ w \in Segs /\ v # "open" /\ (ts[w] = "none" => v = "none")
    BY <1>3 DEF Exit, SettledInv, Alive, Types, DiskTypes
  <2>2. /\ ts' = [ts EXCEPT ![w] = v] /\ writing' = [writing EXCEPT ![p] = None]
        /\ opened' = opened /\ together' = together /\ state' = state /\ active' = active
        /\ mp4' = mp4 /\ todo' = todo /\ item' = item /\ pc' = pc /\ rec' = rec
    BY <1>3 DEF Exit, jobVars
  <2>. HIDE DEF v
  <2>3. \A q : Settled(q) => Settled(q)'
    BY <2>1, <2>2 DEF Settled, SettledInv, Types, DiskTypes
  <2>4. Alive'
    <3>1. \A q \in States : Others(q)' \subseteq Others(q)
      BY <2>2 DEF Others, SettledInv, Types, StateTypes
    <3>. QED  BY <2>2, <3>1 DEF SettledInv, Types, StateTypes, Alive
  <2>5. Files'
    BY <2>1, <2>2, <2>3 DEF SettledInv, Types, DiskTypes, StateTypes, Files
  <2>6. Listed'
    BY <2>2, <2>3 DEF SettledInv, Listed, AtWork
  <2>. QED  BY <1>1, <2>4, <2>5, <2>6 DEF SettledInv
<1>. QED  BY <1>2, <1>3 DEF Camera

\* What a job puts on its list is settled: a scan leaves the newest out, the only one
\* that may be open and not in together, and such a one there is neither when a final
\* scan begins nor when a recovery does.
LEMMA JobBeginsSettled ==
    ASSUME SettledInv, JobBegins
    PROVE  SettledInv'
<1>1. Types'  BY JobBeginsTypes DEF SettledInv
<1>2. \A q \in OnDisk : q \in opened /\ q \in Segs
  BY DEF OnDisk, SettledInv, Files
\* Whoever writes a segment that is not settled.
<1>w. ASSUME NEW q \in OnDisk, ~Settled(q)
      PROVE  \E w \in States : /\ writing[w] = q /\ q \notin together
                              /\ state[w] = "live" /\ active = w /\ Others(w) = {}
                              /\ \A r \in opened : r <= q
  <2>1. q \in Segs /\ ts[q] = "open" /\ q \notin together /\ q # None
    BY <1>2, <1>w, NamesAssumption DEF Settled
  <2>2. PICK w \in States : writing[w] = q  BY <2>1 DEF SettledInv, Files
  <2>. QED  BY <2>1, <2>2 DEF SettledInv, Alive
<1>3. ASSUME NEW p \in States, ScanBegins(p)  PROVE SettledInv'
  <2>1. ASSUME NEW q \in OnDisk, NEW r \in OnDisk, q < r  PROVE Settled(q)
    <3>1. q \in Nat /\ r \in Nat  BY <1>2, SegsAssumption
    <3>2. SUFFICES ASSUME ~Settled(q) PROVE FALSE  OBVIOUS
    <3>3. r <= q  BY <1>2, <1>w, <3>2
    <3>. QED  BY <2>1, <3>1, <3>3
  <2>2. \A f \in {q \in OnDisk : \E r \in OnDisk : q < r} \X {"ts"} : Settled(f[1])
    BY <2>1
  <2>3. \A k \in Jobs : \A f \in todo'[k] : Settled(f[1])
    BY <1>3, <2>2 DEF ScanBegins, SettledInv, Listed, Types, JobTypes
  <2>4. UNCHANGED <<ts, mp4, opened, together, rec, writing, active, state, item>>
    BY <1>3 DEF ScanBegins, diskVars, stateVars
  <2>5. \A k \in Jobs : AtWork(k)' => AtWork(k)
    BY <1>3 DEF ScanBegins, SettledInv, Types, JobTypes, AtWork, Goto
  <2>6. Listed'  BY <2>3, <2>4, <2>5 DEF SettledInv, Listed, Settled
  <2>7. Alive' /\ Files'  BY <2>4 DEF SettledInv, Alive, Files, Settled, Others
  <2>. QED  BY <1>1, <2>6, <2>7 DEF SettledInv
<1>4. ASSUME NEW p \in States, FinalScanBegins(p)  PROVE SettledInv'
  <2>0. /\ state[p] = "live" /\ together \subseteq together'
        /\ writing[p] # None => writing[p] \in together'
        /\ state' = [state EXCEPT ![p] = "final"]
        /\ UNCHANGED <<ts, mp4, opened, rec, writing, active, item>>
    BY <1>4 DEF FinalScanBegins, SettledInv, Types, StateTypes
  <2>1. ASSUME NEW q \in OnDisk  PROVE Settled(q)'
    <3>1. CASE Settled(q)  BY <2>0, <3>1 DEF Settled
    <3>2. CASE ~Settled(q)
      <4>1. PICK w \in States : writing[w] = q /\ Others(w) = {}  BY <1>w, <3>2
      <4>2. w = p  BY <2>0, <4>1 DEF Others
      <4>. QED  BY <1>2, <2>0, <4>1, <4>2, NamesAssumption DEF Settled
    <3>. QED  BY <3>1, <3>2
  <2>2. \A q : Settled(q) => Settled(q)'  BY <2>0 DEF Settled
  <2>3. \A k \in Jobs : \A f \in todo'[k] : Settled(f[1])'
    BY <1>4, <2>1, <2>2 DEF FinalScanBegins, SettledInv, Listed, Types, JobTypes
  <2>4. \A k \in Jobs : AtWork(k)' => AtWork(k)
    BY <1>4 DEF FinalScanBegins, SettledInv, Types, JobTypes, AtWork, Goto
  <2>5. Listed'  BY <2>0, <2>2, <2>3, <2>4 DEF SettledInv, Listed
  <2>6. Alive'
    <3>1. ASSUME NEW w \in States, writing[w] # None  PROVE writing[w] \in together'
      <4>1. CASE w = p  BY <2>0, <3>1, <4>1
      <4>2. CASE w # p
        <5>1. p \in Others(w)  BY <2>0, <4>2 DEF Others
        <5>. QED  BY <2>0, <3>1, <5>1 DEF SettledInv, Alive
      <4>. QED  BY <4>1, <4>2
    <3>. QED  BY <2>0, <3>1 DEF SettledInv, Alive
  <2>7. Files'  BY <2>0, <2>2 DEF SettledInv, Files
  <2>. QED  BY <1>1, <2>5, <2>6, <2>7 DEF SettledInv
<1>5. ASSUME NEW r \in Recoveries, RecoveryBegins(r)  PROVE SettledInv'
  <2>1. \A q \in OnDisk : Settled(q)
    BY <1>5, <1>w, NamesAssumption DEF RecoveryBegins
  <2>. DEFINE T == {<<s, "ts">> : s \in {q \in OnDisk : tsAge[q] >= 1}} \cup
                   {<<s, "mp4">> : s \in {q \in Segs : /\ mp4[q] # "none" /\ mp4Age[q] >= 1
                                                       /\ q \notin rec}}
  <2>2. \A f \in T : Settled(f[1])
    BY <1>2, <2>1 DEF SettledInv, Files
  <2>3. todo' = [todo EXCEPT ![r] = T]  BY <1>5 DEF RecoveryBegins
  <2>. HIDE DEF T
  <2>4. \A k \in Jobs : \A f \in todo'[k] : Settled(f[1])
    BY <2>2, <2>3 DEF SettledInv, Listed, Types, JobTypes
  <2>5. UNCHANGED <<ts, mp4, opened, together, rec, writing, active, state, item>>
    BY <1>5 DEF RecoveryBegins, diskVars, stateVars
  <2>6. \A k \in Jobs : AtWork(k)' => AtWork(k)
    BY <1>5 DEF RecoveryBegins, SettledInv, Types, JobTypes, AtWork, Goto
  <2>7. Listed'  BY <2>4, <2>5, <2>6 DEF SettledInv, Listed, Settled
  <2>8. Alive' /\ Files'  BY <2>5 DEF SettledInv, Alive, Files, Settled, Others
  <2>. QED  BY <1>1, <2>7, <2>8 DEF SettledInv
<1>. QED  BY <1>3, <1>4, <1>5 DEF JobBegins

LEMMA SettledStep ==
    ASSUME SettledInv, [Next]_vars
    PROVE  SettledInv'
<1>1. Types'  BY TypesStep DEF SettledInv
<1>2. ASSUME NEW j \in Jobs, JobStep(j)  PROVE SettledInv'
  BY <1>1, <1>2, FramedNext, FramedWork, FramedEnds, FramedSettled DEF JobStep, SettledInv
<1>3. CASE TimePasses
  BY <1>1, <1>3
     DEF TimePasses, SettledInv, Alive, Files, Listed, AtWork, Settled, Others, stateVars, jobVars
<1>4. CASE Crash
  BY <1>1, <1>4
     DEF Crash, SettledInv, Alive, Files, Listed, AtWork, Settled, Types, DiskTypes
<1>5. CASE UNCHANGED vars
  BY <1>1, <1>5 DEF vars, SettledInv, Alive, Files, Listed, AtWork, Settled, Others
<1>. QED
  BY <1>2, <1>3, <1>4, <1>5, CameraSettled, JobBeginsSettled DEF Next

\* The types of the disk, of the recording states and of the jobs (the maps and
\* lists of the recording process manager), whatever fails, overlaps or crashes.
THEOREM TypeCorrect == Spec => []TypeOK
<1>1. Types => TypeOK
  BY DEF Types, DiskTypes, StateTypes, JobTypes, TypeOK, TsSet, Mp4Set
<1>. QED  BY <1>1, InitTypes, TypesStep, PTL DEF Spec

\* FFmpeg never remuxes a segment that another FFmpeg still writes, with scans and
\* recoveries at the same files (645-714, 762-813): the watcher leaves the newest
\* file out, and the final scan and a recovery begin when nothing is written. The
\* exceptions are the segments in together: those open while two starts overlapped
\* (903-939) or after stop had given up on FFmpeg (842).
THEOREM OnlyClosedEverRemuxed == Spec => []OnlyClosedRemuxed
<1>1. SettledInv => OnlyClosedRemuxed
  BY DEF SettledInv, Listed, Settled, AtWork, OnlyClosedRemuxed
<1>. QED  BY <1>1, InitSettled, SettledStep, PTL DEF Spec

-----------------------------------------------------------------------------
\* While recordings and recoveries come one after another, one job is at work at
\* a time. The .mp4 it makes is then nobody else's, so what a row names is whole.

OneAtATime ==
    /\ Ops \cap {"startInRecovery", "twoStarts", "writesOn"} = {}
    /\ \A q, r \in Recoveries : q = r

OneJob ==
    /\ together = {}
    /\ \A p \in States : state[p] # "none" => active = p
    /\ \A p \in States : writing[p] # None => state[p] = "live"
    /\ \A p \in States : pc[p] # "idle" => active = p
    /\ \A r \in Recoveries : pc[r] # "idle" => active = None

\* What holds of the file job j is at.
Stage(j) ==
    /\ pc[j] = "probe" => ~HasMp4(item[j][1])
    /\ pc[j] = "remux" => mp4[item[j][1]] \in {"empty", "partial"}
    /\ pc[j] = "unlink" => item[j][1] \in rec

\* An .mp4 on a recovery's list has no row until the recovery is at it; its .ts comes
\* after it.
Fresh(r) ==
    /\ pc[r] = "idle" => todo[r] = {}
    /\ \A f \in todo[r] : f[2] = "mp4" => f[1] \notin rec
    /\ AtWork(r) => \A f \in todo[r] : Before(item[r], f)
    /\ pc[r] \in {"register", "unread"} /\ item[r][2] = "mp4" => item[r][1] \notin rec
    /\ pc[r] = "unread" => item[r][2] = "mp4"
    /\ snap[r].rec \subseteq rec
Whole ==
    \A s \in Segs :
       /\ mp4[s] # "short"
       /\ s \in rec => mp4[s] = "whole"
       /\ s \in opened /\ ts[s] = "none" => s \in rec
WholeInv ==
    /\ SettledInv /\ OneJob /\ Whole
    /\ \A j \in Jobs : Stage(j)
    /\ \A r \in Recoveries : Fresh(r)

LEMMA InitWhole == Init => WholeInv
<1>. SUFFICES ASSUME Init PROVE WholeInv  OBVIOUS
<1>1. SettledInv  BY InitSettled
<1>. QED
  BY <1>1, StatesAreJobs DEF Init, WholeInv, OneJob, Stage, Whole, Fresh, AtWork, NoSnap

LEMMA CameraWhole ==
    ASSUME WholeInv, OneAtATime, NEW p \in States, Camera(p)
    PROVE  WholeInv'
<1>. USE DEF WholeInv
<1>1. SettledInv'  BY CameraSettled
<1>2. UNCHANGED <<mp4, rec, jobVars>>
  BY DEF Camera, Start, Rotate, Exit
<1>3. ASSUME NEW s \in Segs, Start(p, s)
      PROVE  /\ together' = {} /\ active' = p /\ writing' = [writing EXCEPT ![p] = s]
             /\ state' = [state EXCEPT ![p] = "live"] /\ active = None
             /\ \A r \in Recoveries : pc[r] = "idle"
  <2>1. active = None /\ \A r \in Recoveries : pc[r] = "idle"
    BY <1>3 DEF Start, OneAtATime
  <2>2. \A q \in States : state[q] = "none" /\ writing[q] = None
    BY <2>1, NamesAssumption DEF OneJob
  <2>3. Others(p) = {}  BY <2>2 DEF Others
  <2>. QED  BY <1>3, <2>1, <2>2, <2>3 DEF Start, Opens, OneJob
<1>4. ASSUME NEW s \in Segs, Rotate(p, s)
      PROVE  /\ together' = {} /\ state[p] = "live" /\ writing' = [writing EXCEPT ![p] = s]
             /\ UNCHANGED <<active, state>>
  <2>1. writing[p] # None /\ state[p] = "live" /\ active = p
    BY <1>4 DEF Rotate, OneJob
  <2>2. Others(p) = {}  BY <2>1 DEF Others, OneJob
  <2>. QED  BY <1>4, <2>1, <2>2 DEF Rotate, Opens, OneJob
<1>5. ASSUME Exit(p)
      PROVE  UNCHANGED <<together, active, state>> /\ writing' = [writing EXCEPT ![p] = None]
  BY <1>5 DEF Exit
<1>6. OneJob'
  <2>. USE DEF OneJob, SettledInv, Types, StateTypes, jobVars
  <2>1. ASSUME NEW s \in Segs, Start(p, s)  PROVE OneJob'
    BY <1>2, <1>3, <2>1, NamesAssumption
  <2>2. ASSUME NEW s \in Segs, Rotate(p, s)  PROVE OneJob'
    BY <1>2, <1>4, <2>2
  <2>3. ASSUME Exit(p)  PROVE OneJob'
    BY <1>2, <1>5, <2>3
  <2>. QED  BY <2>1, <2>2, <2>3 DEF Camera
<1>7. \A q \in opened' : ts'[q] = "none" => q \in opened /\ ts[q] = "none"
  <2>1. ASSUME NEW s \in Segs, Start(p, s)
        PROVE  \A q \in opened' : ts'[q] = "none" => q \in opened /\ ts[q] = "none"
    BY <2>1 DEF Start, Opens, SettledInv, Types, DiskTypes
  <2>3. ASSUME NEW s \in Segs, Rotate(p, s)
        PROVE  \A q \in opened' : ts'[q] = "none" => q \in opened /\ ts[q] = "none"
    <3>. DEFINE w == writing[p]
                v == IF ts[w] = "open" THEN "closed" ELSE ts[w]
    <3>1. /\ ts' = [ts EXCEPT ![s] = "open", ![w] = v]
          /\ opened' = opened \cup {s} /\ s \notin opened
          /\ w \in opened /\ w \in Segs
      BY <2>3 DEF Rotate, Opens, SettledInv, Alive, Types, DiskTypes, StateTypes
    <3>2. v = "none" => ts[w] = "none"  OBVIOUS
    <3>. HIDE DEF v
    <3>. QED  BY <3>1, <3>2 DEF SettledInv, Types, DiskTypes
  <2>4. ASSUME Exit(p)
        PROVE  \A q \in opened' : ts'[q] = "none" => q \in opened /\ ts[q] = "none"
    <3>. DEFINE w == writing[p]
                v == IF ts[w] = "open" THEN "closed" ELSE ts[w]
    <3>1. ts' = [ts EXCEPT ![w] = v] /\ opened' = opened /\ opened \subseteq Segs
      BY <2>4 DEF Exit, SettledInv, Types, DiskTypes
    <3>2. v = "none" => ts[w] = "none"  OBVIOUS
    <3>. HIDE DEF v
    <3>. QED  BY <3>1, <3>2 DEF SettledInv, Types, DiskTypes
  <2>. QED  BY <2>1, <2>3, <2>4 DEF Camera
<1>8. (\A j \in Jobs : Stage(j))' /\ (\A r \in Recoveries : Fresh(r))'
  BY <1>2 DEF Stage, Fresh, AtWork, HasMp4, jobVars
<1>9. Whole'  BY <1>2, <1>7 DEF Whole
<1>. QED  BY <1>1, <1>6, <1>8, <1>9

LEMMA JobBeginsWhole ==
    ASSUME WholeInv, OneAtATime, JobBegins
    PROVE  WholeInv'
<1>. USE DEF WholeInv
<1>1. SettledInv'  BY JobBeginsSettled
<1>2. UNCHANGED <<ts, mp4, opened, rec, item, active, writing>>
  BY DEF JobBegins, ScanBegins, FinalScanBegins, RecoveryBegins, stateVars, diskVars
<1>3. \A j \in Jobs : pc'[j] = pc[j] \/ pc'[j] = "next"
  BY DEF JobBegins, ScanBegins, FinalScanBegins, RecoveryBegins, Goto,
         SettledInv, Types, JobTypes
<1>. USE DEF SettledInv, Types, StateTypes, JobTypes, Jobs
<1>4. ASSUME NEW p \in States, ScanBegins(p) \/ FinalScanBegins(p)
      PROVE  OneJob' /\ (\A r \in Recoveries : Fresh(r))'
  <2>1. active = p  BY <1>4 DEF ScanBegins, FinalScanBegins, OneJob
  <2>2. together' = {} /\ \A q \in States : /\ state'[q] # "none" => state[q] # "none"
                                            /\ writing[q] # None => state'[q] = "live"
    BY <1>4, NamesAssumption
       DEF ScanBegins, FinalScanBegins, OneAtATime, OneJob, diskVars, stateVars
  <2>3. \A j \in Jobs \ {p} : pc'[j] = pc[j] /\ todo'[j] = todo[j]
    BY <1>4 DEF ScanBegins, FinalScanBegins, Goto
  <2>4. snap' = snap  BY <1>4 DEF ScanBegins, FinalScanBegins
  <2>5. \A r \in Recoveries : r \in Jobs \ {p}  BY NamesAssumption
  <2>6. OneJob'  BY <1>2, <2>1, <2>2, <2>3, <2>5 DEF OneJob
  <2>7. (\A r \in Recoveries : Fresh(r))'
    BY <1>2, <2>3, <2>4, <2>5 DEF Fresh, AtWork
  <2>. QED  BY <2>6, <2>7
<1>5. ASSUME NEW r \in Recoveries, RecoveryBegins(r)
      PROVE  OneJob' /\ (\A q \in Recoveries : Fresh(q))'
  <2>. DEFINE T == {<<s, "ts">> : s \in {q \in OnDisk : tsAge[q] >= 1}} \cup
                   {<<s, "mp4">> : s \in {q \in Segs : /\ mp4[q] # "none" /\ mp4Age[q] >= 1
                                                       /\ q \notin rec}}
  <2>1. UNCHANGED <<together, state>>  BY <1>5 DEF RecoveryBegins, diskVars, stateVars
  <2>2. todo' = [todo EXCEPT ![r] = T] /\ pc' = [pc EXCEPT ![r] = "next"]
    BY <1>5 DEF RecoveryBegins, Goto
  <2>3. \A f \in T : f[2] = "mp4" => f[1] \notin rec  OBVIOUS
  <2>4. /\ snap'[r].rec = rec
        /\ \A q \in Recoveries \ {r} : snap'[q] = snap[q]
    BY <1>5 DEF RecoveryBegins
  <2>. HIDE DEF T
  <2>5. OneJob'
    BY <1>2, <1>5, <2>1, <2>2, NamesAssumption DEF OneJob, RecoveryBegins
  <2>6. \A q \in Recoveries : q = r  BY DEF OneAtATime
  <2>7. (\A q \in Recoveries : Fresh(q))'
    BY <1>2, <2>2, <2>3, <2>4, <2>6 DEF Fresh, AtWork
  <2>. QED  BY <2>5, <2>7
<1>6. (\A j \in Jobs : Stage(j))' /\ Whole'
  BY <1>2, <1>3 DEF Stage, Whole, HasMp4
<1>. QED  BY <1>1, <1>4, <1>5, <1>6 DEF JobBegins

\* Nobody else is at work while job j is.
LEMMA Alone ==
    ASSUME WholeInv, OneAtATime, NEW j \in Jobs, pc[j] # "idle"
    PROVE  \A k \in Jobs \ {j} : pc[k] = "idle"
BY NamesAssumption DEF WholeInv, OneJob, OneAtATime, Jobs

\* So a step of job j has only its own file to answer for.
LEMMA AloneKeeps ==
    ASSUME WholeInv, OneAtATime, SettledInv', NEW j \in Jobs, pc[j] # "idle",
           \A k \in Jobs \ {j} : /\ pc'[k] = pc[k] /\ todo'[k] = todo[k]
                                 /\ k \in Recoveries => snap'[k] = snap[k],
           UNCHANGED <<together, active, state, writing>>, rec \subseteq rec',
           Stage(j)', Whole', j \in Recoveries => Fresh(j)'
    PROVE  WholeInv'
<1>1. \A k \in Jobs \ {j} : pc[k] = "idle" /\ pc'[k] = "idle"
  <2>1. \A k \in Jobs \ {j} : pc[k] = "idle"  BY Alone
  <2>. QED  BY <2>1
<1>2. \A k \in Jobs : Stage(k)'  BY <1>1 DEF Stage
<1>3. OneJob'
  BY <1>1, StatesAreJobs DEF OneJob, WholeInv
<1>4. ASSUME NEW r \in Recoveries  PROVE Fresh(r)'
  <2>1. CASE r = j  BY <2>1
  <2>2. CASE r # j
    <3>1. pc[r] = "idle" /\ pc'[r] = "idle" /\ todo'[r] = todo[r] /\ snap'[r] = snap[r]
      <4>1. r \in Jobs \ {j}  BY <2>2, StatesAreJobs
      <4>. QED  BY <1>1, <4>1
    <3>. QED  BY <3>1 DEF Fresh, AtWork, WholeInv
  <2>. QED  BY <2>1, <2>2
<1>. QED  BY <1>2, <1>3, <1>4 DEF WholeInv

LEMMA NextWhole ==
    ASSUME WholeInv, OneAtATime, SettledInv', NEW j \in Jobs,
           \/ j \in States /\ (ScanNext(j) \/ ScanAborts(j))
           \/ j \in Recoveries /\ (RecoveryNext(j) \/ RecoveryAborts(j))
    PROVE  WholeInv'
<1>. USE DEF WholeInv
<1>0. j \in States => j \notin Recoveries  BY NamesAssumption
<1>1. ASSUME j \in States, ScanNext(j)  PROVE WholeInv'
  <2>1. PICK f \in todo[j] : ScanNext(j)!(f)
    BY <1>1 DEF ScanNext
  <2>2. Stage(j)'
    BY <2>1 DEF Take, Enter, Goto, Stage, HasMp4, SettledInv, Types, JobTypes, diskVars
  <2>. QED
    BY <1>0, <1>1, <2>1, <2>2, AloneKeeps
       DEF Take, Enter, Goto, Whole, SettledInv, Types, JobTypes, diskVars, stateVars
<1>2. ASSUME j \in States, ScanAborts(j)  PROVE WholeInv'
  BY <1>0, <1>2, AloneKeeps
     DEF ScanAborts, Stage, Whole, HasMp4, SettledInv, Types, JobTypes, diskVars, stateVars
<1>3. ASSUME j \in Recoveries, RecoveryNext(j)  PROVE WholeInv'
  <2>1. PICK f \in todo[j] : RecoveryNext(j)!(f)
    BY <1>3 DEF RecoveryNext
  <2>2. f[1] \in Segs /\ f \in Item  BY TodoTyped DEF SettledInv, Types
  <2>3. Stage(j)'
    BY <1>3, <2>1 DEF Take, Enter, Goto, Stage, HasMp4, SettledInv, Types, JobTypes
  <2>4. \A q \in Segs : ts'[q] = ts[q] \/ q \in rec
    BY <1>3, <2>1, <2>2, RemovedTyped DEF SettledInv, Types, Fresh
  <2>5. Whole'
    BY <2>1, <2>4 DEF Whole
  <2>6. Fresh(j)'
    <3>1. pc[j] = "next" /\ todo'[j] = todo[j] \ {f} /\ UNCHANGED <<rec, snap>>
          /\ f \in First(todo[j])
      BY <1>3, <2>1 DEF Take, SettledInv, Types, JobTypes
    <3>2. \A g \in todo'[j] : Before(f, g)  BY <3>1 DEF First
    <3>3. \/ pc'[j] = "next"
          \/ item'[j] = f /\ pc'[j] \in {"register", "probe"}
      BY <1>3, <2>1 DEF Enter, Goto, Take, SettledInv, Types, JobTypes
    <3>. QED  BY <1>3, <3>1, <3>2, <3>3 DEF Fresh, AtWork
  <2>7. /\ \A k \in Jobs \ {j} : pc'[k] = pc[k] /\ todo'[k] = todo[k]
        /\ pc[j] # "idle" /\ UNCHANGED <<rec, snap, together, active, state, writing>>
    BY <1>3, <2>1 DEF Take, Enter, Goto, SettledInv, Types, JobTypes, stateVars
  <2>. QED
    BY <1>3, <2>3, <2>5, <2>6, <2>7, AloneKeeps
<1>4. ASSUME j \in Recoveries, RecoveryAborts(j)  PROVE WholeInv'
  <2>1. /\ \A k \in Jobs \ {j} : pc'[k] = pc[k] /\ todo'[k] = todo[k]
        /\ pc[j] # "idle" /\ pc'[j] = "next" /\ todo'[j] = {}
        /\ UNCHANGED <<ts, mp4, opened, rec, snap, together, active, state, writing>>
    BY <1>4 DEF RecoveryAborts, ItemDone, Goto, SettledInv, Types, JobTypes, diskVars, stateVars
  <2>2. Stage(j)' /\ Whole' /\ Fresh(j)'
    BY <1>4, <2>1 DEF Stage, Whole, Fresh, AtWork
  <2>. QED  BY <2>1, <2>2, AloneKeeps
<1>. QED  BY <1>1, <1>2, <1>3, <1>4

LEMMA WorkWhole ==
    ASSUME WholeInv, OneAtATime, SettledInv', NEW j \in Jobs,
           \/ RemuxBegins(j) \/ RemuxEnds(j) \/ RemuxFails(j)
           \/ Register(j) \/ RegisterFails(j) \/ Unlink(j) \/ Fails(j)
    PROVE  WholeInv'
<1>. DEFINE s == item[j][1]
<1>1. AtWork(j) /\ pc[j] # "idle"
  BY DEF AtWork, RemuxBegins, RemuxEnds, RemuxFails, Register, RegisterFails, Unlink, Fails
<1>2. s \in Segs /\ s \in opened /\ ts[s] # "open" /\ item[j] = <<s, item[j][2]>>
  <2>1. item[j] \in Item /\ s \in Segs
    BY <1>1, ItemTyped DEF AtWork, WholeInv, SettledInv, Types
  <2>2. Settled(s)  BY <1>1 DEF WholeInv, SettledInv, Listed
  <2>. QED  BY <2>1, <2>2 DEF Settled, WholeInv, OneJob, Item
<1>3. /\ UNCHANGED <<opened, together, active, state, writing, todo>>
      /\ \A k \in Jobs \ {j} : pc'[k] = pc[k]
      /\ item' = item \/ ~AtWork(j)'
  <2>1. SettledInv  BY DEF WholeInv
  <2>. QED  BY <2>1, FramedWork DEF JobFrame, SettledInv
<1>4. ASSUME NEW l, Goto(j, l)  PROVE pc'[j] = l
  BY <1>4 DEF Goto, WholeInv, SettledInv, Types, JobTypes
<1>i. pc'[j] \notin {"idle", "next"} => item'[j] = item[j]
  BY <1>3 DEF AtWork
<1>5. ASSUME Whole', Stage(j)', rec \subseteq rec', j \in Recoveries => Fresh(j)',
             \A k \in Recoveries \ {j} : snap'[k] = snap[k]
      PROVE  WholeInv'
  BY <1>1, <1>3, <1>5, AloneKeeps
\* A segment that comes to have no whole .mp4 had none before: it has no row,
\* and its .ts is still there.
<1>6. ASSUME s \notin rec, UNCHANGED <<ts, rec>>,
             \A q \in Segs \ {s} : mp4'[q] = mp4[q], mp4'[s] # "short"
      PROVE  Whole'
  BY <1>2, <1>3, <1>6 DEF WholeInv, Whole
\* Before a job has registered its file the recovery's list stays as it is.
<1>7. ASSUME rec' = rec, snap' = snap, pc'[j] # "idle",
             pc'[j] = "unread" => item[j][2] = "mp4" /\ pc[j] = "register",
             pc'[j] = "register" => pc[j] = "remux" /\ s \notin rec,
             j \in Recoveries
      PROVE  Fresh(j)'
  BY <1>1, <1>3, <1>i, <1>7 DEF WholeInv, Fresh, AtWork
<1>8. mp4[s] # "whole" => s \notin rec
  BY <1>2 DEF WholeInv, Whole
<1>9. CASE RemuxBegins(j)
  <2>1. ~HasMp4(s) /\ s \notin rec  BY <1>8, <1>9 DEF RemuxBegins, WholeInv, Stage, HasMp4
  <2>2. UNCHANGED <<ts, rec, snap>>  BY <1>9 DEF RemuxBegins
  <2>3. \/ mp4' = [mp4 EXCEPT ![s] = "none"] /\ pc'[j] = "failed"
        \/ \E v \in {"empty", "partial"} : mp4' = [mp4 EXCEPT ![s] = v] /\ pc'[j] = "remux"
    BY <1>4, <1>9 DEF RemuxBegins
  <2>4. Whole'
    BY <1>2, <1>6, <2>1, <2>2, <2>3 DEF HasMp4, WholeInv, SettledInv, Types, DiskTypes
  <2>5. Stage(j)'
    BY <1>2, <1>i, <2>3 DEF Stage, WholeInv, SettledInv, Types, DiskTypes
  <2>. QED  BY <1>5, <1>7, <2>2, <2>3, <2>4, <2>5
<1>10. CASE RemuxEnds(j)
  <2>1. mp4[s] \in {"empty", "partial"} /\ s \notin rec
    BY <1>8, <1>10 DEF RemuxEnds, WholeInv, Stage
  <2>2. UNCHANGED <<ts, rec, snap>>  BY <1>10 DEF RemuxEnds, diskVars
  <2>. DEFINE v == IF Remuxing(s, j) THEN "partial" ELSE "whole"
  <2>3. mp4' = [mp4 EXCEPT ![s] = v]
    BY <1>2, <1>10, <2>1 DEF RemuxEnds
  <2>4. v # "short"  BY DEF v
  <2>. HIDE DEF v
  <2>5. Whole'
    BY <1>2, <1>6, <2>1, <2>2, <2>3, <2>4 DEF WholeInv, SettledInv, Types, DiskTypes
  <2>6. pc'[j] = "register" /\ pc[j] = "remux"
    BY <1>4, <1>10 DEF RemuxEnds
  <2>7. Stage(j)'  BY <2>6 DEF Stage
  <2>. QED  BY <1>5, <1>7, <2>1, <2>2, <2>5, <2>6, <2>7
<1>11. CASE RemuxFails(j)
  <2>1. s \notin rec  BY <1>8, <1>11 DEF RemuxFails, WholeInv, Stage
  <2>2. UNCHANGED <<ts, rec, snap>> /\ mp4' = [mp4 EXCEPT ![s] = "none"]
    BY <1>11 DEF RemuxFails
  <2>3. Whole'
    BY <1>2, <1>6, <2>1, <2>2 DEF WholeInv, SettledInv, Types, DiskTypes
  <2>4. pc'[j] = "failed"  BY <1>4, <1>11 DEF RemuxFails
  <2>5. Stage(j)'  BY <2>4 DEF Stage
  <2>. QED  BY <1>5, <1>7, <2>2, <2>3, <2>4, <2>5
<1>12. CASE Register(j)
  <2>1. UNCHANGED <<ts, mp4, snap>> /\ pc[j] = "register"
    BY <1>12 DEF Register, diskVars
  <2>2. CASE rec' = rec /\ pc'[j] = Unusable(j)
    <3>1. Whole'  BY <1>3, <2>1, <2>2 DEF WholeInv, Whole
    <3>2. Stage(j)'  BY <2>2 DEF Stage, Unusable
    <3>3. pc'[j] = "unread" => item[j][2] = "mp4"  BY <2>2 DEF Unusable
    <3>4. pc'[j] \notin {"idle", "register"}  BY <2>2 DEF Unusable
    <3>. QED  BY <1>5, <1>7, <2>1, <2>2, <3>1, <3>2, <3>3, <3>4
  <2>3. CASE rec' = rec \cup {s} /\ Playable(s) /\ pc'[j] = "unlink"
    <3>1. mp4[s] = "whole"  BY <1>2, <2>3 DEF Playable, WholeInv, Whole
    <3>2. Whole'  BY <1>2, <1>3, <2>1, <2>3, <3>1 DEF WholeInv, Whole
    <3>3. Stage(j)'  BY <1>i, <2>3 DEF Stage
    <3>4. ASSUME j \in Recoveries  PROVE Fresh(j)'
      <4>1. \A f \in todo[j] : Before(item[j], f)
        BY <1>1, <3>4 DEF WholeInv, Fresh
      <4>2. s \in Nat  BY <1>2, SegsAssumption
      <4>3. \A f \in todo[j] : f[2] = "mp4" => f[1] # s
        BY <4>1, <4>2 DEF Before
      <4>. QED
        BY <1>1, <1>3, <1>i, <2>1, <2>3, <3>4, <4>3 DEF WholeInv, Fresh, AtWork
    <3>. QED  BY <1>5, <2>1, <2>3, <3>2, <3>3, <3>4
  <2>. QED  BY <1>4, <1>12, <2>2, <2>3 DEF Register
<1>13. CASE RegisterFails(j)
  <2>1. UNCHANGED <<ts, mp4, rec, snap>> /\ pc[j] = "register"
    BY <1>13 DEF RegisterFails, diskVars
  <2>2. pc'[j] = "failed" \/ pc'[j] = Unusable(j)
    BY <1>4, <1>13 DEF RegisterFails
  <2>3. pc'[j] = "failed" \/ (pc'[j] = "unread" /\ item[j][2] = "mp4")
    BY <2>2 DEF Unusable
  <2>4. Whole'  BY <1>3, <2>1 DEF WholeInv, Whole
  <2>5. Stage(j)'  BY <2>3 DEF Stage
  <2>. QED  BY <1>5, <1>7, <2>1, <2>3, <2>4, <2>5
<1>14. CASE Unlink(j)
  <2>1. s \in rec  BY <1>14 DEF Unlink, WholeInv, Stage
  <2>2. UNCHANGED <<mp4, rec>> /\ pc'[j] = "next"
    BY <1>4, <1>14 DEF Unlink, ItemDone
  <2>3. \A q \in Segs \ {s} : ts'[q] = ts[q]
    BY <1>2, <1>14, RemovedTyped DEF Unlink, WholeInv, SettledInv, Types
  <2>4. /\ \A k \in Recoveries \ {j} : snap'[k] = snap[k]
        /\ j \in Recoveries => snap'[j].rec = snap[j].rec \cup {s}
    BY <1>14 DEF Unlink, WholeInv, SettledInv, Types, JobTypes
  <2>5. Whole'  BY <1>3, <2>1, <2>2, <2>3 DEF WholeInv, Whole
  <2>6. Stage(j)'  BY <2>2 DEF Stage
  <2>7. j \in Recoveries => Fresh(j)'
    BY <1>3, <2>1, <2>2, <2>4 DEF WholeInv, Fresh, AtWork
  <2>. QED  BY <1>5, <2>2, <2>4, <2>5, <2>6, <2>7
<1>15. CASE Fails(j)
  <2>1. UNCHANGED <<rec, snap>> /\ pc'[j] = "next"
    BY <1>4, <1>15 DEF Fails, ItemDone
  <2>2. ts' = ts \/ ts' = [ts EXCEPT ![s] = "givenUp"]
    BY <1>15 DEF Fails
  <2>3. \/ mp4' = mp4
        \/ mp4' = [mp4 EXCEPT ![s] = "none"] /\ s \notin rec /\ ts' = ts
    BY <1>15 DEF Fails, WholeInv, Fresh
  <2>4. Whole'
    <3>1. CASE mp4' = mp4
      BY <1>2, <1>3, <2>1, <2>2, <3>1 DEF WholeInv, Whole, SettledInv, Types, DiskTypes
    <3>2. CASE mp4' = [mp4 EXCEPT ![s] = "none"] /\ s \notin rec /\ ts' = ts
      BY <1>2, <1>6, <2>1, <3>2 DEF WholeInv, SettledInv, Types, DiskTypes
    <3>. QED  BY <2>3, <3>1, <3>2
  <2>5. Stage(j)'  BY <2>1 DEF Stage
  <2>. QED  BY <1>5, <1>7, <2>1, <2>4, <2>5
<1>. QED  BY <1>9, <1>10, <1>11, <1>12, <1>13, <1>14, <1>15

LEMMA WholeStep ==
    ASSUME WholeInv, OneAtATime, [Next]_vars
    PROVE  WholeInv'
<1>1. SettledInv'  BY SettledStep DEF WholeInv
<1>2. ASSUME NEW j \in Jobs, JobEnds(j)  PROVE WholeInv'
  <2>1. pc[j] # "idle" /\ pc'[j] = "idle" /\ \A k \in Jobs \ {j} : pc'[k] = pc[k]
    BY <1>2 DEF JobEnds, Goto, WholeInv, SettledInv, Types, JobTypes
  <2>2. \A k \in Jobs : pc'[k] = "idle"
    BY <2>1, Alone
  <2>3. /\ UNCHANGED <<ts, mp4, opened, together, rec, writing, todo>> /\ todo[j] = {}
        /\ \A k \in Recoveries : snap'[k] = snap[k] \/ snap'[k] = NoSnap
    BY <1>2 DEF JobEnds, diskVars, WholeInv, SettledInv, Types, JobTypes
  <2>4. /\ \A p \in States : state'[p] # "none" => state[p] # "none" /\ active' = active
        /\ \A p \in States : state[p] = "live" => state'[p] = "live"
    BY <1>2 DEF JobEnds, WholeInv, OneJob, SettledInv, Types, StateTypes
  <2>5. OneJob'
    BY <2>2, <2>3, <2>4, StatesAreJobs DEF WholeInv, OneJob
  <2>6. \A k \in Jobs \ {j} : pc[k] = "idle"  BY <2>1, Alone
  <2>7. (\A r \in Recoveries : Fresh(r))'
    BY <2>2, <2>3, <2>6, StatesAreJobs DEF WholeInv, Fresh, AtWork, NoSnap
  <2>. QED
    BY <1>1, <2>2, <2>3, <2>5, <2>7 DEF WholeInv, Whole, Stage
<1>3. CASE TimePasses
  BY <1>1, <1>3
     DEF TimePasses, WholeInv, OneJob, Whole, Stage, Fresh, AtWork, HasMp4, stateVars, jobVars
<1>4. CASE Crash
  BY <1>1, <1>4, StatesAreJobs
     DEF Crash, WholeInv, OneJob, Whole, Stage, Fresh, AtWork, NoSnap, SettledInv, Types, DiskTypes
<1>5. CASE UNCHANGED vars
  BY <1>1, <1>5 DEF vars, WholeInv, OneJob, Whole, Stage, Fresh, AtWork, HasMp4
<1>. QED
  BY <1>1, <1>2, <1>3, <1>4, <1>5, CameraWhole, JobBeginsWhole, NextWhole, WorkWhole
     DEF Next, JobStep

\* A row of the recordings table names an .mp4 that plays (registerSegment asks
\* ffprobe for its duration first), whatever fails or crashes, as long as recordings
\* and recoveries come one after another: nothing truncates an .mp4 that has a row,
\* and the recovery deletes none that has one.
THEOREM AllRegisteredPlayable ==
    ASSUME OneAtATime
    PROVE  Spec => []RegisteredPlayable
<1>1. WholeInv => RegisteredPlayable
  BY DEF WholeInv, Whole, SettledInv, Types, DiskTypes, RegisteredPlayable, Playable
<1>. QED  BY <1>1, InitWhole, WholeStep, PTL DEF Spec

\* Under the same assumption no step loses footage: a .ts goes only when its .mp4
\* is whole, or as a file too old and of no use to the recovery (676-679, 717-759).
THEOREM NoFootageEverLost ==
    ASSUME OneAtATime
    PROVE  Spec => []NoFootageLost
<1>1. WholeInv => NoFootageLost
  BY DEF WholeInv, Whole, SettledInv, Types, DiskTypes, NoFootageLost
<1>. QED  BY <1>1, InitWhole, WholeStep, PTL DEF Spec

-----------------------------------------------------------------------------
\* The pipeline implements Archive, under the same assumption.

Old == {s \in opened : tsAge[s] = 2}

\* Ages only grow, an .mp4 is no older than its segment, and what a recovery
\* remembers as old is old.
Aged ==
    /\ \A s \in Segs : tsAge[s] # 0 => s \in opened
    /\ \A s \in Segs : mp4Age[s] <= tsAge[s]
    /\ \A r \in Recoveries : \A f \in snap[r].old : f[1] \in Old

\* FFmpeg remuxes a .ts that stays there until the job removes it.
AtRemux(j) == pc[j] = "remux" => item[j][1] \in OnDisk

ArchiveInv == WholeInv /\ Aged /\ \A j \in Jobs : AtRemux(j)

LEMMA InitArchive == Init => ArchiveInv
<1>. SUFFICES ASSUME Init PROVE ArchiveInv  OBVIOUS
<1>1. WholeInv  BY InitWhole
<1>. QED  BY <1>1 DEF Init, ArchiveInv, Aged, AtRemux, NoSnap

\* FFmpeg's steps: what is on disk stays there, what it opens is young.
LEMMA CameraDisk ==
    ASSUME SettledInv, NEW p \in States, Camera(p)
    PROVE  \/ \E s \in Segs :
                 /\ s \notin opened /\ opened' = opened \cup {s}
                 /\ \A q \in Segs : q < s => q \in opened
                 /\ OnDisk' = OnDisk \cup {s} /\ tsAge' = [tsAge EXCEPT ![s] = 0]
           \/ UNCHANGED <<opened, OnDisk, tsAge>>
<1>. USE DEF SettledInv, Types, DiskTypes, StateTypes
<1>1. ASSUME NEW s \in Segs, Start(p, s)  PROVE OnDisk' = OnDisk \cup {s}
  BY <1>1 DEF Start, OnDisk
<1>2. ASSUME NEW s \in Segs, Rotate(p, s)  PROVE OnDisk' = OnDisk \cup {s}
  <2>. DEFINE w == writing[p]
              v == IF ts[w] = "open" THEN "closed" ELSE ts[w]
  <2>1. /\ ts' = [ts EXCEPT ![s] = "open", ![w] = v]
        /\ s \notin opened /\ w \in opened
    BY <1>2 DEF Rotate, Opens, Alive
  <2>2. v \in {"open", "closed"} <=> ts[w] \in {"open", "closed"}  OBVIOUS
  <2>. HIDE DEF v
  <2>. QED  BY <2>1, <2>2 DEF OnDisk
<1>3. ASSUME Exit(p)  PROVE OnDisk' = OnDisk
  <2>. DEFINE w == writing[p]
              v == IF ts[w] = "open" THEN "closed" ELSE ts[w]
  <2>1. ts' = [ts EXCEPT ![w] = v]  BY <1>3 DEF Exit
  <2>2. v \in {"open", "closed"} <=> ts[w] \in {"open", "closed"}  OBVIOUS
  <2>. HIDE DEF v
  <2>. QED  BY <2>1, <2>2 DEF OnDisk
<1>4. ASSUME NEW s \in Segs, Start(p, s) \/ Rotate(p, s)
      PROVE  /\ s \notin opened /\ opened' = opened \cup {s}
             /\ \A q \in Segs : q < s => q \in opened
             /\ tsAge' = [tsAge EXCEPT ![s] = 0]
  BY <1>4 DEF Start, Rotate, Opens
<1>5. ASSUME Exit(p)  PROVE UNCHANGED <<opened, tsAge>>
  BY <1>5 DEF Exit
<1>. QED  BY <1>1, <1>2, <1>3, <1>4, <1>5 DEF Camera

\* A job's steps leave the segments' ages and what is opened alone.
LEMMA JobAges ==
    ASSUME ArchiveInv, NEW j \in Jobs, JobStep(j)
    PROVE  /\ UNCHANGED <<opened, tsAge>>
           /\ \A s \in Segs : mp4Age'[s] \in {mp4Age[s], 0}
           /\ \A r \in Recoveries : snap'[r].old \subseteq snap[r].old
<1>. USE DEF ArchiveInv, WholeInv, SettledInv, Types, DiskTypes, JobTypes
<1>1. UNCHANGED <<opened, tsAge>>
  BY DEF JobStep, ScanNext, ScanAborts, RecoveryNext, RecoveryAborts, RemuxBegins, RemuxEnds,
         RemuxFails, Register, RegisterFails, Unlink, Fails, JobEnds, diskVars
<1>2. \A s \in Segs : mp4Age'[s] \in {mp4Age[s], 0}
  BY DEF JobStep, ScanNext, ScanAborts, RecoveryNext, RecoveryAborts, RemuxBegins, RemuxEnds,
         RemuxFails, Register, RegisterFails, Unlink, Fails, JobEnds, diskVars
<1>3. CASE JobEnds(j)
  BY <1>1, <1>2, <1>3 DEF JobEnds, NoSnap
<1>4. CASE Unlink(j)
  BY <1>1, <1>2, <1>4 DEF Unlink
<1>5. CASE ~JobEnds(j) /\ ~Unlink(j)
  <2>1. snap' = snap
    BY <1>5 DEF JobStep, ScanNext, ScanAborts, RecoveryNext, RecoveryAborts, RemuxBegins,
                RemuxEnds, RemuxFails, Register, RegisterFails, Fails
  <2>. QED  BY <1>1, <1>2, <2>1
<1>. QED  BY <1>3, <1>4, <1>5

LEMMA ArchiveStep ==
    ASSUME ArchiveInv, OneAtATime, [Next]_vars
    PROVE  ArchiveInv'
<1>1. WholeInv'  BY WholeStep DEF ArchiveInv
<1>. USE DEF ArchiveInv, WholeInv, SettledInv, Types, DiskTypes
<1>2. ASSUME NEW p \in States, Camera(p)  PROVE ArchiveInv'
  <2>1. UNCHANGED jobVars /\ mp4Age' = mp4Age  BY <1>2 DEF Camera, Start, Rotate, Exit
  <2>2. \A s \in Segs \ opened : tsAge[s] = 0  BY DEF Aged
  <2>3. tsAge' = tsAge /\ opened \subseteq opened'  BY <1>2, <2>2, CameraDisk
  <2>4. Aged'  BY <2>1, <2>3 DEF Aged, Old, jobVars
  <2>5. OnDisk \subseteq OnDisk'  BY <1>2, CameraDisk
  <2>. QED  BY <1>1, <2>1, <2>4, <2>5 DEF AtRemux, jobVars
<1>3. CASE JobBegins
  <2>1. UNCHANGED <<ts, opened, tsAge, mp4Age, item>>
    BY <1>3 DEF JobBegins, ScanBegins, FinalScanBegins, RecoveryBegins, diskVars
  <2>2. \A k \in Jobs : pc'[k] = pc[k] \/ pc'[k] = "next"
    BY <1>3 DEF JobBegins, ScanBegins, FinalScanBegins, RecoveryBegins, Goto, JobTypes
  <2>3. \A r \in Recoveries : \A f \in snap'[r].old :
           \/ f \in snap[r].old
           \/ \E s \in Segs : f = <<s, "ts">> /\ tsAge[s] = 2
           \/ \E s \in Segs : f = <<s, "mp4">> /\ mp4Age[s] = 2
    BY <1>3 DEF JobBegins, ScanBegins, FinalScanBegins, RecoveryBegins, JobTypes
  <2>4. \A s \in Segs : mp4Age[s] = 2 => tsAge[s] = 2  BY DEF Aged
  <2>5. \A s \in Segs : tsAge[s] = 2 => s \in Old  BY DEF Aged, Old
  <2>6. Old' = Old  BY <2>1 DEF Old
  <2>7. Aged'
    BY <2>1, <2>3, <2>4, <2>5, <2>6 DEF Aged
  <2>. QED  BY <1>1, <2>1, <2>2, <2>7 DEF AtRemux, OnDisk
<1>4. ASSUME NEW j \in Jobs, JobStep(j)  PROVE ArchiveInv'
  <2>1. Aged'
    BY <1>4, JobAges DEF Aged, Old
  <2>2. pc[j] # "idle" /\ \A k \in Jobs \ {j} : pc'[k] = pc[k]
    BY <1>4 DEF JobStep, ScanNext, ScanAborts, RecoveryNext, RecoveryAborts, RemuxBegins,
                RemuxEnds, RemuxFails, Register, RegisterFails, Unlink, Fails, JobEnds,
                Take, Enter, ItemDone, Goto, JobTypes
  <2>3. ASSUME NEW k \in Jobs \ {j}  PROVE AtRemux(k)'
    BY <2>2, <2>3, Alone DEF AtRemux
  <2>4. pc'[j] = "remux" => RemuxBegins(j) \/ (pc[j] = "next" /\ UNCHANGED pc)
    BY <1>4 DEF JobStep, ScanNext, ScanAborts, RecoveryNext, RecoveryAborts, RemuxBegins,
                RemuxEnds, RemuxFails, Register, RegisterFails, Unusable, Unlink, Fails, JobEnds,
                Take, Enter, ItemDone, Goto, JobTypes
  <2>5. AtRemux(j)'
    BY <2>4 DEF AtRemux, RemuxBegins, Goto, OnDisk, JobTypes
  <2>. QED  BY <1>1, <2>1, <2>3, <2>5
<1>5. CASE TimePasses
  <2>1. UNCHANGED <<opened, ts, mp4, pc, item, snap>>  BY <1>5 DEF TimePasses, jobVars
  <2>2. \A s \in Segs : tsAge'[s] = tsAge[s] \/ (s \in opened /\ tsAge[s] # 2)
    BY <1>5 DEF TimePasses
  <2>3. \A s \in Segs : mp4Age'[s] <= tsAge'[s]
    <3>1. \A s \in Segs : mp4[s] # "none" => s \in opened /\ ts[s] # "open"
      BY DEF Files, Settled, OneJob
    <3>. QED  BY <1>5, <3>1 DEF TimePasses, Aged
  <2>4. Old \subseteq Old'  BY <2>1, <2>2 DEF Old
  <2>5. Aged'
    BY <2>1, <2>2, <2>3, <2>4 DEF Aged
  <2>. QED  BY <1>1, <2>1, <2>5 DEF AtRemux, OnDisk
<1>6. CASE Crash
  BY <1>1, <1>6 DEF Crash, Aged, AtRemux, NoSnap, Old
<1>7. CASE UNCHANGED vars
  BY <1>1, <1>7 DEF vars, Aged, Old, AtRemux, OnDisk
<1>. QED  BY <1>2, <1>3, <1>4, <1>5, <1>6, <1>7 DEF Next

\* A job's step is a step of the archive or none.
LEMMA JobImplements ==
    ASSUME ArchiveInv, NEW j \in Jobs, JobStep(j)
    PROVE  Footage!Next \/ UNCHANGED <<opened, Old, rec, Lost>>
<1>. DEFINE s == item[j][1]
<1>1. UNCHANGED <<opened, Old>>
  BY JobAges DEF Old
<1>2. AtWork(j) => s \in Segs /\ s \in opened /\ item[j][2] \in {"mp4", "ts"} /\ item[j] = <<s, item[j][2]>>
  BY ItemTyped DEF AtWork, ArchiveInv, WholeInv, SettledInv, Types, Listed, Settled, Item
<1>3. ASSUME UNCHANGED <<ts, mp4, rec>>  PROVE UNCHANGED Lost
  BY <1>1, <1>3 DEF Lost, OnDisk
<1>4. ASSUME UNCHANGED rec,
             \A q \in opened \ rec : /\ q \in OnDisk' <=> q \in OnDisk
                                     /\ mp4'[q] = "whole" <=> mp4[q] = "whole"
      PROVE  UNCHANGED Lost
  BY <1>1, <1>4 DEF Lost
<1>. USE DEF ArchiveInv, WholeInv, SettledInv, Types, DiskTypes
<1>5. CASE \/ j \in States /\ (ScanNext(j) \/ ScanAborts(j))
           \/ j \in Recoveries /\ RecoveryAborts(j)
           \/ RegisterFails(j) \/ JobEnds(j)
  BY <1>1, <1>3, <1>5 DEF ScanNext, ScanAborts, RecoveryAborts, RegisterFails, JobEnds, diskVars
<1>6. ASSUME j \in Recoveries, RecoveryNext(j)  PROVE UNCHANGED <<rec, Lost>>
  <2>1. PICK f \in todo[j] : RecoveryNext(j)!(f)
    BY <1>6 DEF RecoveryNext
  <2>2. f[1] \in Segs  BY TodoTyped
  <2>3. \A q \in Segs : q \in rec \/ ts'[q] = ts[q]
    BY <1>6, <2>1, <2>2, RemovedTyped DEF Fresh
  <2>. QED  BY <1>1, <1>4, <2>1, <2>3 DEF OnDisk
<1>7. CASE RemuxBegins(j)
  <2>1. ~HasMp4(s) /\ s \in Segs  BY <1>2, <1>7 DEF RemuxBegins, Stage, AtWork
  <2>2. \E v \in {"none", "empty", "partial"} : mp4' = [mp4 EXCEPT ![s] = v]
    BY <1>7 DEF RemuxBegins
  <2>3. UNCHANGED <<ts, rec>>  BY <1>7 DEF RemuxBegins
  <2>. QED  BY <1>1, <1>4, <2>1, <2>2, <2>3 DEF HasMp4, OnDisk
<1>8. CASE RemuxEnds(j)
  <2>1. s \in OnDisk  BY <1>8 DEF RemuxEnds, AtRemux
  <2>2. UNCHANGED <<ts, rec>> /\ \A q \in Segs \ {s} : mp4'[q] = mp4[q]
    BY <1>8 DEF RemuxEnds
  <2>. QED  BY <1>1, <2>1, <2>2 DEF Lost, OnDisk
<1>9. CASE RemuxFails(j)
  <2>1. mp4[s] # "whole" /\ s \in Segs  BY <1>2, <1>9 DEF RemuxFails, Stage, AtWork
  <2>2. UNCHANGED <<ts, rec>> /\ mp4' = [mp4 EXCEPT ![s] = "none"]
    BY <1>9 DEF RemuxFails
  <2>. QED  BY <1>1, <1>4, <2>1, <2>2 DEF OnDisk
<1>10. CASE Register(j)
  <2>1. s \in Segs /\ s \in opened  BY <1>2, <1>10 DEF Register, AtWork
  <2>2. UNCHANGED <<ts, mp4>>  BY <1>10 DEF Register, diskVars
  <2>3. CASE rec' = rec  BY <1>1, <1>3, <2>2, <2>3
  <2>4. CASE rec' = rec \cup {s} /\ Playable(s)
    <3>1. mp4[s] = "whole"  BY <2>1, <2>4 DEF Playable, Whole
    <3>2. s \notin Lost /\ UNCHANGED Lost  BY <1>1, <2>2, <2>4, <3>1 DEF Lost, OnDisk
    <3>3. Footage!List(s)
      BY <1>1, <2>1, <2>4, <3>2 DEF Footage!List, Old
    <3>. QED  BY <2>1, <3>3 DEF Footage!Next
  <2>. QED  BY <1>10, <2>3, <2>4 DEF Register
<1>11. CASE Unlink(j)
  <2>1. s \in rec /\ s \in Segs  BY <1>2, <1>11 DEF Unlink, Stage, AtWork
  <2>2. UNCHANGED <<mp4, rec>>  BY <1>11 DEF Unlink
  <2>3. \A q \in Segs \ {s} : ts'[q] = ts[q]
    BY <1>11, <2>1, RemovedTyped DEF Unlink
  <2>. QED  BY <1>1, <1>4, <2>1, <2>2, <2>3 DEF OnDisk
<1>12. CASE Fails(j)
  <2>1. s \in Segs /\ s \in opened /\ item[j] = <<s, item[j][2]>>
    BY <1>2, <1>12 DEF Fails, AtWork
  <2>2. UNCHANGED rec  BY <1>12 DEF Fails
  <2>3. CASE ts' = ts /\ mp4' = mp4
    BY <1>1, <1>3, <2>2, <2>3
  <2>5. CASE mp4' # mp4
    <3>1. /\ mp4' = [mp4 EXCEPT ![s] = "none"] /\ ts' = ts
          /\ item[j][2] = "mp4" /\ j \in Recoveries /\ pc[j] = "unread" /\ item[j] \in snap[j].old
      BY <1>12, <2>5 DEF Fails, Fresh
    <3>2. s \in Old /\ s \notin rec  BY <3>1 DEF Aged, Fresh
    <3>3. CASE s \in OnDisk \/ mp4[s] # "whole"
      BY <1>1, <2>2, <3>1, <3>3 DEF Lost, OnDisk
    <3>4. CASE s \notin OnDisk /\ mp4[s] = "whole"
      <4>1. Lost' = Lost \cup {s}
        BY <1>1, <2>1, <2>2, <3>1, <3>2, <3>4 DEF Lost, OnDisk
      <4>2. Footage!GiveUp(s)
        BY <1>1, <2>2, <3>2, <4>1 DEF Footage!GiveUp, Old
      <4>. QED  BY <2>1, <4>2 DEF Footage!Next
    <3>. QED  BY <3>3, <3>4
  <2>4. CASE ts' # ts
    <3>1. /\ ts' = [ts EXCEPT ![s] = "givenUp"] /\ mp4' = mp4
          /\ item[j][2] = "ts" /\ j \in Recoveries /\ item[j] \in snap[j].old
      BY <1>12, <2>4 DEF Fails, Fresh
    <3>2. s \in Old  BY <2>1, <3>1 DEF Aged
    <3>3. OnDisk' = OnDisk \ {s}  BY <2>1, <3>1 DEF OnDisk
    <3>4. CASE s \in rec \/ mp4[s] = "whole"
      BY <1>1, <2>2, <3>1, <3>3, <3>4 DEF Lost
    <3>5. CASE s \notin rec /\ mp4[s] # "whole"
      <4>1. Lost' = Lost \cup {s}
        BY <1>1, <2>1, <2>2, <3>1, <3>3, <3>5 DEF Lost
      <4>2. Footage!GiveUp(s)
        BY <1>1, <2>2, <3>2, <3>5, <4>1 DEF Footage!GiveUp, Old
      <4>. QED  BY <2>1, <4>2 DEF Footage!Next
    <3>. QED  BY <3>4, <3>5
  <2>. QED  BY <2>3, <2>4, <2>5
<1>. QED
  BY <1>1, <1>5, <1>6, <1>7, <1>8, <1>9, <1>10, <1>11, <1>12 DEF JobStep

LEMMA StepImplements ==
    ASSUME ArchiveInv, [Next]_vars
    PROVE  Footage!Next \/ UNCHANGED <<opened, Old, rec, Lost>>
<1>. USE DEF ArchiveInv, WholeInv, SettledInv, Types, DiskTypes
<1>1. ASSUME NEW p \in States, Camera(p)
      PROVE  Footage!Next \/ UNCHANGED <<opened, Old, rec, Lost>>
  <2>1. UNCHANGED <<mp4, rec>>  BY <1>1 DEF Camera, Start, Rotate, Exit
  <2>2. CASE UNCHANGED <<opened, OnDisk, tsAge>>
    BY <2>1, <2>2 DEF Old, Lost
  <2>3. ASSUME NEW s \in Segs,
               s \notin opened, opened' = opened \cup {s},
               \A q \in Segs : q < s => q \in opened,
               OnDisk' = OnDisk \cup {s}, tsAge' = [tsAge EXCEPT ![s] = 0]
        PROVE  Footage!Next
    <3>1. UNCHANGED <<Old, Lost>>
      BY <2>1, <2>3 DEF Old, Lost
    <3>2. Footage!Record(s)
      BY <2>1, <2>3, <3>1 DEF Footage!Record, Old
    <3>. QED  BY <3>2 DEF Footage!Next
  <2>. QED  BY <1>1, <2>2, <2>3, CameraDisk
<1>2. CASE JobBegins
  BY <1>2 DEF JobBegins, ScanBegins, FinalScanBegins, RecoveryBegins, diskVars, Old, Lost, OnDisk
<1>3. CASE TimePasses
  <2>1. UNCHANGED <<opened, rec, Lost>>
    BY <1>3 DEF TimePasses, Lost, OnDisk
  <2>2. \A s \in Segs : tsAge[s] = 2 => tsAge'[s] = 2
    BY <1>3 DEF TimePasses
  <2>3. Old' \in SUBSET opened /\ Old \subseteq Old'
    BY <2>1, <2>2 DEF Old
  <2>. QED  BY <2>1, <2>3 DEF Footage!Next, Footage!GrowOld, Old
<1>4. CASE Crash
  <2>1. UNCHANGED <<opened, mp4, rec, tsAge>> /\ OnDisk' = OnDisk
    BY <1>4 DEF Crash, OnDisk
  <2>. QED  BY <2>1 DEF Old, Lost
<1>5. CASE UNCHANGED vars
  BY <1>5 DEF vars, Old, Lost, OnDisk
<1>. QED
  BY <1>1, <1>2, <1>3, <1>4, <1>5, JobImplements DEF Next

\* Scans, remuxes, registrations and recoveries, one after another, implement an
\* archive: what is listed stays listed, and footage is lost only as what the recovery gives up
\* past the delete period (645-759).
THEOREM ImplementsArchive ==
    ASSUME OneAtATime
    PROVE  Spec => ArchiveSpec
<1>1. Init => Footage!Init
  BY DEF Init, Footage!Init, Lost
<1>2. ArchiveInv /\ [Next]_vars => [Footage!Next]_(Footage!vars)
  BY StepImplements DEF Footage!vars, Old
<1>. QED
  BY <1>1, <1>2, InitArchive, ArchiveStep, PTL DEF Spec, ArchiveSpec, Footage!Spec

-----------------------------------------------------------------------------
\* What a job passes over has a row, whoever else is at the same files.

\* The files a scan knows, those a recovery takes for registered and the one a
\* job has just registered are in the recordings table.
PassedOver ==
    /\ \A p \in States : known[p] \subseteq rec
    /\ \A r \in Recoveries : snap[r].rec \subseteq rec
    /\ \A j \in Jobs : pc[j] = "unlink" => item[j][1] \in rec
PassedInv == Types /\ PassedOver

\* A .ts that is not given up for invalid goes only when its segment has a row.
RemovedHasRow == \A s \in OnDisk : ts'[s] = "none" => s \in rec

LEMMA JobPassed ==
    ASSUME PassedInv, NEW j \in Jobs, JobStep(j)
    PROVE  PassedOver' /\ RemovedHasRow
<1>. USE DEF PassedInv, Types, DiskTypes, StateTypes, JobTypes
<1>1. rec \subseteq rec'
  BY DEF JobStep, ScanNext, ScanAborts, RecoveryNext, RecoveryAborts, RemuxBegins, RemuxEnds,
         RemuxFails, Register, RegisterFails, Unlink, Fails, JobEnds, diskVars
<1>2. ASSUME NEW k \in Jobs \ {j}, pc'[k] = "unlink"  PROVE item'[k][1] \in rec'
  <2>1. pc'[k] = pc[k] /\ item'[k] = item[k]
    BY <1>2, FramedNext, FramedWork, FramedEnds DEF JobStep, JobFrame
  <2>. QED  BY <1>1, <1>2, <2>1 DEF PassedOver
<1>3. ASSUME \A p \in States : known'[p] \subseteq known[p],
             \A r \in Recoveries : snap'[r].rec \subseteq snap[r].rec
      PROVE  /\ \A p \in States : known'[p] \subseteq rec'
             /\ \A r \in Recoveries : snap'[r].rec \subseteq rec'
  BY <1>1, <1>3 DEF PassedOver
<1>4. CASE \/ j \in States /\ (ScanNext(j) \/ ScanAborts(j))
           \/ j \in Recoveries /\ RecoveryAborts(j)
           \/ RemuxBegins(j) \/ RemuxEnds(j) \/ RemuxFails(j) \/ RegisterFails(j)
  <2>1. UNCHANGED <<ts, known, snap>> /\ pc'[j] # "unlink"
    BY <1>4 DEF ScanNext, ScanAborts, RecoveryAborts, RemuxBegins, RemuxEnds, RemuxFails,
                RegisterFails, Unusable, Take, Enter, ItemDone, Goto, diskVars, stateVars
  <2>. QED  BY <1>2, <1>3, <2>1 DEF PassedOver, RemovedHasRow, OnDisk
<1>5. ASSUME j \in Recoveries, RecoveryNext(j)  PROVE PassedOver' /\ RemovedHasRow
  <2>1. PICK f \in todo[j] : RecoveryNext(j)!(f)  BY <1>5 DEF RecoveryNext
  <2>2. f[1] \in Segs  BY TodoTyped
  <2>3. UNCHANGED <<known, snap>> /\ pc'[j] # "unlink"
    BY <1>5, <2>1 DEF Take, Enter, Goto, stateVars
  <2>4. snap[j].rec \subseteq rec  BY <1>5 DEF PassedOver
  <2>5. RemovedHasRow
    <3>1. ts' = ts \/ (f[1] \in snap[j].rec /\ ts' = Removed(f[1]))  BY <1>5, <2>1
    <3>. QED  BY <2>2, <2>4, <3>1, RemovedTyped DEF RemovedHasRow, OnDisk
  <2>. QED  BY <1>2, <1>3, <2>3, <2>5 DEF PassedOver
<1>6. CASE Register(j)
  <2>1. UNCHANGED <<ts, known, snap, item>>  BY <1>6 DEF Register, diskVars, stateVars
  <2>2. pc'[j] = "unlink" => item'[j][1] \in rec'
    BY <1>6, <2>1 DEF Register, Unusable, Goto
  <2>. QED  BY <1>2, <1>3, <2>1, <2>2 DEF PassedOver, RemovedHasRow, OnDisk
<1>7. CASE Unlink(j)
  <2>1. item[j][1] \in Segs /\ item[j][1] \in rec
    BY <1>7, ItemTyped DEF Unlink, PassedOver
  <2>2. RemovedHasRow
    BY <1>7, <2>1, RemovedTyped DEF Unlink, RemovedHasRow, OnDisk
  <2>3. pc'[j] # "unlink"  BY <1>7 DEF Unlink, ItemDone, Goto
  <2>4. /\ \A p \in States : known'[p] \subseteq rec'
        /\ \A r \in Recoveries : snap'[r].rec \subseteq rec'
    BY <1>7, <2>1 DEF Unlink, PassedOver, Jobs
  <2>. QED  BY <1>2, <2>2, <2>3, <2>4 DEF PassedOver
<1>8. CASE Fails(j)
  <2>1. item[j][1] \in Segs  BY <1>8, ItemTyped DEF Fails
  <2>2. UNCHANGED <<known, snap>> /\ pc'[j] # "unlink"
    BY <1>8 DEF Fails, ItemDone, Goto, stateVars
  <2>3. RemovedHasRow  BY <1>8, <2>1 DEF Fails, RemovedHasRow, OnDisk
  <2>. QED  BY <1>2, <1>3, <2>2, <2>3 DEF PassedOver
<1>9. CASE JobEnds(j)
  <2>1. /\ ts' = ts /\ pc'[j] # "unlink"
        /\ \A p \in States : known'[p] \subseteq known[p]
        /\ \A r \in Recoveries : snap'[r].rec \subseteq snap[r].rec
    BY <1>9 DEF JobEnds, Goto, NoSnap, diskVars
  <2>. QED  BY <1>2, <1>3, <2>1 DEF PassedOver, RemovedHasRow, OnDisk
<1>. QED  BY <1>4, <1>5, <1>6, <1>7, <1>8, <1>9 DEF JobStep

LEMMA CameraKeeps ==
    ASSUME Types, NEW p \in States, Camera(p)
    PROVE  OnDisk \subseteq OnDisk'
<1>. USE DEF Types, DiskTypes, StateTypes
<1>1. ASSUME NEW s \in Segs, Start(p, s)  PROVE OnDisk \subseteq OnDisk'
  BY <1>1 DEF Start, OnDisk
<1>2. ASSUME NEW s \in Segs, Rotate(p, s)  PROVE OnDisk \subseteq OnDisk'
  <2>. DEFINE w == writing[p]
              v == IF ts[w] = "open" THEN "closed" ELSE ts[w]
  <2>1. ts' = [ts EXCEPT ![s] = "open", ![w] = v]  BY <1>2 DEF Rotate
  <2>2. w \in Segs  BY <1>2 DEF Rotate
  <2>3. ts[w] \in {"open", "closed"} => v \in {"open", "closed"}  OBVIOUS
  <2>4. w = s => ts'[s] = "closed" \/ ts'[s] = "open"
    BY <1>2, <2>1, <2>2 DEF Rotate
  <2>. HIDE DEF v
  <2>. QED  BY <2>1, <2>2, <2>3, <2>4 DEF OnDisk
<1>3. ASSUME Exit(p)  PROVE OnDisk \subseteq OnDisk'
  <2>. DEFINE w == writing[p]
              v == IF ts[w] = "open" THEN "closed" ELSE ts[w]
  <2>1. ts' = [ts EXCEPT ![w] = v] /\ w \in Segs  BY <1>3 DEF Exit
  <2>2. ts[w] \in {"open", "closed"} => v \in {"open", "closed"}  OBVIOUS
  <2>. HIDE DEF v
  <2>. QED  BY <2>1, <2>2 DEF OnDisk
<1>. QED  BY <1>1, <1>2, <1>3 DEF Camera

LEMMA PassedStep ==
    ASSUME PassedInv, [Next]_vars
    PROVE  PassedInv' /\ RemovedHasRow
<1>1. Types'  BY TypesStep DEF PassedInv
<1>. USE DEF PassedInv
<1>2. ASSUME NEW p \in States, Camera(p)  PROVE PassedOver' /\ RemovedHasRow
  <2>1. OnDisk \subseteq OnDisk'
    BY <1>2, CameraKeeps
  <2>2. /\ UNCHANGED <<rec, pc, item, snap>>
        /\ \A q \in States : known'[q] = known[q] \/ known'[q] = {}
    BY <1>2 DEF Camera, Start, Rotate, Exit, jobVars, Types, StateTypes
  <2>. QED  BY <2>1, <2>2 DEF PassedOver, RemovedHasRow, OnDisk
<1>3. CASE JobBegins
  <2>1. /\ UNCHANGED <<ts, rec, known, item>>
        /\ \A r \in Recoveries : snap'[r] = snap[r] \/ snap'[r].rec = rec
    BY <1>3 DEF JobBegins, ScanBegins, FinalScanBegins, RecoveryBegins, diskVars, stateVars,
                Types, JobTypes
  <2>2. \A k \in Jobs : pc'[k] = "unlink" => pc[k] = "unlink"
    BY <1>3 DEF JobBegins, ScanBegins, FinalScanBegins, RecoveryBegins, Goto,
                Types, JobTypes
  <2>. QED  BY <1>1, <2>1, <2>2 DEF PassedOver, RemovedHasRow, OnDisk
<1>4. CASE TimePasses
  BY <1>1, <1>4 DEF TimePasses, PassedOver, RemovedHasRow, OnDisk, stateVars, jobVars
<1>5. CASE Crash
  BY <1>1, <1>5 DEF Crash, PassedOver, RemovedHasRow, OnDisk, NoSnap, Types, DiskTypes
<1>6. CASE UNCHANGED vars
  BY <1>1, <1>6 DEF vars, PassedOver, RemovedHasRow, OnDisk
<1>. QED  BY <1>1, <1>2, <1>3, <1>4, <1>5, <1>6, JobPassed DEF Next

LEMMA InitPassed == Init => PassedInv
BY InitTypes DEF Init, PassedInv, PassedOver, NoSnap

\* A scan skips a file, and the recovery takes an .ts for registered, only if the
\* recordings table has its row: with any number of FFmpegs, scans and recoveries at
\* the same files, whatever fails or crashes, no segment is passed over unregistered
\* (645-714, 717-759). It is what ClosedGetsRegistered rests on.
THEOREM PassedOverHasRow == Spec => []PassedOver
<1>1. PassedInv => PassedOver  BY DEF PassedInv
<1>. QED  BY <1>1, InitPassed, PassedStep, PTL DEF Spec

\* An .ts is removed only for a segment that has a row, also by two jobs at once, when
\* a recording starts during a recovery and when two starts overlap; what goes without
\* one is given up by a recovery (676-679, 734-741).
THEOREM RemovedOnlyListed == Spec => [][RemovedHasRow]_vars
<1>1. PassedInv /\ [Next]_vars => [RemovedHasRow]_vars  BY PassedStep
<1>. QED  BY <1>1, InitPassed, PassedStep, PTL DEF Spec
==============================================================================
