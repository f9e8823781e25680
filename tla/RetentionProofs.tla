--------------------------- MODULE RetentionProofs ---------------------------
(***************************************************************************)
(* Proofs about Retention, for any recordings, clips and events, any number *)
(* of runs side by side, any holds and any set of operations.               *)
(***************************************************************************)
EXTENDS Retention, TLAPS

USE DEF clipVars

(* At one recording or one clip; before the protections are read; a run of   *)
(* deleteAllRecordings, which reads none; what only handleRetention does.    *)
AtOne == {"sub", "clipRow", "recRow"}
Before == {"idle", "holds", "items", "sources"}
All == {"allFiles", "allRows"}
Aged == {"clips", "clip", "recs", "events", "orphans", "walk", "disk"}

(* Where a run is says what it holds.                                        *)
Staged(j) ==
  /\ j.pc \notin AtOne => j.cur = {} /\ j.sub = {} /\ j.one = {}
  /\ j.pc \in {"sub", "recRow"} => j.cur # {}
  /\ j.pc = "rec" \/ j.cur # {} => j.todo \subseteq Recordings
  /\ j.pc \in Before => j.turn = 0
  /\ ~j.guard => j.turn = 0
  /\ j.pc \in Aged \/ (j.pc = "clipRow" /\ j.cur = {}) => ~j.guard
  /\ j.pc = "batch" => j.guard /\ j.turn < Iterations

(* What has protected since the run began is in the set the run has read.    *)
Knows(j) ==
  /\ j.pc \notin {"idle", "holds"} \cup All => j.kept["hold"] \subseteq j.prot
  /\ j.pc \notin {"idle", "holds", "items"} \cup All => j.kept["evidence"] \subseteq j.prot

(* Nothing the run is about to delete is in that set, nor a source of it; C  *)
(* are the rows of clips.                                                    *)
Spares(j, C) ==
  /\ j.cur \cap j.prot = {} /\ j.sub \cap j.prot = {} /\ j.one \cap j.prot = {}
  /\ \A c \in C \cap j.prot : Source[c] \notin j.cur
  /\ j.pc = "clip" \/ (j.pc = "clipRow" /\ j.cur = {}) => j.todo \cap j.prot = {}

KeptStill(j, P) == \A w \in Ways : j.kept[w] \subseteq P[w]

Good(j, C, P) == Staged(j) /\ Knows(j) /\ Spares(j, C) /\ KeptStill(j, P)

DataTypes ==
  /\ rec \subseteq Recordings /\ file \subseteq Recordings
  /\ clip \subseteq Clips /\ clipFile \subseteq Clips /\ event \subseteq Events
  /\ exporting \subseteq Clips /\ strays \subseteq Clips /\ cleanup \in BOOLEAN
  /\ derived \subseteq Recordings /\ deriving \subseteq Recordings
  /\ old \subseteq Things
  /\ protects \in [Ways -> SUBSET Things]

IInv ==
  /\ DataTypes /\ job \in [Runs -> Jobs]
  /\ \A r \in Runs : Good(job[r], clip, protects)

LEMMA TypesSplit == TypeOK <=> DataTypes /\ job \in [Runs -> Jobs]
  BY DEF TypeOK, DataTypes

-----------------------------------------------------------------------------
LEMMA IdleGood ==
  ASSUME NEW C, NEW P
  PROVE  Idle \in Jobs /\ Good(Idle, C, P) /\ Idle.pc = "idle"
<1>. DEFINE k == [w \in Ways |-> {}]
            i == Idle
<1>1. k \in [Ways -> SUBSET Things] /\ \A w \in Ways : k[w] = {}  OBVIOUS
<1>2. Ways = {"hold", "evidence"}  BY DEF Ways
<1>3. i = [pc |-> "idle", guard |-> FALSE, prot |-> {}, todo |-> {}, cur |-> {},
           sub |-> {}, one |-> {}, some |-> FALSE, turn |-> 0, late |-> {}, kept |-> k]
  BY DEF Idle
<1>. HIDE DEF k, i
<1>4. i \in Jobs  BY <1>1, <1>3, BoundsAssumption DEF Jobs, PCs
<1>5. Good(i, C, P)
  BY <1>1, <1>2, <1>3
     DEF Good, Staged, Knows, Spares, KeptStill, AtOne, Before, All, Aged
<1>. QED  BY <1>3, <1>4, <1>5 DEF i

LEMMA ClosureTyped ==
  ASSUME NEW S \in SUBSET Things, clip \subseteq Clips
  PROVE  Closure(S) \in SUBSET Things /\ S \subseteq Closure(S)
<1>1. \A c \in S \cap clip : Source[c] \in Recordings  BY ThingsAssumption
<1>. QED  BY <1>1 DEF Closure, Things

LEMMA JobAt ==
  ASSUME IInv, NEW r \in Runs
  PROVE  job[r] \in Jobs /\ Good(job[r], clip, protects)
  BY DEF IInv

(* Fewer clips, and nothing else, leave what a run holds as good as it was.  *)
LEMMA FewerClips ==
  ASSUME NEW j, NEW C, NEW D \in SUBSET C, NEW P, Good(j, C, P)
  PROVE  Good(j, D, P)
  BY DEF Good, Spares

(* Run r goes on as n.                                                       *)
LEMMA RunMoves ==
  ASSUME IInv, NEW r \in Runs, NEW n \in Jobs, Good(n, clip', protects), Set(r, n),
         clip' \subseteq clip, UNCHANGED protects, DataTypes'
  PROVE  IInv'
<1>1. job' \in [Runs -> Jobs] /\ job'[r] = n
      /\ \A q \in Runs \ {r} : job'[q] = job[q]
  BY DEF IInv, Set
<1>2. \A q \in Runs \ {r} : Good(job[q], clip', protects)
  BY FewerClips DEF IInv
<1>3. \A q \in Runs : Good(job'[q], clip', protects')
  BY <1>1, <1>2
<1>. QED  BY <1>1, <1>3 DEF IInv

(* A step that removes no clip needs to look at run r only.                  *)
LEMMA RunStays ==
  ASSUME IInv, NEW r \in Runs, NEW n \in Jobs, Good(n, clip, protects), Set(r, n),
         UNCHANGED <<clip, protects>>, DataTypes'
  PROVE  IInv'
  BY RunMoves

LEMMA DataStay ==
  ASSUME DataTypes, UNCHANGED <<dataVars, envVars, protects>>
  PROVE  DataTypes' /\ UNCHANGED <<clip, protects>>
  BY DEF DataTypes, dataVars, envVars

LEMMA WithoutLess ==
  ASSUME NEW S, NEW gone, NEW T \in Without(S, gone)
  PROVE  T \subseteq S /\ S \ T \subseteq gone
  BY DEF Without

(* A query that throws within a loop.                                        *)
LEMMA ThrownGood ==
  ASSUME IInv, NEW r \in Runs, job[r].pc \in {"clipRow", "recRow"},
         NEW C \in SUBSET clip
  PROVE  Thrown(r) \in Jobs /\ Good(Thrown(r), C, protects)
<1>. DEFINE j == job[r]
            q == IF j.cur = {} THEN "clip" ELSE "rec"
            n == [j EXCEPT !.pc = q, !.cur = {}, !.sub = {}, !.one = {}, !.late = {}]
<1>1. j \in Jobs /\ Good(j, clip, protects) /\ j.pc \in {"clipRow", "recRow"}  BY JobAt
<1>2. Thrown(r) = n  BY DEF Thrown
<1>3. \/ j.cur = {} /\ q = "clip" /\ j.pc = "clipRow"
      \/ j.cur # {} /\ q = "rec"
  BY <1>1 DEF Good, Staged
<1>. HIDE DEF j, q
<1>4. n \in Jobs  BY <1>1, <1>3 DEF Jobs, PCs
<1>5. Good(n, C, protects)
  BY <1>1, <1>3
     DEF Jobs, Good, Staged, Knows, Spares, KeptStill, AtOne, Before, All, Aged
<1>. QED  BY <1>2, <1>4, <1>5

(* A run that ends.                                                          *)
LEMMA EndStep ==
  ASSUME IInv, NEW r \in Runs, End(r), clip' \subseteq clip, UNCHANGED protects, DataTypes'
  PROVE  IInv'
  BY IdleGood, RunMoves DEF End

(* The protections.                                                          *)
LEMMA ReadHoldsStep ==
  ASSUME IInv, NEW r \in Runs, ReadHolds(r)
  PROVE  IInv'
<1>. DEFINE j == job[r]
            n == [j EXCEPT !.pc = "items", !.prot = protects["hold"]]
<1>1. j \in Jobs /\ Good(j, clip, protects) /\ j.pc = "holds"
  BY JobAt DEF ReadHolds
<1>2. Set(r, n) /\ DataTypes' /\ UNCHANGED <<clip, protects>>
  BY DataStay DEF ReadHolds, Goto, IInv
<1>5. protects["hold"] \in SUBSET Things  BY DEF IInv, DataTypes, Ways
<1>. HIDE DEF j
<1>3. n \in Jobs  BY <1>1, <1>5 DEF Jobs, PCs, Ways
<1>4. Good(n, clip, protects)
  BY <1>1, <1>5 DEF Jobs, Good, Staged, Knows, Spares, KeptStill, AtOne, Before, All, Aged, Ways
<1>. HIDE DEF n
<1>. QED  BY <1>2, <1>3, <1>4, RunStays

LEMMA ReadItemsStep ==
  ASSUME IInv, NEW r \in Runs, ReadItems(r)
  PROVE  IInv'
<1>. DEFINE j == job[r]
            n == [j EXCEPT !.pc = "sources", !.prot = @ \cup protects["evidence"]]
<1>1. j \in Jobs /\ Good(j, clip, protects) /\ j.pc = "items"
  BY JobAt DEF ReadItems
<1>2. Set(r, n) /\ DataTypes' /\ UNCHANGED <<clip, protects>>
  BY DataStay DEF ReadItems, Goto, IInv
<1>5. protects["evidence"] \in SUBSET Things  BY DEF IInv, DataTypes, Ways
<1>. HIDE DEF j
<1>3. n \in Jobs  BY <1>1, <1>5 DEF Jobs, PCs, Ways
<1>4. Good(n, clip, protects)
  BY <1>1, <1>5 DEF Jobs, Good, Staged, Knows, Spares, KeptStill, AtOne, Before, All, Aged, Ways
<1>. HIDE DEF n
<1>. QED  BY <1>2, <1>3, <1>4, RunStays

LEMMA ReadSourcesStep ==
  ASSUME IInv, NEW r \in Runs, ReadSources(r)
  PROVE  IInv'
<1>. DEFINE j == job[r]
            q == IF j.guard THEN "batch" ELSE "clips"
            p == Closure(j.prot)
            n == [j EXCEPT !.pc = q, !.prot = p]
<1>1. j \in Jobs /\ Good(j, clip, protects) /\ j.pc = "sources"
  BY JobAt DEF ReadSources
<1>2. Set(r, n) /\ DataTypes' /\ UNCHANGED <<clip, protects>>
  BY DataStay DEF ReadSources, IInv
<1>3. p \in SUBSET Things /\ j.prot \subseteq p
  BY <1>1, ClosureTyped DEF Jobs, IInv, DataTypes
<1>4. \/ j.guard /\ q = "batch"
      \/ ~j.guard /\ q = "clips"
  OBVIOUS
<1>. HIDE DEF j, q, p
<1>5. n \in Jobs  BY <1>1, <1>3, <1>4 DEF Jobs, PCs
<1>6. Good(n, clip, protects)
  BY <1>1, <1>3, <1>4, BoundsAssumption
     DEF Jobs, Good, Staged, Knows, Spares, KeptStill, AtOne, Before, All, Aged
<1>. HIDE DEF n
<1>. QED  BY <1>2, <1>5, <1>6, RunStays

(* The clips.                                                                *)
LEMMA ListClipsStep ==
  ASSUME IInv, NEW r \in Runs, ListClips(r)
  PROVE  IInv'
<1>. DEFINE j == job[r]
            n == [j EXCEPT !.pc = "clip", !.todo = (clip \cap old) \ j.prot]
<1>1. j \in Jobs /\ Good(j, clip, protects) /\ j.pc = "clips"
  BY JobAt DEF ListClips
<1>2. Set(r, n) /\ DataTypes' /\ UNCHANGED <<clip, protects>>
  BY DataStay DEF ListClips, Goto, IInv
<1>5. clip \subseteq Clips /\ Clips \subseteq Things  BY DEF IInv, DataTypes, Things
<1>. HIDE DEF j
<1>3. n \in Jobs  BY <1>1, <1>5 DEF Jobs, PCs
<1>4. Good(n, clip, protects)
  BY <1>1, <1>5 DEF Jobs, Good, Staged, Knows, Spares, KeptStill, AtOne, Before, All, Aged
<1>. HIDE DEF n
<1>. QED  BY <1>2, <1>3, <1>4, RunStays

LEMMA DeleteClipFileStep ==
  ASSUME IInv, NEW r \in Runs, NEW c \in Clips, DeleteClipFile(r, c)
  PROVE  IInv'
<1>. DEFINE j == job[r]
            m == [j EXCEPT !.pc = "clipRow", !.todo = @ \ {c}, !.one = {c}]
            n == [j EXCEPT !.pc = "clipRow", !.sub = @ \ {c}, !.one = {c}]
<1>1. j \in Jobs /\ Good(j, clip, protects)  BY JobAt
<1>2. clipFile' \subseteq clipFile  BY WithoutLess DEF DeleteClipFile
<1>3. DataTypes' /\ UNCHANGED <<clip, protects>>
  BY <1>2 DEF DeleteClipFile, IInv, DataTypes, envVars
<1>4. \/ j.pc = "clip" /\ c \in j.todo /\ Set(r, m)
      \/ j.pc = "sub" /\ c \in j.sub /\ Set(r, n)
  BY DEF DeleteClipFile
<1>. HIDE DEF j
<1>5. ASSUME j.pc = "clip", c \in j.todo PROVE m \in Jobs /\ Good(m, clip, protects)
  BY <1>1, <1>5
     DEF Jobs, PCs, Good, Staged, Knows, Spares, KeptStill, AtOne, Before, All, Aged
<1>6. ASSUME j.pc = "sub", c \in j.sub PROVE n \in Jobs /\ Good(n, clip, protects)
  BY <1>1, <1>6
     DEF Jobs, PCs, Good, Staged, Knows, Spares, KeptStill, AtOne, Before, All, Aged
<1>. HIDE DEF m, n
<1>. QED  BY <1>3, <1>4, <1>5, <1>6, RunStays

LEMMA DeleteClipRowStep ==
  ASSUME IInv, NEW r \in Runs, DeleteClipRow(r)
  PROVE  IInv'
<1>. DEFINE j == job[r]
            n == [j EXCEPT !.pc = "sub", !.one = {}]
<1>1. j \in Jobs /\ Good(j, clip, protects) /\ j.pc = "clipRow"
  BY JobAt DEF DeleteClipRow
<1>2. clip' \subseteq clip /\ DataTypes' /\ UNCHANGED protects
  BY DEF DeleteClipRow, IInv, DataTypes, envVars
<1>3. \/ j.cur # {} /\ Set(r, n)
      \/ Set(r, Thrown(r))
  BY DEF DeleteClipRow
<1>4. Thrown(r) \in Jobs /\ Good(Thrown(r), clip', protects)
  BY <1>1, <1>2, ThrownGood
<1>. HIDE DEF j
<1>5. ASSUME j.cur # {} PROVE n \in Jobs /\ Good(n, clip', protects)
  BY <1>1, <1>2, <1>5
     DEF Jobs, PCs, Good, Staged, Knows, Spares, KeptStill, AtOne, Before, All, Aged
<1>. HIDE DEF n
<1>. QED  BY <1>2, <1>3, <1>4, <1>5, RunMoves

LEMMA ClipsDoneStep ==
  ASSUME IInv, NEW r \in Runs, ClipsDone(r)
  PROVE  IInv'
<1>. DEFINE j == job[r]
            n == [j EXCEPT !.pc = "recs"]
<1>1. j \in Jobs /\ Good(j, clip, protects) /\ j.pc = "clip"
  BY JobAt DEF ClipsDone
<1>2. Set(r, n) /\ DataTypes' /\ UNCHANGED <<clip, protects>>
  BY DataStay DEF ClipsDone, Goto, IInv
<1>. HIDE DEF j
<1>3. n \in Jobs  BY <1>1 DEF Jobs, PCs
<1>4. Good(n, clip, protects)
  BY <1>1 DEF Jobs, Good, Staged, Knows, Spares, KeptStill, AtOne, Before, All, Aged
<1>. HIDE DEF n
<1>. QED  BY <1>2, <1>3, <1>4, RunStays

(* The recordings.                                                           *)
LEMMA ListRecordingsStep ==
  ASSUME IInv, NEW r \in Runs, ListRecordings(r)
  PROVE  IInv'
<1>. DEFINE j == job[r]
            n == [j EXCEPT !.pc = "rec", !.todo = rec \cap old]
<1>1. j \in Jobs /\ Good(j, clip, protects) /\ j.pc = "recs"
  BY JobAt DEF ListRecordings
<1>2. Set(r, n) /\ DataTypes' /\ UNCHANGED <<clip, protects>>
  BY DataStay DEF ListRecordings, Goto, IInv
<1>5. rec \subseteq Recordings /\ Recordings \subseteq Things  BY DEF IInv, DataTypes, Things
<1>. HIDE DEF j
<1>3. n \in Jobs  BY <1>1, <1>5 DEF Jobs, PCs
<1>4. Good(n, clip, protects)
  BY <1>1, <1>5 DEF Jobs, Good, Staged, Knows, Spares, KeptStill, AtOne, Before, All, Aged
<1>. HIDE DEF n
<1>. QED  BY <1>2, <1>3, <1>4, RunStays

LEMMA TakeRecordingStep ==
  ASSUME IInv, NEW r \in Runs, TakeRecording(r)
  PROVE  IInv'
<1>. DEFINE j == job[r]
<1>1. j \in Jobs /\ Good(j, clip, protects) /\ j.pc = "rec"
  BY JobAt DEF TakeRecording
<1>2. DataTypes' /\ UNCHANGED <<clip, protects>>
  BY DataStay DEF TakeRecording, IInv
<1>3. PICK x \in Oldest(j.todo) :
        \/ Set(r, [j EXCEPT !.todo = j.todo \ {x}])
        \/ /\ x \notin j.prot /\ ClipsOf(x) \cap j.prot = {}
           /\ Set(r, [j EXCEPT !.todo = j.todo \ {x}, !.pc = "sub", !.cur = {x},
                               !.sub = ClipsOf(x)])
  BY DEF TakeRecording
<1>. DEFINE t == j.todo \ {x}
            S == ClipsOf(x)
            m == [j EXCEPT !.todo = t]
            n == [j EXCEPT !.todo = t, !.pc = "sub", !.cur = {x}, !.sub = S]
<1>4. x \in Recordings /\ t \subseteq Recordings /\ t \subseteq Things
  BY <1>1, <1>3 DEF Oldest, Good, Staged, Things
<1>5. S \subseteq Clips /\ \A c \in clip : Source[c] = x => c \in S
  BY DEF ClipsOf, IInv, DataTypes
<1>6. \/ Set(r, m)
      \/ x \notin j.prot /\ S \cap j.prot = {} /\ Set(r, n)
  BY <1>3
<1>. HIDE DEF j, t, S
<1>7. m \in Jobs /\ Good(m, clip, protects)
  BY <1>1, <1>4
     DEF Jobs, PCs, Good, Staged, Knows, Spares, KeptStill, AtOne, Before, All, Aged
<1>8. ASSUME x \notin j.prot, S \cap j.prot = {} PROVE n \in Jobs /\ Good(n, clip, protects)
  <2>1. n \in Jobs  BY <1>1, <1>4, <1>5 DEF Jobs, PCs
  <2>2. \A c \in clip \cap n.prot : Source[c] \notin n.cur
    BY <1>1, <1>5, <1>8 DEF Jobs
  <2>3. Good(n, clip, protects)
    BY <1>1, <1>4, <1>8, <2>2
       DEF Jobs, Good, Staged, Knows, Spares, KeptStill, AtOne, Before, All, Aged
  <2>. QED  BY <2>1, <2>3
<1>. HIDE DEF m, n
<1>. QED  BY <1>2, <1>6, <1>7, <1>8, RunStays

LEMMA DeleteRecordingFilesStep ==
  ASSUME IInv, NEW r \in Runs, DeleteRecordingFiles(r)
  PROVE  IInv'
<1>. DEFINE j == job[r]
            n == [j EXCEPT !.pc = "recRow"]
<1>1. j \in Jobs /\ Good(j, clip, protects) /\ j.pc = "sub"
  BY JobAt DEF DeleteRecordingFiles
<1>2. file' \subseteq file /\ derived' \subseteq derived
  BY WithoutLess DEF DeleteRecordingFiles
<1>3. Set(r, n) /\ DataTypes' /\ UNCHANGED <<clip, protects>>
  BY <1>2 DEF DeleteRecordingFiles, Goto, IInv, DataTypes
<1>. HIDE DEF j
<1>4. n \in Jobs /\ Good(n, clip, protects)
  BY <1>1
     DEF Jobs, PCs, Good, Staged, Knows, Spares, KeptStill, AtOne, Before, All, Aged
<1>. HIDE DEF n
<1>. QED  BY <1>3, <1>4, RunStays

LEMMA DeleteRecordingRowStep ==
  ASSUME IInv, NEW r \in Runs, DeleteRecordingRow(r)
  PROVE  IInv'
<1>. DEFINE k == Thrown(r)
            b == job[r].guard /\ (k.some \/ job[r].cur \subseteq rec)
            n == [k EXCEPT !.some = b]
<1>1. job[r].pc = "recRow" /\ Set(r, n)  BY DEF DeleteRecordingRow
<1>2. clip' \subseteq clip /\ DataTypes' /\ UNCHANGED protects
  BY DEF DeleteRecordingRow, IInv, DataTypes, envVars
<1>3. k \in Jobs /\ Good(k, clip', protects)  BY <1>1, <1>2, ThrownGood
<1>4. b \in BOOLEAN  OBVIOUS
<1>. HIDE DEF k, b
<1>5. n \in Jobs /\ Good(n, clip', protects)
  BY <1>3, <1>4
     DEF Jobs, PCs, Good, Staged, Knows, Spares, KeptStill, AtOne, Before, All, Aged
<1>. HIDE DEF n
<1>. QED  BY <1>1, <1>2, <1>5, RunMoves

LEMMA DeleteFailsStep ==
  ASSUME IInv, NEW r \in Runs, DeleteFails(r)
  PROVE  IInv'
<1>1. Thrown(r) \in Jobs /\ Good(Thrown(r), clip, protects)
  BY ThrownGood DEF DeleteFails
<1>2. DataTypes' /\ UNCHANGED <<clip, protects>>
  BY DataStay DEF DeleteFails, IInv
<1>. QED  BY <1>1, <1>2, RunStays DEF DeleteFails

LEMMA RecordingsDoneStep ==
  ASSUME IInv, NEW r \in Runs, RecordingsDone(r)
  PROVE  IInv'
<1>. DEFINE j == job[r]
            m == [j EXCEPT !.pc = "events"]
            n == [j EXCEPT !.pc = "batch"]
<1>1. j \in Jobs /\ Good(j, clip, protects) /\ j.pc = "rec"
  BY JobAt DEF RecordingsDone
<1>2. DataTypes' /\ UNCHANGED <<clip, protects>>
  BY DataStay DEF RecordingsDone, IInv
<1>3. \/ ~j.guard /\ Set(r, m)
      \/ j.guard /\ j.turn < Iterations /\ Set(r, n)
      \/ End(r)
  BY DEF RecordingsDone, Goto
<1>. HIDE DEF j
<1>4. ASSUME ~j.guard PROVE m \in Jobs /\ Good(m, clip, protects)
  BY <1>1, <1>4
     DEF Jobs, PCs, Good, Staged, Knows, Spares, KeptStill, AtOne, Before, All, Aged
<1>5. ASSUME j.guard, j.turn < Iterations PROVE n \in Jobs /\ Good(n, clip, protects)
  BY <1>1, <1>5
     DEF Jobs, PCs, Good, Staged, Knows, Spares, KeptStill, AtOne, Before, All, Aged
<1>. HIDE DEF m, n
<1>. QED  BY <1>2, <1>3, <1>4, <1>5, RunStays, EndStep

-----------------------------------------------------------------------------
(* The rest of handleRetention, and the disk guard.                          *)
LEMMA DeleteEventsStep ==
  ASSUME IInv, NEW r \in Runs, DeleteEvents(r)
  PROVE  IInv'
<1>. DEFINE j == job[r]
            n == [j EXCEPT !.pc = "orphans"]
<1>1. j \in Jobs /\ Good(j, clip, protects) /\ j.pc = "events"
  BY JobAt DEF DeleteEvents
<1>2. Set(r, n) /\ DataTypes' /\ UNCHANGED <<clip, protects>>
  BY DEF DeleteEvents, Goto, IInv, DataTypes, envVars
<1>. HIDE DEF j
<1>3. n \in Jobs /\ Good(n, clip, protects)
  BY <1>1
     DEF Jobs, PCs, Good, Staged, Knows, Spares, KeptStill, AtOne, Before, All, Aged
<1>. HIDE DEF n
<1>. QED  BY <1>2, <1>3, RunStays

LEMMA WalkStep ==
  ASSUME IInv, NEW r \in Runs, Walk(r)
  PROVE  IInv'
<1>. DEFINE j == job[r]
            n == [j EXCEPT !.pc = "disk", !.todo = {}]
<1>1. j \in Jobs /\ Good(j, clip, protects) /\ j.pc = "walk"
  BY JobAt DEF Walk
<1>2. derived' \subseteq derived  BY WithoutLess DEF Walk
<1>3. Set(r, n) /\ DataTypes' /\ UNCHANGED <<clip, protects>>
  BY <1>2 DEF Walk, IInv, DataTypes, dataVars
<1>. HIDE DEF j
<1>4. n \in Jobs /\ Good(n, clip, protects)
  BY <1>1
     DEF Jobs, PCs, Good, Staged, Knows, Spares, KeptStill, AtOne, Before, All, Aged
<1>. HIDE DEF n
<1>. QED  BY <1>3, <1>4, RunStays

LEMMA CheckDiskStep ==
  ASSUME IInv, NEW r \in Runs, CheckDisk(r)
  PROVE  IInv'
<1>. DEFINE j == job[r]
            n == [j EXCEPT !.pc = "batch", !.guard = TRUE]
<1>1. j \in Jobs /\ Good(j, clip, protects) /\ j.pc = "disk"
  BY JobAt DEF CheckDisk
<1>2. DataTypes' /\ UNCHANGED <<clip, protects>>
  BY DataStay DEF CheckDisk, IInv
<1>3. Set(r, n) \/ End(r)  BY DEF CheckDisk
<1>. HIDE DEF j
<1>4. j.turn = 0 /\ 0 < Iterations
  BY <1>1, BoundsAssumption DEF Good, Staged, Aged
<1>5. n \in Jobs  BY <1>1 DEF Jobs, PCs
<1>6. Good(n, clip, protects)
  BY <1>1, <1>4
     DEF Jobs, Good, Staged, Knows, Spares, KeptStill, AtOne, Before, All, Aged
<1>. HIDE DEF n
<1>. QED  BY <1>2, <1>3, <1>5, <1>6, RunStays, EndStep

LEMMA TakeBatchStep ==
  ASSUME IInv, NEW r \in Runs, TakeBatch(r)
  PROVE  IInv'
<1>. DEFINE j == job[r]
            S == FirstOf(rec \ j.prot, Batch)
            t == j.turn + 1
            n == [j EXCEPT !.pc = "rec", !.todo = S, !.some = FALSE, !.turn = t]
<1>1. j \in Jobs /\ Good(j, clip, protects) /\ j.pc = "batch"
  BY JobAt DEF TakeBatch
<1>2. DataTypes' /\ UNCHANGED <<clip, protects>>
  BY DataStay DEF TakeBatch, IInv
<1>3. Set(r, n) \/ End(r)  BY DEF TakeBatch
<1>4. S \subseteq Recordings /\ Recordings \subseteq Things
  BY DEF FirstOf, IInv, DataTypes, Things
<1>7. t \in 0 .. Iterations /\ j.guard
  BY <1>1, BoundsAssumption DEF Jobs, Good, Staged
<1>. HIDE DEF j, S, t
<1>5. n \in Jobs
  BY <1>1, <1>4, <1>7 DEF Jobs, PCs
<1>6. Good(n, clip, protects)
  BY <1>1, <1>4, <1>7
     DEF Jobs, Good, Staged, Knows, Spares, KeptStill, AtOne, Before, All, Aged
<1>. HIDE DEF n
<1>. QED  BY <1>2, <1>3, <1>5, <1>6, RunStays, EndStep

LEMMA QueryFailsStep ==
  ASSUME IInv, NEW r \in Runs, QueryFails(r)
  PROVE  IInv'
  BY DataStay, EndStep DEF QueryFails, IInv

LEMMA ReadExpectedStep ==
  ASSUME IInv, NEW r \in Runs, ReadExpected(r)
  PROVE  IInv'
<1>. DEFINE j == job[r]
            n == [j EXCEPT !.pc = "walk", !.todo = rec]
<1>1. j \in Jobs /\ Good(j, clip, protects) /\ j.pc = "orphans"
  BY JobAt DEF ReadExpected
<1>2. Set(r, n) /\ DataTypes' /\ UNCHANGED <<clip, protects>>
  BY DataStay DEF ReadExpected, Goto, IInv
<1>5. rec \subseteq Recordings /\ Recordings \subseteq Things  BY DEF IInv, DataTypes, Things
<1>. HIDE DEF j
<1>3. n \in Jobs  BY <1>1, <1>5 DEF Jobs, PCs
<1>4. Good(n, clip, protects)
  BY <1>1, <1>5 DEF Jobs, Good, Staged, Knows, Spares, KeptStill, AtOne, Before, All, Aged
<1>. HIDE DEF n
<1>. QED  BY <1>2, <1>3, <1>4, RunStays

-----------------------------------------------------------------------------
(* Runs begin.                                                               *)
LEMMA BeginsGood ==
  ASSUME IInv
  PROVE  LET m == [Idle EXCEPT !.pc = "holds", !.kept = protects]
             n == [Idle EXCEPT !.pc = "holds", !.guard = TRUE, !.kept = protects]
             o == [Idle EXCEPT !.pc = "allFiles", !.todo = rec \cup clip]
         IN  /\ m \in Jobs /\ Good(m, clip, protects)
             /\ n \in Jobs /\ Good(n, clip, protects)
             /\ o \in Jobs /\ Good(o, clip, protects)
<1>. DEFINE i == Idle
            m == [i EXCEPT !.pc = "holds", !.kept = protects]
            n == [i EXCEPT !.pc = "holds", !.guard = TRUE, !.kept = protects]
            o == [i EXCEPT !.pc = "allFiles", !.todo = rec \cup clip]
<1>1. i \in Jobs /\ Good(i, clip, protects) /\ i.pc = "idle"  BY IdleGood
<1>2. i.turn = 0 /\ i.guard = FALSE  BY DEF Idle
<1>3. /\ protects \in [Ways -> SUBSET Things] /\ rec \cup clip \subseteq Things
  BY DEF IInv, DataTypes, Things
<1>. HIDE DEF i
<1>4. m \in Jobs /\ n \in Jobs /\ o \in Jobs
  BY <1>1, <1>2, <1>3 DEF Jobs, PCs
<1>5. Good(m, clip, protects) /\ Good(n, clip, protects)
  BY <1>1, <1>2, <1>3
     DEF Jobs, Good, Staged, Knows, Spares, KeptStill, AtOne, Before, All, Aged
<1>6. Good(o, clip, protects)
  BY <1>1, <1>2, <1>3
     DEF Jobs, Good, Staged, Knows, Spares, KeptStill, AtOne, Before, All, Aged
<1>. QED  BY <1>4, <1>5, <1>6 DEF i

LEMMA BeginsStep ==
  ASSUME IInv, NEW r \in Runs, Begin(r) \/ BeginGuard(r) \/ AllBegins(r)
  PROVE  IInv'
<1>. DEFINE m == [Idle EXCEPT !.pc = "holds", !.kept = protects]
            n == [Idle EXCEPT !.pc = "holds", !.guard = TRUE, !.kept = protects]
            o == [Idle EXCEPT !.pc = "allFiles", !.todo = rec \cup clip]
<1>1. Set(r, m) \/ Set(r, n) \/ Set(r, o)  BY DEF Begin, BeginGuard, AllBegins
<1>2. DataTypes' /\ UNCHANGED <<clip, protects>>
  BY DataStay DEF Begin, BeginGuard, AllBegins, IInv
<1>3. /\ m \in Jobs /\ Good(m, clip, protects)
      /\ n \in Jobs /\ Good(n, clip, protects)
      /\ o \in Jobs /\ Good(o, clip, protects)
  BY BeginsGood
<1>. HIDE DEF m, n, o
<1>. QED  BY <1>1, <1>2, <1>3, RunStays

(* deleteAllRecordings.                                                      *)
LEMMA AllFilesStep ==
  ASSUME IInv, NEW r \in Runs, AllFiles(r)
  PROVE  IInv'
<1>. DEFINE j == job[r]
            n == [j EXCEPT !.pc = "allRows", !.todo = {}]
<1>1. j \in Jobs /\ Good(j, clip, protects) /\ j.pc = "allFiles"
  BY JobAt DEF AllFiles
<1>2. file' \subseteq file /\ clipFile' \subseteq clipFile
  BY WithoutLess DEF AllFiles
<1>3. Set(r, n) /\ DataTypes' /\ UNCHANGED <<clip, protects>>
  BY <1>2 DEF AllFiles, IInv, DataTypes, envVars
<1>. HIDE DEF j
<1>4. n \in Jobs /\ Good(n, clip, protects)
  BY <1>1
     DEF Jobs, PCs, Good, Staged, Knows, Spares, KeptStill, AtOne, Before, All, Aged
<1>. HIDE DEF n
<1>. QED  BY <1>3, <1>4, RunStays

LEMMA AllRowsStep ==
  ASSUME IInv, NEW r \in Runs, AllRows(r)
  PROVE  IInv'
<1>1. clip' \subseteq clip /\ DataTypes' /\ UNCHANGED protects
  BY DEF AllRows, IInv, DataTypes, envVars
<1>. QED  BY <1>1, EndStep DEF AllRows

-----------------------------------------------------------------------------
(* Around the runs.  What is kept shrinks with what protects.                *)
LEMMA SetProtectionStep ==
  ASSUME IInv, NEW w \in Ways, NEW S \in Held, SetProtection(w, S)
  PROVE  IInv'
<1>1. S \in SUBSET Things /\ protects \in [Ways -> SUBSET Things]
  BY ThingsAssumption DEF IInv, DataTypes
<1>2. protects' = [protects EXCEPT ![w] = S] /\ UNCHANGED <<dataVars, envVars>>
  BY DEF SetProtection
<1>3. protects' \in [Ways -> SUBSET Things]  BY <1>1, <1>2
<1>4. DataTypes' /\ UNCHANGED clip
  BY <1>2, <1>3 DEF IInv, DataTypes, dataVars, envVars
<1>5. ASSUME NEW r \in Runs
      PROVE  job'[r] \in Jobs /\ Good(job'[r], clip, protects')
  <2>. DEFINE j == job[r]
              k == [j.kept EXCEPT ![w] = @ \cap S]
              n == [j EXCEPT !.kept = k]
  <2>1. job'[r] = n  BY DEF SetProtection
  <2>2. j \in Jobs /\ Good(j, clip, protects)  BY JobAt
  <2>3. j.kept \in [Ways -> SUBSET Things]  BY <2>2 DEF Jobs
  <2>4. \A v \in Ways : k[v] = IF v = w THEN j.kept[v] \cap S ELSE j.kept[v]
    BY <2>3
  <2>5. k \in [Ways -> SUBSET Things]  BY <2>3, <2>4
  <2>6. \A v \in Ways : k[v] \subseteq j.kept[v]  BY <2>4
  <2>7. k["hold"] \subseteq j.kept["hold"] /\ k["evidence"] \subseteq j.kept["evidence"]
    BY <2>6 DEF Ways
  <2>8. \A v \in Ways : k[v] \subseteq protects'[v]
    BY <1>1, <1>2, <2>2, <2>4 DEF Good, KeptStill
  <2>. HIDE DEF j, k
  <2>9. n \in Jobs  BY <2>2, <2>5 DEF Jobs
  <2>10. /\ n.pc = j.pc /\ n.guard = j.guard /\ n.prot = j.prot /\ n.todo = j.todo
         /\ n.cur = j.cur /\ n.sub = j.sub /\ n.one = j.one /\ n.turn = j.turn
         /\ n.kept = k
    BY <2>2 DEF Jobs
  <2>. HIDE DEF n
  <2>11. Staged(n) /\ Spares(n, clip)  BY <2>2, <2>10 DEF Good, Staged, Spares
  <2>12. Knows(n)  BY <2>2, <2>7, <2>10 DEF Good, Knows
  <2>13. KeptStill(n, protects')  BY <2>8, <2>10 DEF KeptStill
  <2>. QED  BY <2>1, <2>9, <2>11, <2>12, <2>13 DEF Good
<1>6. job' \in [Runs -> Jobs]
  <2>1. job' = [r \in Runs |-> job'[r]]  BY DEF SetProtection
  <2>. QED  BY <1>5, <2>1
<1>. QED  BY <1>4, <1>5, <1>6 DEF IInv

LEMMA OthersStep ==
  ASSUME IInv,
         \/ \E x \in Recordings : Register(x) \/ Derive(x)
         \/ \E t \in Things : TimePasses(t)
         \/ Switch
  PROVE  IInv'
<1>1. DataTypes' /\ UNCHANGED <<clip, protects, job>>
  BY DEF IInv, DataTypes, Register, Derive, TimePasses, Switch, dataVars
<1>. QED  BY <1>1 DEF IInv

LEMMA CrashStep ==
  ASSUME IInv, Crash
  PROVE  IInv'
<1>1. DataTypes' /\ UNCHANGED <<clip, protects>>
  BY DEF Crash, IInv, DataTypes, dataVars
<1>2. job' \in [Runs -> Jobs] /\ \A r \in Runs : Good(job'[r], clip', protects')
  BY <1>1, IdleGood DEF Crash
<1>. QED  BY <1>1, <1>2 DEF IInv

(* Clips that are being exported: no list, no protection has them, and none  *)
(* comes to have them before they have their row.                            *)
Named(j) == j.prot \cup j.todo \cup j.sub \cup j.one
NewInv ==
  /\ exporting \cap clip = {}
  /\ \A w \in Ways : exporting \cap protects[w] = {}
  /\ \A r \in Runs : exporting \cap Named(job[r]) = {}

LEMMA ExportStep ==
  ASSUME IInv, NewInv, NEW c \in Clips, ExportBegins(c) \/ ExportListed(c) \/ ExportFails(c)
  PROVE  IInv'
<1>1. CASE ExportBegins(c) \/ ExportFails(c)
  <2>1. DataTypes' /\ UNCHANGED <<clip, protects, job>>
    BY <1>1 DEF ExportBegins, ExportFails, IInv, DataTypes, envVars
  <2>. QED  BY <2>1 DEF IInv
<1>2. CASE ExportListed(c)
  <2>1. DataTypes' /\ UNCHANGED protects /\ clip' = clip \cup {c} /\ c \in exporting
    BY <1>2 DEF ExportListed, IInv, DataTypes, envVars
  <2>2. ASSUME NEW r \in Runs
        PROVE  job'[r] \in Jobs /\ Good(job'[r], clip', protects)
    <3>. DEFINE j == job[r]
                l == j.late \cup {c}
                n == [j EXCEPT !.late = l]
    <3>1. job'[r] = j \/ job'[r] = n  BY <1>2 DEF ExportListed
    <3>2. j \in Jobs /\ Good(j, clip, protects) /\ c \notin j.prot
      BY JobAt, <2>1 DEF NewInv, Named
    <3>3. l \in SUBSET Clips  BY <3>2 DEF Jobs
    <3>4. Good(j, clip', protects)  BY <2>1, <3>2 DEF Good, Spares
    <3>. HIDE DEF j, l
    <3>5. n \in Jobs  BY <3>2, <3>3 DEF Jobs
    <3>6. Good(n, clip', protects)
      BY <3>2, <3>4 DEF Jobs, Good, Staged, Knows, Spares, KeptStill
    <3>. QED  BY <3>1, <3>2, <3>4, <3>5, <3>6
  <2>3. job' \in [Runs -> Jobs]
    <3>1. job' = [r \in Runs |-> job'[r]]  BY <1>2 DEF ExportListed
    <3>. QED  BY <2>2, <3>1
  <2>. QED  BY <2>1, <2>2, <2>3 DEF IInv
<1>. QED  BY <1>1, <1>2

LEMMA InitIInv == Init => IInv
<1>. SUFFICES ASSUME Init PROVE IInv  OBVIOUS
<1>1. DataTypes  BY DEF Init, DataTypes
<1>2. job \in [Runs -> Jobs] /\ \A r \in Runs : Good(job[r], clip, protects)
  BY IdleGood DEF Init
<1>. QED  BY <1>1, <1>2 DEF IInv

LEMMA NextIInv ==
  ASSUME IInv, NewInv, [Next]_vars
  PROVE  IInv'
<1>1. ASSUME NEW r \in Runs, RunStep(r) PROVE IInv'
  BY <1>1, ReadHoldsStep, ReadItemsStep, ReadSourcesStep, ListClipsStep,
     DeleteClipFileStep, DeleteClipRowStep, ClipsDoneStep, ListRecordingsStep,
     TakeRecordingStep, DeleteRecordingFilesStep, DeleteRecordingRowStep,
     RecordingsDoneStep, DeleteEventsStep, ReadExpectedStep, WalkStep, CheckDiskStep,
     TakeBatchStep, AllFilesStep, AllRowsStep
     DEF RunStep
<1>2. ASSUME NEW r \in Runs,
             Begin(r) \/ BeginGuard(r) \/ AllBegins(r) \/ DeleteFails(r) \/ QueryFails(r)
      PROVE  IInv'
  BY <1>2, BeginsStep, DeleteFailsStep, QueryFailsStep
<1>3. CASE \E w \in Ways, S \in Held : SetProtection(w, S)
  BY <1>3, SetProtectionStep
<1>4. CASE \/ \E x \in Recordings : Register(x) \/ Derive(x)
           \/ \E t \in Things : TimePasses(t)
           \/ Switch
  BY <1>4, OthersStep
<1>5. CASE Crash  BY <1>5, CrashStep
<1>6. CASE UNCHANGED vars
  <2>1. DataTypes' /\ UNCHANGED <<clip, protects>> /\ UNCHANGED job
    BY <1>6, DataStay DEF vars, IInv
  <2>. QED  BY <2>1 DEF IInv
<1>7. CASE \E c \in Clips : ExportBegins(c) \/ ExportListed(c) \/ ExportFails(c)
  BY <1>7, ExportStep
<1>. QED  BY <1>1, <1>2, <1>3, <1>4, <1>5, <1>6, <1>7 DEF Next, Works

(* A run that goes on names only what it named, what is listed and what is   *)
(* protected.                                                                *)
Nameable(r) == Named(job[r]) \cup clip \cup Recordings \cup UNION {protects[w] : w \in Ways}

LEMMA NamesGoOn ==
  ASSUME IInv, NEW r \in Runs,
         RunStep(r) \/ DeleteFails(r) \/ QueryFails(r)
           \/ Begin(r) \/ BeginGuard(r) \/ AllBegins(r)
  PROVE  \E n : Set(r, n) /\ Named(n) \subseteq Nameable(r)
<1>. DEFINE j == job[r]
<1>1. j \in Jobs /\ DataTypes  BY JobAt DEF IInv
<1>2. CASE End(r)
  <2>1. Named(Idle) = {}  BY DEF Named, Idle
  <2>. QED  BY <1>2, <2>1 DEF End
<1>3. CASE \E q : Goto(r, q)
  <2>1. PICK q : Set(r, [j EXCEPT !.pc = q])  BY <1>3 DEF Goto
  <2>2. Named([j EXCEPT !.pc = q]) = Named(j)  BY <1>1 DEF Jobs, Named
  <2>. QED  BY <2>1, <2>2 DEF Nameable
<1>4. CASE ReadHolds(r) \/ ReadItems(r) \/ ReadSources(r)
  <2>. DEFINE m(q, P) == [j EXCEPT !.pc = q, !.prot = P]
              A == j.prot \cup Recordings \cup UNION {protects[w] : w \in Ways}
  <2>1. ASSUME NEW P \in SUBSET A, NEW q
        PROVE  Named(m(q, P)) \subseteq Nameable(r)
    BY <1>1, <2>1 DEF Jobs, Named, Nameable
  <2>2. protects["hold"] \subseteq A /\ j.prot \cup protects["evidence"] \subseteq A
    BY DEF Ways
  <2>3. Closure(j.prot) \subseteq A
    <3>1. \A c \in clip : Source[c] \in Recordings  BY <1>1, ThingsAssumption DEF DataTypes
    <3>. QED  BY <3>1 DEF Closure
  <2>4. \E q : \/ Set(r, m(q, protects["hold"]))
               \/ Set(r, m(q, j.prot \cup protects["evidence"]))
               \/ Set(r, m(q, Closure(j.prot)))
    BY <1>4 DEF ReadHolds, ReadItems, ReadSources
  <2>. HIDE DEF m, A
  <2>. QED  BY <2>1, <2>2, <2>3, <2>4
<1>5. CASE \/ ListClips(r) \/ ListRecordings(r) \/ ReadExpected(r) \/ Walk(r) \/ AllFiles(r)
  <2>. DEFINE m(q, T) == [j EXCEPT !.pc = q, !.todo = T]
  <2>1. ASSUME NEW T \in SUBSET (clip \cup Recordings), NEW q
        PROVE  Named(m(q, T)) \subseteq Nameable(r)
    BY <1>1, <2>1 DEF Jobs, Named, Nameable
  <2>2. \E q : \E T \in SUBSET (clip \cup Recordings) : Set(r, m(q, T))
    BY <1>1, <1>5 DEF ListClips, ListRecordings, ReadExpected, Walk, AllFiles, DataTypes
  <2>. HIDE DEF m
  <2>. QED  BY <2>1, <2>2
<1>6. CASE TakeBatch(r)
  <2>. DEFINE m(T, u) == [j EXCEPT !.pc = "rec", !.todo = T, !.some = FALSE, !.turn = u]
              S == FirstOf(rec \ j.prot, Batch)
  <2>1. Named(m(S, j.turn + 1)) \subseteq Nameable(r)
    <3>1. S \subseteq Recordings  BY <1>1 DEF FirstOf, DataTypes
    <3>. HIDE DEF S
    <3>. QED  BY <1>1, <3>1 DEF Jobs, Named, Nameable
  <2>2. End(r) \/ Set(r, m(S, j.turn + 1))  BY <1>6 DEF TakeBatch
  <2>. HIDE DEF m
  <2>. QED  BY <1>2, <2>1, <2>2
<1>7. ASSUME NEW c \in Clips, DeleteClipFile(r, c)
      PROVE  \E n : Set(r, n) /\ Named(n) \subseteq Nameable(r)
  <2>. DEFINE m == [j EXCEPT !.pc = "clipRow", !.todo = @ \ {c}, !.one = {c}]
              n == [j EXCEPT !.pc = "clipRow", !.sub = @ \ {c}, !.one = {c}]
  <2>1. \/ c \in j.todo /\ Set(r, m)
        \/ c \in j.sub /\ Set(r, n)
    BY <1>7 DEF DeleteClipFile
  <2>2. c \in j.todo => Named(m) \subseteq Nameable(r)  BY <1>1 DEF Jobs, Named, Nameable
  <2>3. c \in j.sub => Named(n) \subseteq Nameable(r)  BY <1>1 DEF Jobs, Named, Nameable
  <2>. HIDE DEF m, n
  <2>. QED  BY <2>1, <2>2, <2>3
<1>8. CASE DeleteClipRow(r) \/ DeleteRecordingRow(r) \/ DeleteFails(r)
  <2>. DEFINE k == Thrown(r)
              b == job[r].guard /\ (k.some \/ job[r].cur \subseteq rec)
              m == [k EXCEPT !.some = b]
              n == [j EXCEPT !.pc = "sub", !.one = {}]
  <2>1. Set(r, k) \/ Set(r, m) \/ Set(r, n)
    BY <1>8 DEF DeleteClipRow, DeleteRecordingRow, DeleteFails
  <2>2. k \in Jobs  BY <1>8, ThrownGood DEF DeleteClipRow, DeleteRecordingRow, DeleteFails
  <2>3. Named(k) \subseteq Named(j)  BY <1>1 DEF Thrown, Jobs, Named
  <2>. HIDE DEF k, b
  <2>4. Named(m) = Named(k)  BY <2>2 DEF Jobs, Named
  <2>5. Named(n) \subseteq Named(j)  BY <1>1 DEF Jobs, Named
  <2>. HIDE DEF m, n
  <2>. QED  BY <2>1, <2>3, <2>4, <2>5 DEF Nameable
<1>9. CASE TakeRecording(r)
  <2>1. PICK x \in Oldest(j.todo) :
          \/ Set(r, [j EXCEPT !.todo = j.todo \ {x}])
          \/ Set(r, [j EXCEPT !.todo = j.todo \ {x}, !.pc = "sub", !.cur = {x},
                              !.sub = ClipsOf(x)])
    BY <1>9 DEF TakeRecording
  <2>. DEFINE m == [j EXCEPT !.todo = j.todo \ {x}]
              n == [j EXCEPT !.todo = j.todo \ {x}, !.pc = "sub", !.cur = {x},
                             !.sub = ClipsOf(x)]
  <2>2. Set(r, m) \/ Set(r, n)  BY <2>1
  <2>3. ClipsOf(x) \subseteq clip  BY DEF ClipsOf
  <2>4. Named(m) \subseteq Nameable(r) /\ Named(n) \subseteq Nameable(r)
    BY <1>1, <2>3 DEF Jobs, Named, Nameable
  <2>. HIDE DEF m, n
  <2>. QED  BY <2>2, <2>4
<1>10. CASE CheckDisk(r)
  <2>. DEFINE m == [j EXCEPT !.pc = "batch", !.guard = TRUE]
  <2>1. End(r) \/ Set(r, m)  BY <1>10 DEF CheckDisk
  <2>2. Named(m) \subseteq Nameable(r)  BY <1>1 DEF Jobs, Named, Nameable
  <2>. HIDE DEF m
  <2>. QED  BY <1>2, <2>1, <2>2
<1>11. CASE Begin(r) \/ BeginGuard(r) \/ AllBegins(r)
  <2>. DEFINE i == Idle
              k == [i EXCEPT !.pc = "holds", !.kept = protects]
              l == [i EXCEPT !.pc = "holds", !.guard = TRUE, !.kept = protects]
              m == [i EXCEPT !.pc = "allFiles", !.todo = rec \cup clip]
  <2>1. Set(r, k) \/ Set(r, l) \/ Set(r, m)  BY <1>11 DEF Begin, BeginGuard, AllBegins
  <2>2. i \in Jobs /\ Named(i) = {} /\ rec \subseteq Recordings
    BY <1>1, IdleGood DEF Named, Idle, DataTypes
  <2>. HIDE DEF i
  <2>3. Named(k) = {} /\ Named(l) = {} /\ Named(m) \subseteq rec \cup clip
    BY <2>2 DEF Jobs, Named
  <2>. HIDE DEF k, l, m
  <2>. QED  BY <2>1, <2>2, <2>3 DEF Nameable
<1>12. ASSUME \/ ClipsDone(r) \/ DeleteRecordingFiles(r) \/ RecordingsDone(r)
              \/ DeleteEvents(r) \/ AllRows(r) \/ QueryFails(r)
       PROVE  End(r) \/ \E q : Goto(r, q)
  BY <1>12 DEF ClipsDone, DeleteRecordingFiles, RecordingsDone, DeleteEvents, AllRows, QueryFails
<1>. QED
  BY <1>2, <1>3, <1>4, <1>5, <1>6, <1>7, <1>8, <1>9, <1>10, <1>11, <1>12 DEF RunStep

LEMMA NextNew ==
  ASSUME IInv, NewInv, [Next]_vars
  PROVE  NewInv'
<1>1. exporting \cap (Recordings \cup Events) = {} /\ rec \subseteq Recordings
      /\ event \subseteq Events
  BY ThingsAssumption DEF IInv, DataTypes
<1>2. ASSUME NEW r \in Runs,
             RunStep(r) \/ DeleteFails(r) \/ QueryFails(r)
               \/ Begin(r) \/ BeginGuard(r) \/ AllBegins(r)
      PROVE  NewInv'
  <2>1. PICK n : Set(r, n) /\ Named(n) \subseteq Nameable(r)  BY <1>2, NamesGoOn
  <2>2. exporting' = exporting /\ clip' \subseteq clip /\ UNCHANGED protects
    BY <1>2 DEF RunStep, ReadHolds, ReadItems, ReadSources, ListClips, DeleteClipFile,
         DeleteClipRow, ClipsDone, ListRecordings, TakeRecording, DeleteRecordingFiles,
         DeleteRecordingRow, RecordingsDone, DeleteEvents, ReadExpected, Walk, CheckDisk,
         TakeBatch, AllFiles, AllRows, DeleteFails, QueryFails, Begin, BeginGuard,
         AllBegins, dataVars
  <2>3. exporting \cap Nameable(r) = {}  BY <1>1 DEF NewInv, Nameable
  <2>4. job'[r] = n /\ \A q \in Runs \ {r} : job'[q] = job[q]  BY <2>1 DEF Set, IInv
  <2>. QED  BY <2>1, <2>2, <2>3, <2>4 DEF NewInv
<1>3. ASSUME NEW w \in Ways, NEW S, SetProtection(w, S)
      PROVE  NewInv'
  <2>1. /\ UNCHANGED <<exporting, clip>> /\ S \subseteq rec \cup clip \cup event \cup protects[w]
        /\ protects' = [protects EXCEPT ![w] = S]
    BY <1>3 DEF SetProtection, dataVars
  <2>2. \A r \in Runs : Named(job'[r]) = Named(job[r])
    <3> SUFFICES ASSUME NEW r \in Runs PROVE Named(job'[r]) = Named(job[r])
      OBVIOUS
    <3>. DEFINE k == [job[r].kept EXCEPT ![w] = @ \cap S]
    <3>1. job'[r] = [job[r] EXCEPT !.kept = k]  BY <1>3 DEF SetProtection
    <3>2. job[r] \in Jobs  BY JobAt
    <3>. HIDE DEF k
    <3>. QED  BY <3>1, <3>2 DEF Jobs, Named
  <2>3. protects \in [Ways -> SUBSET Things]  BY DEF IInv, DataTypes
  <2>. QED  BY <1>1, <2>1, <2>2, <2>3 DEF NewInv
<1>4. CASE \/ \E x \in Recordings : Register(x) \/ Derive(x)
           \/ \E t \in Things : TimePasses(t)
           \/ Switch
           \/ UNCHANGED vars
  BY <1>4 DEF Register, Derive, TimePasses, Switch, vars, dataVars, NewInv
<1>5. ASSUME NEW c \in Clips, ExportBegins(c) \/ ExportListed(c) \/ ExportFails(c)
      PROVE  NewInv'
  <2>1. CASE ExportBegins(c)
    BY <2>1 DEF ExportBegins, New, NewInv, Named
  <2>2. CASE ExportFails(c)
    BY <2>2 DEF ExportFails, NewInv
  <2>3. CASE ExportListed(c)
    <3>1. \A r \in Runs : Named(job'[r]) = Named(job[r])
      BY <2>3, JobAt DEF ExportListed, Jobs, Named
    <3>. QED  BY <2>3, <3>1 DEF ExportListed, NewInv
  <2>. QED  BY <1>5, <2>1, <2>2, <2>3
<1>6. CASE Crash
  BY <1>6 DEF Crash, NewInv
<1>. QED  BY <1>2, <1>3, <1>4, <1>5, <1>6 DEF Next, Works

LEMMA InitNew == Init => NewInv
  BY DEF Init, NewInv

(* Rows, files and what the runs hold stay what they are meant to be; the    *)
(* disk guard takes no more batches than it may.                             *)
THEOREM TypeCorrect == Spec => []TypeOK
<1>1. IInv /\ NewInv /\ [Next]_vars => IInv' /\ NewInv'  BY NextIInv, NextNew
<1>2. IInv => TypeOK  BY TypesSplit DEF IInv
<1>. QED  BY InitIInv, InitNew, <1>1, <1>2, PTL DEF Spec

-----------------------------------------------------------------------------
(* What a run that deletes must spare it has read, or it is the source of a  *)
(* clip that it has read.                                                    *)
Deleting == {"clip", "clipRow", "sub", "recRow", "events"}

LEMMA ShieldedRead ==
  ASSUME IInv, NEW r \in Runs, job[r].pc \in Deleting, NEW y \in Shielded(r)
  PROVE  y \in job[r].prot \/ \E c \in job[r].prot \cap clip : y = Source[c]
<1>1. Good(job[r], clip, protects)  BY JobAt
<1>2. \A w \in Ways : job[r].kept[w] \subseteq job[r].prot
  BY <1>1 DEF Good, Knows, Deleting, All, Ways
<1>3. UNION {job[r].kept[w] : w \in Ways} \subseteq job[r].prot  BY <1>2
<1>. QED  BY <1>3 DEF Shielded, Closure

(* A step of run r, at which it deletes.                                     *)
LEMMA DeletionSpares ==
  ASSUME IInv, NEW r \in Runs, job[r].pc \in Deleting,
         RunStep(r) \/ DeleteFails(r) \/ QueryFails(r)
  PROVE  Shielded(r) \cap Gone = {}
<1>. DEFINE j == job[r]
<1>1. j \in Jobs /\ Good(j, clip, protects)  BY JobAt
<1>. SUFFICES ASSUME NEW y \in Gone
              PROVE  y \notin j.prot /\ \A c \in j.prot \cap clip : y # Source[c]
  BY ShieldedRead
<1>2. DataTypes  BY DEF IInv
<1>3. \A c \in Clips : Source[c] \in Recordings  BY ThingsAssumption
<1>4. ASSUME NEW c \in Clips, DeleteClipFile(r, c)
      PROVE  y \notin j.prot /\ \A d \in j.prot \cap clip : y # Source[d]
  <2>1. clipFile \ clipFile' \subseteq {c}  BY <1>4, WithoutLess DEF DeleteClipFile
  <2>2. y = c  BY <1>4, <2>1 DEF Gone, DeleteClipFile
  <2>3. c \notin j.prot  BY <1>1, <1>4 DEF DeleteClipFile, Good, Spares
  <2>. QED  BY <1>2, <1>3, <2>2, <2>3, ThingsAssumption DEF DataTypes
<1>5. ASSUME DeleteClipRow(r)
      PROVE  y \notin j.prot /\ \A d \in j.prot \cap clip : y # Source[d]
  <2>1. y \in j.one /\ y \in Clips  BY <1>2, <1>5 DEF Gone, DeleteClipRow, DataTypes
  <2>2. y \notin j.prot  BY <1>1, <2>1 DEF Good, Spares
  <2>. QED  BY <1>2, <1>3, <2>1, <2>2, ThingsAssumption DEF DataTypes
<1>6. ASSUME DeleteRecordingFiles(r)
      PROVE  y \notin j.prot /\ \A d \in j.prot \cap clip : y # Source[d]
  <2>1. file \ file' \subseteq j.cur  BY <1>6, WithoutLess DEF DeleteRecordingFiles
  <2>2. y \in j.cur  BY <1>6, <2>1 DEF Gone, DeleteRecordingFiles
  <2>. QED  BY <1>1, <2>2 DEF Good, Spares
<1>7. ASSUME DeleteRecordingRow(r)
      PROVE  y \notin j.prot /\ \A d \in j.prot \cap clip : y # Source[d]
  <2>1. \/ y \in j.cur
        \/ y \in clip /\ Source[y] \in j.cur
    BY <1>7 DEF Gone, DeleteRecordingRow
  <2>2. CASE y \in j.cur  BY <1>1, <2>2 DEF Good, Spares
  <2>3. CASE y \in clip /\ Source[y] \in j.cur
    <3>1. y \notin j.prot  BY <1>1, <2>3 DEF Good, Spares
    <3>. QED  BY <1>2, <1>3, <2>3, <3>1, ThingsAssumption DEF DataTypes
  <2>. QED  BY <2>1, <2>2, <2>3
<1>8. ASSUME DeleteEvents(r)
      PROVE  y \notin j.prot /\ \A d \in j.prot \cap clip : y # Source[d]
  <2>1. y \in event /\ y \notin j.prot  BY <1>8 DEF Gone, DeleteEvents
  <2>. QED  BY <1>2, <1>3, <2>1, ThingsAssumption DEF DataTypes
<1>9. ASSUME UNCHANGED dataVars PROVE FALSE
  BY <1>9 DEF Gone, dataVars
<1>10. \/ \E c \in Clips : DeleteClipFile(r, c)
       \/ DeleteClipRow(r) \/ DeleteRecordingFiles(r) \/ DeleteRecordingRow(r)
       \/ DeleteEvents(r) \/ UNCHANGED dataVars
  BY DEF RunStep, DeleteFails, QueryFails, Deleting, ReadHolds, ReadItems, ReadSources,
         ListClips, ClipsDone, ListRecordings, TakeRecording, RecordingsDone,
         ReadExpected, Walk, CheckDisk, TakeBatch, AllFiles, AllRows
<1>. QED  BY <1>4, <1>5, <1>6, <1>7, <1>8, <1>9, <1>10

LEMMA OthersRunOn ==
  ASSUME IInv, NEW r \in Runs, NEW q \in Runs, q # r,
         RunStep(q) \/ DeleteFails(q) \/ QueryFails(q)
  PROVE  job'[r] = job[r]
<1>1. \E n : Set(q, n)
  BY DEF RunStep, DeleteFails, QueryFails, ReadHolds, ReadItems, ReadSources, ListClips,
         DeleteClipFile, DeleteClipRow, ClipsDone, ListRecordings, TakeRecording,
         DeleteRecordingFiles, DeleteRecordingRow, RecordingsDone, DeleteEvents,
         ReadExpected, Walk, CheckDisk, TakeBatch, AllFiles, AllRows, Goto, End
<1>. QED  BY <1>1 DEF Set, IInv

LEMMA NextSpares ==
  ASSUME IInv, [Next]_vars
  PROVE  [RunsSpareShielded]_vars
<1>. SUFFICES ASSUME Next, NEW r \in Runs, job[r].pc \in Deleting, job'[r] # job[r]
              PROVE  Shielded(r) \cap Gone = {}
  BY DEF RunsSpareShielded, Deleting
<1>1. ASSUME NEW q \in Runs, RunStep(q) \/ DeleteFails(q) \/ QueryFails(q)
      PROVE  Shielded(r) \cap Gone = {}
  <2>1. q = r  BY <1>1, OthersRunOn
  <2>. QED  BY <1>1, <2>1, DeletionSpares
<1>2. ASSUME UNCHANGED dataVars PROVE Gone = {}
  BY <1>2 DEF dataVars, Gone
<1>3. ASSUME NEW q \in Runs, Begin(q) \/ BeginGuard(q) \/ AllBegins(q)
      PROVE  UNCHANGED dataVars
  BY <1>3 DEF Begin, BeginGuard, AllBegins
<1>4. ASSUME NEW w \in Ways, NEW S \in Held, SetProtection(w, S)
      PROVE  UNCHANGED dataVars
  BY <1>4 DEF SetProtection
<1>5. ASSUME NEW x, Register(x) PROVE FALSE
  BY <1>5 DEF Register
<1>6. ASSUME (\E x \in Recordings : Derive(x)) \/ (\E t \in Things : TimePasses(t)) \/ Switch
      PROVE  UNCHANGED dataVars
  BY <1>6 DEF Derive, TimePasses, Switch
<1>7. ASSUME \/ \E c \in Clips : ExportBegins(c) \/ ExportListed(c)
             \/ Crash
      PROVE  Gone = {}
  BY <1>7 DEF ExportBegins, ExportListed, Crash, Gone
<1>8. ASSUME NEW c, ExportFails(c) PROVE FALSE
  BY <1>8 DEF ExportFails
<1>. QED  BY <1>1, <1>2, <1>3, <1>4, <1>5, <1>6, <1>7, <1>8 DEF Next, Works

(* However many runs there are side by side, none touches what was protected *)
(* before it began and has stayed so.                                        *)
THEOREM HoldsAlwaysRespected == Spec => HoldRespected
<1>1. IInv /\ NewInv /\ [Next]_vars => IInv' /\ NewInv'  BY NextIInv, NextNew
<1>2. IInv /\ [Next]_vars => [RunsSpareShielded]_vars  BY NextSpares
<1>. QED  BY InitIInv, InitNew, <1>1, <1>2, PTL DEF Spec, HoldRespected

-----------------------------------------------------------------------------
(* Clips.  The ones on disk that no exception of ClipFilesListed names; what  *)
(* a run has done with them: the clip at hand is gone, those of the recording *)
(* at hand are gone, still on its list or came too late for it, and so with   *)
(* all of them for deleteAllRecordings.                                       *)
Due == clipFile \ (exporting \cup strays)

Cleared(j, F) ==
  /\ j.pc = "clipRow" => j.one \cap F = {}
  /\ \A c \in F : Source[c] \in j.cur => c \in j.sub \cup j.late
  /\ j.pc = "recRow" => j.sub = {}
  /\ j.pc = "allFiles" => F \subseteq j.todo \cup j.late
  /\ j.pc = "allRows" => F \subseteq j.late

ListedInv ==
  /\ Due \subseteq clip
  /\ \A r \in Runs : Cleared(job[r], Due)

LEMMA ClearedFewer ==
  ASSUME NEW j, NEW F, NEW G \in SUBSET F, Cleared(j, F)
  PROVE  Cleared(j, G)
  BY DEF Cleared

(* A run that has neither a clip nor a recording at hand, and is not one of  *)
(* deleteAllRecordings, has nothing to answer for.                           *)
LEMMA ClearedElsewhere ==
  ASSUME NEW j, NEW F, j.cur = {}, j.pc \notin {"clipRow", "recRow"} \cup All
  PROVE  Cleared(j, F)
  BY DEF Cleared, All

LEMMA IdleCleared ==
  ASSUME NEW F  PROVE Cleared(Idle, F)
  BY DEF Idle, Cleared

(* Run r goes on as n, and no more clips are due.                            *)
LEMMA RunClears ==
  ASSUME IInv, ListedInv, NEW r \in Runs, NEW n, Set(r, n), Cleared(n, Due'),
         Due' \subseteq Due, Due' \subseteq clip'
  PROVE  ListedInv'
<1>1. job'[r] = n /\ \A q \in Runs \ {r} : job'[q] = job[q]  BY DEF Set, IInv
<1>2. \A q \in Runs \ {r} : Cleared(job[q], Due')  BY ClearedFewer DEF ListedInv
<1>. QED  BY <1>1, <1>2 DEF ListedInv

LEMMA SameDue ==
  ASSUME UNCHANGED <<clipFile, exporting, strays>>
  PROVE  Due' = Due
  BY DEF Due

(* The steps that touch clips, on disk or in the list.                       *)
LEMMA ClipFileClears ==
  ASSUME IInv, ListedInv, NEW r \in Runs, NEW c \in Clips, DeleteClipFile(r, c)
  PROVE  ListedInv'
<1>. DEFINE j == job[r]
            m == [j EXCEPT !.pc = "clipRow", !.todo = @ \ {c}, !.one = {c}]
            n == [j EXCEPT !.pc = "clipRow", !.sub = @ \ {c}, !.one = {c}]
<1>1. j \in Jobs /\ Good(j, clip, protects) /\ Cleared(j, Due)
  BY JobAt DEF ListedInv
<1>2. Due' = Due \ {c}
  <2>1. /\ clipFile' \subseteq clipFile /\ clipFile \ clipFile' \subseteq {c}
        /\ strays' = strays \cup (clipFile' \cap {c}) /\ exporting' = exporting
    BY WithoutLess DEF DeleteClipFile
  <2>. QED  BY <2>1 DEF Due
<1>3. Due' \subseteq Due /\ Due' \subseteq clip'
  BY <1>2 DEF ListedInv, DeleteClipFile
<1>4. \/ j.pc = "clip" /\ Set(r, m)
      \/ j.pc = "sub" /\ Set(r, n)
  BY DEF DeleteClipFile
<1>. HIDE DEF j
<1>5. ASSUME j.pc = "clip" PROVE Cleared(m, Due')
  BY <1>1, <1>2, <1>5 DEF Jobs, Good, Staged, AtOne, Cleared
<1>6. ASSUME j.pc = "sub" PROVE Cleared(n, Due')
  BY <1>1, <1>2, <1>6 DEF Jobs, Cleared
<1>. HIDE DEF m, n
<1>. QED  BY <1>3, <1>4, <1>5, <1>6, RunClears

LEMMA ThrownClears ==
  ASSUME IInv, NEW r \in Runs, job[r].pc \in {"clipRow", "recRow"}, NEW F
  PROVE  Cleared(Thrown(r), F)
<1>. DEFINE j == job[r]
            q == IF j.cur = {} THEN "clip" ELSE "rec"
            n == [j EXCEPT !.pc = q, !.cur = {}, !.sub = {}, !.one = {}, !.late = {}]
<1>1. j \in Jobs  BY JobAt
<1>2. Thrown(r) = n /\ q \in {"clip", "rec"}  BY DEF Thrown
<1>. HIDE DEF j, q
<1>. QED  BY <1>1, <1>2 DEF Jobs, Cleared

LEMMA ClipRowClears ==
  ASSUME IInv, ListedInv, NEW r \in Runs, DeleteClipRow(r)
  PROVE  ListedInv'
<1>. DEFINE j == job[r]
            n == [j EXCEPT !.pc = "sub", !.one = {}]
<1>1. j \in Jobs /\ j.pc = "clipRow" /\ Cleared(j, Due)
  BY JobAt DEF DeleteClipRow, ListedInv
<1>2. Due' = Due /\ clip' = clip \ j.one  BY SameDue DEF DeleteClipRow
<1>3. Due' \subseteq clip'  BY <1>1, <1>2 DEF ListedInv, Cleared
<1>4. Set(r, n) \/ Set(r, Thrown(r))  BY DEF DeleteClipRow
<1>5. Cleared(Thrown(r), Due')  BY <1>1, ThrownClears
<1>. HIDE DEF j
<1>6. Cleared(n, Due')  BY <1>1, <1>2 DEF Jobs, Cleared
<1>. HIDE DEF n
<1>. QED  BY <1>2, <1>3, <1>4, <1>5, <1>6, RunClears

LEMMA TakenClears ==
  ASSUME IInv, ListedInv, NEW r \in Runs, TakeRecording(r)
  PROVE  ListedInv'
<1>. DEFINE j == job[r]
<1>1. j \in Jobs /\ Good(j, clip, protects) /\ j.pc = "rec" /\ Cleared(j, Due)
  BY JobAt DEF TakeRecording, ListedInv
<1>2. Due' = Due /\ clip' = clip  BY SameDue DEF TakeRecording, dataVars
<1>3. PICK x \in Oldest(j.todo) :
        \/ Set(r, [j EXCEPT !.todo = j.todo \ {x}])
        \/ Set(r, [j EXCEPT !.todo = j.todo \ {x}, !.pc = "sub", !.cur = {x},
                            !.sub = ClipsOf(x)])
  BY DEF TakeRecording
<1>. DEFINE t == j.todo \ {x}
            S == ClipsOf(x)
            m == [j EXCEPT !.todo = t]
            n == [j EXCEPT !.todo = t, !.pc = "sub", !.cur = {x}, !.sub = S]
<1>4. \A c \in Due : Source[c] = x => c \in S  BY DEF ClipsOf, ListedInv
<1>5. Set(r, m) \/ Set(r, n)  BY <1>3
<1>. HIDE DEF j, t, S
<1>6. Cleared(m, Due')  BY <1>1, <1>2 DEF Jobs, Good, Staged, AtOne, Cleared
<1>7. Cleared(n, Due')  BY <1>1, <1>2, <1>4 DEF Jobs, Cleared
<1>. HIDE DEF m, n
<1>. QED  BY <1>2, <1>5, <1>6, <1>7, RunClears DEF ListedInv

LEMMA RecordingFilesClear ==
  ASSUME IInv, ListedInv, NEW r \in Runs, DeleteRecordingFiles(r)
  PROVE  ListedInv'
<1>. DEFINE j == job[r]
            n == [j EXCEPT !.pc = "recRow"]
<1>1. j \in Jobs /\ j.pc = "sub" /\ j.sub = {} /\ Cleared(j, Due)
  BY JobAt DEF DeleteRecordingFiles, ListedInv
<1>2. Due' = Due /\ clip' = clip /\ Set(r, n)
  BY SameDue DEF DeleteRecordingFiles, Goto
<1>. HIDE DEF j
<1>3. Cleared(n, Due')  BY <1>1, <1>2 DEF Jobs, Cleared
<1>. HIDE DEF n
<1>. QED  BY <1>2, <1>3, RunClears DEF ListedInv

(* The clips whose rows go along with the recording's came late.             *)
LEMMA RecordingRowClears ==
  ASSUME IInv, ListedInv, NEW r \in Runs, DeleteRecordingRow(r)
  PROVE  ListedInv'
<1>. DEFINE s == job[r].guard /\ (Thrown(r).some \/ job[r].cur \subseteq rec)
            n == [Thrown(r) EXCEPT !.some = s]
<1>1. job[r] \in Jobs /\ job[r].pc = "recRow" /\ Cleared(job[r], Due)
  BY JobAt DEF DeleteRecordingRow, ListedInv
<1>2. clip' = {c \in clip : Source[c] \notin job[r].cur} /\ Set(r, n)
  BY DEF DeleteRecordingRow
<1>3. Due' = Due \ (job[r].late \cap (clip \ clip'))
  BY DEF DeleteRecordingRow, Due
<1>4. Due' \subseteq Due /\ Due' \subseteq clip'
  BY <1>1, <1>2, <1>3 DEF ListedInv, Cleared
<1>5. Thrown(r) \in Jobs /\ Cleared(Thrown(r), Due')
  BY <1>1, ThrownGood, ThrownClears
<1>. HIDE DEF s
<1>6. Cleared(n, Due')  BY <1>5 DEF Jobs, Cleared
<1>. HIDE DEF n
<1>. QED  BY <1>2, <1>4, <1>6, RunClears

(* The steps that leave clips alone and are at no recording.                 *)
QuietStep(r) ==
  \/ ReadHolds(r) \/ ReadItems(r) \/ ReadSources(r) \/ ListClips(r) \/ ClipsDone(r)
  \/ ListRecordings(r) \/ RecordingsDone(r) \/ DeleteEvents(r) \/ ReadExpected(r)
  \/ Walk(r) \/ CheckDisk(r) \/ TakeBatch(r) \/ QueryFails(r)

LEMMA QuietClears ==
  ASSUME IInv, IInv', ListedInv, NEW r \in Runs, QuietStep(r)
  PROVE  ListedInv'
<1>1. job[r] \in Jobs  BY JobAt
<1>2. Due' = Due /\ clip' = clip
  BY SameDue DEF QuietStep, ReadHolds, ReadItems, ReadSources, ListClips, ClipsDone,
         ListRecordings, RecordingsDone, DeleteEvents, ReadExpected, Walk, CheckDisk,
         TakeBatch, QueryFails, dataVars
<1>3. PICK n : Set(r, n) /\ n.pc \notin AtOne \cup All
  <2>1. Idle.pc = "idle"  BY DEF Idle
  <2>2. CASE End(r)  BY <2>1, <2>2 DEF End, AtOne, All
  <2>3. CASE \E q \in PCs \ (AtOne \cup All) : Goto(r, q)
    BY <1>1, <2>3 DEF Goto, Jobs
  <2>4. CASE ReadHolds(r) \/ ReadItems(r) \/ ReadSources(r)
    <3>. DEFINE m(q, P) == [job[r] EXCEPT !.pc = q, !.prot = P]
    <3>1. PICK q \in {"items", "sources", "batch", "clips"} : \E P : Set(r, m(q, P))
      BY <2>4 DEF ReadHolds, ReadItems, ReadSources
    <3>2. \A P : m(q, P).pc = q  BY <1>1 DEF Jobs
    <3>. HIDE DEF m
    <3>. QED  BY <3>1, <3>2 DEF AtOne, All
  <2>5. CASE ListClips(r) \/ ListRecordings(r) \/ ReadExpected(r) \/ Walk(r)
    <3>. DEFINE m(q, T) == [job[r] EXCEPT !.pc = q, !.todo = T]
    <3>1. PICK q \in {"clip", "rec", "walk", "disk"} : \E T : Set(r, m(q, T))
      BY <2>5 DEF ListClips, ListRecordings, ReadExpected, Walk
    <3>2. \A T : m(q, T).pc = q  BY <1>1 DEF Jobs
    <3>. HIDE DEF m
    <3>. QED  BY <3>1, <3>2 DEF AtOne, All
  <2>6. CASE TakeBatch(r)
    <3>. DEFINE m(T, t) == [job[r] EXCEPT !.pc = "rec", !.todo = T, !.some = FALSE,
                                          !.turn = t]
    <3>1. End(r) \/ \E T, t : Set(r, m(T, t))  BY <2>6 DEF TakeBatch
    <3>2. \A T, t : m(T, t).pc = "rec"  BY <1>1 DEF Jobs
    <3>. HIDE DEF m
    <3>. QED  BY <2>2, <3>1, <3>2 DEF AtOne, All
  <2>7. CASE CheckDisk(r)
    <3>. DEFINE m == [job[r] EXCEPT !.pc = "batch", !.guard = TRUE]
    <3>1. End(r) \/ Set(r, m)  BY <2>7 DEF CheckDisk
    <3>2. m.pc = "batch"  BY <1>1 DEF Jobs
    <3>. HIDE DEF m
    <3>. QED  BY <2>2, <3>1, <3>2 DEF AtOne, All
  <2>8. ASSUME ClipsDone(r) \/ DeleteEvents(r) \/ RecordingsDone(r) \/ QueryFails(r)
        PROVE  End(r) \/ \E q \in PCs \ (AtOne \cup All) : Goto(r, q)
    <3>1. {"recs", "orphans", "events", "batch"} \subseteq PCs \ (AtOne \cup All)
      BY DEF PCs, AtOne, All
    <3>2. \/ Goto(r, "recs") \/ Goto(r, "orphans") \/ Goto(r, "events")
          \/ Goto(r, "batch") \/ End(r)
      BY <2>8 DEF ClipsDone, DeleteEvents, RecordingsDone, QueryFails
    <3>. QED  BY <3>1, <3>2
  <2>. QED  BY <2>2, <2>3, <2>4, <2>5, <2>6, <2>7, <2>8 DEF QuietStep
<1>4. job'[r] = n  BY <1>3 DEF Set, IInv
<1>5. n.cur = {}  BY <1>3, <1>4 DEF IInv, Good, Staged
<1>6. Cleared(n, Due')  BY <1>3, <1>5, ClearedElsewhere DEF AtOne
<1>. QED  BY <1>2, <1>3, <1>6, RunClears DEF ListedInv

(* deleteAllRecordings: its list is complete, but for what comes late.       *)
LEMMA BeginsClear ==
  ASSUME IInv, ListedInv, NEW r \in Runs, Begin(r) \/ BeginGuard(r) \/ AllBegins(r)
  PROVE  ListedInv'
<1>. DEFINE i == Idle
            m == [i EXCEPT !.pc = "holds", !.kept = protects]
            n == [i EXCEPT !.pc = "holds", !.guard = TRUE, !.kept = protects]
            o == [i EXCEPT !.pc = "allFiles", !.todo = rec \cup clip]
<1>1. i \in Jobs /\ i.cur = {}  BY IdleGood DEF Idle
<1>2. Set(r, m) \/ Set(r, n) \/ Set(r, o)  BY DEF Begin, BeginGuard, AllBegins
<1>3. Due' = Due /\ clip' = clip  BY SameDue DEF Begin, BeginGuard, AllBegins, dataVars
<1>. HIDE DEF i
<1>4. Cleared(m, Due) /\ Cleared(n, Due) /\ Cleared(o, Due)
  BY <1>1 DEF Jobs, Cleared, ListedInv
<1>. HIDE DEF m, n, o
<1>. QED  BY <1>2, <1>3, <1>4, RunClears DEF ListedInv

LEMMA AllFilesClear ==
  ASSUME IInv, ListedInv, NEW r \in Runs, AllFiles(r)
  PROVE  ListedInv'
<1>. DEFINE j == job[r]
            n == [j EXCEPT !.pc = "allRows", !.todo = {}]
<1>1. j \in Jobs /\ Good(j, clip, protects) /\ j.pc = "allFiles" /\ Cleared(j, Due)
  BY JobAt DEF AllFiles, ListedInv
<1>2. Due' \subseteq Due \ j.todo
  <2>1. /\ clipFile' \subseteq clipFile /\ exporting' = exporting
        /\ strays' = strays \cup (clipFile' \cap j.todo)
    BY WithoutLess DEF AllFiles
  <2>. QED  BY <2>1 DEF Due
<1>3. clip' = clip /\ Set(r, n)  BY DEF AllFiles
<1>. HIDE DEF j
<1>4. Cleared(n, Due')  BY <1>1, <1>2 DEF Jobs, Good, Staged, AtOne, Cleared
<1>. HIDE DEF n
<1>. QED  BY <1>2, <1>3, <1>4, RunClears DEF ListedInv

LEMMA AllRowsClear ==
  ASSUME IInv, ListedInv, NEW r \in Runs, AllRows(r)
  PROVE  ListedInv'
<1>1. Due \subseteq job[r].late \cap clip /\ Set(r, Idle)
  BY DEF AllRows, End, ListedInv, Cleared
<1>2. Due' = Due \ (job[r].late \cap clip)  BY DEF AllRows, Due
<1>3. Due' = {}  BY <1>1, <1>2
<1>. QED  BY <1>1, <1>3, IdleCleared, RunClears

(* An export whose row is written is due; no run has it at hand, and those   *)
(* that have listed the clips of its recording know it as late.              *)
LEMMA ExportClears ==
  ASSUME IInv, NewInv, ListedInv, NEW c \in Clips,
         ExportBegins(c) \/ ExportListed(c) \/ ExportFails(c)
  PROVE  ListedInv'
<1>1. CASE ExportBegins(c) \/ ExportFails(c)
  <2>1. Due' \subseteq Due /\ UNCHANGED <<clip, job>>
    <3>1. c \notin clip  BY <1>1 DEF ExportBegins, ExportFails, NewInv
    <3>. QED  BY <1>1, <3>1 DEF ExportBegins, ExportFails, ListedInv, Due
  <2>2. \A r \in Runs : Cleared(job[r], Due')  BY <2>1, ClearedFewer DEF ListedInv
  <2>. QED  BY <2>1, <2>2 DEF ListedInv
<1>2. CASE ExportListed(c)
  <2>1. Due' \subseteq Due \cup {c} /\ clip' = clip \cup {c} /\ c \in exporting
    BY <1>2 DEF ExportListed, Due
  <2>2. ASSUME NEW r \in Runs PROVE Cleared(job'[r], Due')
    <3>. DEFINE j == job[r]
                l == j.late \cup {c}
                n == [j EXCEPT !.late = l]
    <3>1. j \in Jobs /\ Cleared(j, Due) /\ c \notin j.one
      BY <2>1, JobAt DEF ListedInv, NewInv, Named
    <3>2. \/ job'[r] = n
          \/ job'[r] = j /\ Source[c] \notin j.cur /\ j.pc \notin All
      BY <1>2 DEF ExportListed, All
    <3>. HIDE DEF j
    <3>3. Cleared(n, Due')  BY <2>1, <3>1 DEF Jobs, Cleared
    <3>4. Source[c] \notin j.cur /\ j.pc \notin All => Cleared(j, Due')
      BY <2>1, <3>1 DEF Cleared, All
    <3>. HIDE DEF n
    <3>. QED  BY <3>2, <3>3, <3>4
  <2>. QED  BY <2>1, <2>2 DEF ListedInv
<1>. QED  BY <1>1, <1>2

LEMMA AroundClears ==
  ASSUME IInv, ListedInv,
         \/ \E w \in Ways, S \in Held : SetProtection(w, S)
         \/ \E x \in Recordings : Register(x) \/ Derive(x)
         \/ \E t \in Things : TimePasses(t)
         \/ Switch
         \/ Crash
  PROVE  ListedInv'
<1>1. Due' = Due /\ clip' = clip
  BY DEF SetProtection, Register, Derive, TimePasses, Switch, Crash, dataVars, Due
<1>2. ASSUME NEW w \in Ways, NEW S, SetProtection(w, S), NEW r \in Runs
      PROVE  Cleared(job'[r], Due)
  <2>. DEFINE j == job[r]
              k == [j.kept EXCEPT ![w] = @ \cap S]
              n == [j EXCEPT !.kept = k]
  <2>1. job'[r] = n  BY <1>2, JobAt DEF SetProtection, Jobs
  <2>2. j \in Jobs /\ Cleared(j, Due)  BY JobAt DEF ListedInv
  <2>. HIDE DEF j, k
  <2>3. Cleared(n, Due)  BY <2>2 DEF Jobs, Cleared
  <2>. QED  BY <2>1, <2>3
<1>3. ASSUME Crash, NEW r \in Runs PROVE Cleared(job'[r], Due)
  BY <1>3, IdleCleared DEF Crash
<1>4. ASSUME \/ \E x \in Recordings : Register(x) \/ Derive(x)
             \/ \E t \in Things : TimePasses(t)
             \/ Switch
      PROVE  job' = job
  BY <1>4 DEF Register, Derive, TimePasses, Switch
<1>. QED  BY <1>1, <1>2, <1>3, <1>4 DEF ListedInv

LEMMA NextListed ==
  ASSUME IInv, IInv', NewInv, ListedInv, [Next]_vars
  PROVE  ListedInv'
<1>1. ASSUME NEW r \in Runs, RunStep(r) PROVE ListedInv'
  BY <1>1, QuietClears, ClipFileClears, ClipRowClears, TakenClears, RecordingFilesClear,
     RecordingRowClears, AllFilesClear, AllRowsClear
     DEF RunStep, QuietStep
<1>2. ASSUME NEW r \in Runs, Begin(r) \/ BeginGuard(r) \/ AllBegins(r)
      PROVE  ListedInv'
  BY <1>2, BeginsClear
<1>3. ASSUME NEW r \in Runs, DeleteFails(r) PROVE ListedInv'
  <2>1. Set(r, Thrown(r)) /\ Due' = Due /\ clip' = clip
        /\ job[r].pc \in {"clipRow", "recRow"}
    BY <1>3, SameDue DEF DeleteFails, dataVars
  <2>. QED  BY <2>1, ThrownClears, RunClears DEF ListedInv
<1>4. ASSUME NEW r \in Runs, QueryFails(r) PROVE ListedInv'
  BY <1>4, QuietClears DEF QuietStep
<1>5. CASE UNCHANGED vars
  BY <1>5 DEF vars, dataVars, ListedInv, Due
<1>6. ASSUME NEW c \in Clips, ExportBegins(c) \/ ExportListed(c) \/ ExportFails(c)
      PROVE  ListedInv'
  BY <1>6, ExportClears
<1>7. CASE Works  BY <1>1, <1>2, <1>6, <1>7, AroundClears DEF Works
<1>. QED  BY <1>2, <1>3, <1>4, <1>5, <1>7, AroundClears DEF Next

(* However many runs and exports there are side by side, and whatever        *)
(* queries fail or process dies, a clip that was exported and has its row    *)
(* keeps it for as long as its file is on disk: the only files without one   *)
(* are those of an export under way, failed or cut short, those that could   *)
(* not be removed, and those whose row came after the clips of the recording *)
(* were listed by a run that then deleted it.                                *)
THEOREM ClipFilesAlwaysListed == Spec => []ClipFilesListed
<1>1. Init => ListedInv
  <2>. SUFFICES ASSUME Init PROVE ListedInv  OBVIOUS
  <2>1. \A r \in Runs : Cleared(job[r], Due)  BY IdleCleared DEF Init
  <2>. QED  BY <2>1 DEF Init, ListedInv, Due
<1>2. IInv /\ NewInv /\ [Next]_vars => IInv' /\ NewInv'  BY NextIInv, NextNew
<1>3. IInv /\ IInv' /\ NewInv /\ ListedInv /\ [Next]_vars => ListedInv'  BY NextListed
<1>4. ListedInv => ClipFilesListed  BY DEF ListedInv, ClipFilesListed, Due
<1>. QED  BY InitIInv, InitNew, <1>1, <1>2, <1>3, <1>4, PTL DEF Spec

-----------------------------------------------------------------------------
(* What a run of handleRetention is about to delete is past its retention.   *)
Looping == {"clip", "clipRow", "rec", "sub", "recRow"}
Expired(j, O) ==
  ~j.guard /\ j.pc \in Looping => j.todo \subseteq O /\ j.cur \subseteq O
ExpiredInv == \A r \in Runs : Expired(job[r], old)

(* What is within its retention goes only with a step of the disk guard or   *)
(* of deleteAllRecordings.                                                   *)
YoungSpared ==
  \A x \in (Recordings \cup Events) \ old :
    x \in Gone => \E r \in Runs : job'[r] # job[r] /\ (job[r].guard \/ job[r].pc \in All)

LEMMA RunExpires ==
  ASSUME IInv, ExpiredInv, NEW r \in Runs, NEW n, Set(r, n), Expired(n, old),
         UNCHANGED old
  PROVE  ExpiredInv'
<1>1. job'[r] = n /\ \A q \in Runs \ {r} : job'[q] = job[q]  BY DEF Set, IInv
<1>. QED  BY <1>1 DEF ExpiredInv

(* A run that is in no loop, or goes on with what it has listed.             *)
LEMMA ExpiredElsewhere ==
  ASSUME NEW j, NEW O, j.pc \notin Looping
  PROVE  Expired(j, O)
  BY DEF Expired

LEMMA ExpiredFewer ==
  ASSUME NEW j, NEW O, NEW n, Expired(j, O), j.pc \in Looping,
         n.guard = j.guard, n.todo \subseteq j.todo, n.cur \subseteq j.cur \cup j.todo
  PROVE  Expired(n, O)
  BY DEF Expired

LEMMA ThrownExpires ==
  ASSUME IInv, ExpiredInv, NEW r \in Runs, job[r].pc \in {"clipRow", "recRow"},
         NEW n \in Jobs, n.guard = Thrown(r).guard, n.todo = Thrown(r).todo, n.cur = {}
  PROVE  Expired(n, old)
<1>1. job[r] \in Jobs /\ Expired(job[r], old)  BY JobAt DEF ExpiredInv
<1>2. Thrown(r).guard = job[r].guard /\ Thrown(r).todo = job[r].todo
  BY <1>1 DEF Thrown, Jobs
<1>. QED  BY <1>1, <1>2, ExpiredFewer DEF Looping

(* The lists of handleRetention; the batches are the disk guard's.           *)
LEMMA ListsExpire ==
  ASSUME IInv, ExpiredInv, NEW r \in Runs,
         ListClips(r) \/ ListRecordings(r) \/ TakeBatch(r)
  PROVE  ExpiredInv'
<1>. DEFINE j == job[r]
            k == [j EXCEPT !.pc = "clip", !.todo = (clip \cap old) \ job[r].prot]
            l == [j EXCEPT !.pc = "rec", !.todo = rec \cap old]
            m(T, u) == [j EXCEPT !.pc = "rec", !.todo = T, !.some = FALSE, !.turn = u]
<1>1. j \in Jobs /\ Good(j, clip, protects)  BY JobAt
<1>2. UNCHANGED old  BY DEF ListClips, ListRecordings, TakeBatch, envVars
<1>3. CASE ListClips(r)
  <2>1. Set(r, k) /\ j.cur = {}
    BY <1>1, <1>3 DEF ListClips, Good, Staged, AtOne
  <2>2. Expired(k, old)  BY <1>1, <2>1 DEF Jobs, Expired
  <2>. QED  BY <1>2, <2>1, <2>2, RunExpires
<1>4. CASE ListRecordings(r)
  <2>1. Set(r, l) /\ j.cur = {}
    BY <1>1, <1>4 DEF ListRecordings, Good, Staged, AtOne
  <2>2. Expired(l, old)  BY <1>1, <2>1 DEF Jobs, Expired
  <2>. QED  BY <1>2, <2>1, <2>2, RunExpires
<1>5. CASE TakeBatch(r)
  <2>1. j.guard  BY <1>1, <1>5 DEF TakeBatch, Good, Staged
  <2>2. End(r) \/ \E T, u : Set(r, m(T, u))  BY <1>5 DEF TakeBatch
  <2>3. \A T, u : Expired(m(T, u), old)  BY <1>1, <2>1 DEF Jobs, Expired
  <2>4. Expired(Idle, old)  BY DEF Idle, Expired, Looping
  <2>. HIDE DEF m
  <2>. QED  BY <1>2, <2>2, <2>3, <2>4, RunExpires DEF End
<1>. QED  BY <1>3, <1>4, <1>5

(* The steps within the loops.                                               *)
LEMMA LoopExpires ==
  ASSUME IInv, ExpiredInv, NEW r \in Runs,
         \/ \E c \in Clips : DeleteClipFile(r, c)
         \/ DeleteClipRow(r) \/ TakeRecording(r) \/ DeleteRecordingFiles(r)
         \/ DeleteRecordingRow(r) \/ DeleteFails(r)
  PROVE  ExpiredInv'
<1>. DEFINE j == job[r]
<1>1. j \in Jobs /\ Good(j, clip, protects) /\ Expired(j, old)  BY JobAt DEF ExpiredInv
<1>2. UNCHANGED old
  BY DEF DeleteClipFile, DeleteClipRow, TakeRecording, DeleteRecordingFiles,
         DeleteRecordingRow, DeleteFails, envVars
<1>3. ASSUME NEW c \in Clips, DeleteClipFile(r, c)  PROVE ExpiredInv'
  <2>. DEFINE m == [j EXCEPT !.pc = "clipRow", !.todo = @ \ {c}, !.one = {c}]
              n == [j EXCEPT !.pc = "clipRow", !.sub = @ \ {c}, !.one = {c}]
  <2>1. (Set(r, m) \/ Set(r, n)) /\ j.pc \in Looping
    BY <1>3 DEF DeleteClipFile, Looping
  <2>2. Expired(m, old) /\ Expired(n, old)
    BY <1>1, <2>1, ExpiredFewer DEF Jobs
  <2>. HIDE DEF m, n
  <2>. QED  BY <1>2, <2>1, <2>2, RunExpires
<1>4. ASSUME job[r].pc \in {"clipRow", "recRow"}
      PROVE  Thrown(r) \in Jobs /\ Thrown(r).cur = {} /\ Expired(Thrown(r), old)
  <2>1. Thrown(r) \in Jobs  BY <1>4, ThrownGood
  <2>2. Thrown(r).cur = {}  BY <1>1 DEF Thrown, Jobs
  <2>. QED  BY <1>4, <2>1, <2>2, ThrownExpires
<1>5. CASE DeleteClipRow(r)
  <2>. DEFINE n == [j EXCEPT !.pc = "sub", !.one = {}]
  <2>1. (Set(r, n) \/ Set(r, Thrown(r))) /\ j.pc = "clipRow"
    BY <1>5 DEF DeleteClipRow
  <2>2. Expired(n, old)  BY <1>1, <2>1, ExpiredFewer DEF Jobs, Looping
  <2>. HIDE DEF n
  <2>. QED  BY <1>2, <1>4, <2>1, <2>2, RunExpires
<1>6. CASE TakeRecording(r)
  <2>1. PICK x \in Oldest(j.todo) :
          \/ Set(r, [j EXCEPT !.todo = j.todo \ {x}])
          \/ Set(r, [j EXCEPT !.todo = j.todo \ {x}, !.pc = "sub", !.cur = {x},
                              !.sub = ClipsOf(x)])
    BY <1>6 DEF TakeRecording
  <2>. DEFINE m == [j EXCEPT !.todo = j.todo \ {x}]
              n == [j EXCEPT !.todo = j.todo \ {x}, !.pc = "sub", !.cur = {x},
                             !.sub = ClipsOf(x)]
  <2>2. x \in j.todo /\ j.pc \in Looping  BY <1>6 DEF Oldest, TakeRecording, Looping
  <2>3. /\ m.guard = j.guard /\ m.todo \subseteq j.todo /\ m.cur = j.cur
        /\ n.guard = j.guard /\ n.todo \subseteq j.todo /\ n.cur \subseteq j.todo
    BY <1>1, <2>2 DEF Jobs
  <2>4. Set(r, m) \/ Set(r, n)  BY <2>1
  <2>. HIDE DEF m, n
  <2>5. Expired(m, old) /\ Expired(n, old)  BY <1>1, <2>2, <2>3, ExpiredFewer
  <2>. QED  BY <1>2, <2>4, <2>5, RunExpires
<1>7. CASE DeleteRecordingFiles(r)
  <2>. DEFINE n == [j EXCEPT !.pc = "recRow"]
  <2>1. Set(r, n) /\ j.pc \in Looping  BY <1>7 DEF DeleteRecordingFiles, Goto, Looping
  <2>2. Expired(n, old)  BY <1>1, <2>1, ExpiredFewer DEF Jobs
  <2>. HIDE DEF n
  <2>. QED  BY <1>2, <2>1, <2>2, RunExpires
<1>8. CASE DeleteRecordingRow(r)
  <2>. DEFINE b == job[r].guard /\ (Thrown(r).some \/ job[r].cur \subseteq rec)
              n == [Thrown(r) EXCEPT !.some = b]
  <2>1. Set(r, n) /\ job[r].pc \in {"clipRow", "recRow"}  BY <1>8 DEF DeleteRecordingRow
  <2>2. b \in BOOLEAN  OBVIOUS
  <2>. HIDE DEF b
  <2>3. n \in Jobs /\ n.guard = Thrown(r).guard /\ n.todo = Thrown(r).todo /\ n.cur = {}
    BY <1>4, <2>1, <2>2 DEF Jobs
  <2>. HIDE DEF n
  <2>4. Expired(n, old)  BY <2>1, <2>3, ThrownExpires
  <2>. QED  BY <1>2, <2>1, <2>4, RunExpires
<1>9. CASE DeleteFails(r)
  BY <1>2, <1>4, <1>9, RunExpires DEF DeleteFails
<1>. QED  BY <1>3, <1>5, <1>6, <1>7, <1>8, <1>9

(* The steps at which a run is in no loop any more, or in none yet.          *)
LEMMA LeavesLoop ==
  ASSUME IInv, ExpiredInv, NEW r \in Runs,
         \/ ReadHolds(r) \/ ReadItems(r) \/ ReadSources(r) \/ ClipsDone(r)
         \/ RecordingsDone(r) \/ DeleteEvents(r) \/ ReadExpected(r) \/ Walk(r)
         \/ CheckDisk(r) \/ QueryFails(r) \/ AllFiles(r) \/ AllRows(r)
         \/ Begin(r) \/ BeginGuard(r) \/ AllBegins(r)
  PROVE  ExpiredInv'
<1>1. job[r] \in Jobs  BY JobAt
<1>2. UNCHANGED old
  BY DEF ReadHolds, ReadItems, ReadSources, ClipsDone, RecordingsDone, DeleteEvents,
         ReadExpected, Walk, CheckDisk, QueryFails, AllFiles, AllRows, Begin, BeginGuard,
         AllBegins, envVars
<1>3. Idle \in Jobs /\ Idle.pc = "idle"  BY IdleGood
<1>4. PICK n : Set(r, n) /\ n.pc \notin Looping
  <2>1. CASE End(r)  BY <1>3, <2>1 DEF End, Looping
  <2>2. CASE \E q \in PCs \ Looping : Goto(r, q)  BY <1>1, <2>2 DEF Goto, Jobs
  <2>3. CASE ReadHolds(r) \/ ReadItems(r) \/ ReadSources(r)
    <3>. DEFINE m(q, P) == [job[r] EXCEPT !.pc = q, !.prot = P]
    <3>1. PICK q \in {"items", "sources", "batch", "clips"} : \E P : Set(r, m(q, P))
      BY <2>3 DEF ReadHolds, ReadItems, ReadSources
    <3>2. \A P : m(q, P).pc = q  BY <1>1 DEF Jobs
    <3>. HIDE DEF m
    <3>. QED  BY <3>1, <3>2 DEF Looping
  <2>4. CASE ReadExpected(r) \/ Walk(r) \/ AllFiles(r)
    <3>. DEFINE m(q, T) == [job[r] EXCEPT !.pc = q, !.todo = T]
    <3>1. PICK q \in {"walk", "disk", "allRows"} : \E T : Set(r, m(q, T))
      BY <2>4 DEF ReadExpected, Walk, AllFiles
    <3>2. \A T : m(q, T).pc = q  BY <1>1 DEF Jobs
    <3>. HIDE DEF m
    <3>. QED  BY <3>1, <3>2 DEF Looping
  <2>5. CASE CheckDisk(r)
    <3>. DEFINE m == [job[r] EXCEPT !.pc = "batch", !.guard = TRUE]
    <3>1. End(r) \/ Set(r, m)  BY <2>5 DEF CheckDisk
    <3>2. m.pc = "batch"  BY <1>1 DEF Jobs
    <3>. HIDE DEF m
    <3>. QED  BY <2>1, <3>1, <3>2 DEF Looping
  <2>6. CASE Begin(r) \/ BeginGuard(r) \/ AllBegins(r)
    <3>. DEFINE i == Idle
                k == [i EXCEPT !.pc = "holds", !.kept = protects]
                l == [i EXCEPT !.pc = "holds", !.guard = TRUE, !.kept = protects]
                m == [i EXCEPT !.pc = "allFiles", !.todo = rec \cup clip]
    <3>1. Set(r, k) \/ Set(r, l) \/ Set(r, m)  BY <2>6 DEF Begin, BeginGuard, AllBegins
    <3>. HIDE DEF i
    <3>2. k.pc = "holds" /\ l.pc = "holds" /\ m.pc = "allFiles"  BY <1>3 DEF Jobs, i
    <3>. HIDE DEF k, l, m
    <3>. QED  BY <3>1, <3>2 DEF Looping
  <2>7. ASSUME \/ ClipsDone(r) \/ DeleteEvents(r) \/ RecordingsDone(r)
               \/ QueryFails(r) \/ AllRows(r)
        PROVE  End(r) \/ \E q \in PCs \ Looping : Goto(r, q)
    <3>1. {"recs", "orphans", "events", "batch"} \subseteq PCs \ Looping
      BY DEF PCs, Looping
    <3>2. \/ Goto(r, "recs") \/ Goto(r, "orphans") \/ Goto(r, "events")
          \/ Goto(r, "batch") \/ End(r)
      BY <2>7 DEF ClipsDone, DeleteEvents, RecordingsDone, QueryFails, AllRows
    <3>. QED  BY <3>1, <3>2
  <2>. QED  BY <2>1, <2>2, <2>3, <2>4, <2>5, <2>6, <2>7
<1>. QED  BY <1>2, <1>4, ExpiredElsewhere, RunExpires

LEMMA NextExpired ==
  ASSUME IInv, ExpiredInv, [Next]_vars
  PROVE  ExpiredInv'
<1>1. ASSUME NEW r \in Runs, RunStep(r) \/ DeleteFails(r) \/ QueryFails(r)
                             \/ Begin(r) \/ BeginGuard(r) \/ AllBegins(r)
      PROVE  ExpiredInv'
  BY <1>1, ListsExpire, LoopExpires, LeavesLoop DEF RunStep
<1>2. ASSUME NEW w \in Ways, NEW S, SetProtection(w, S)
      PROVE  ExpiredInv'
  <2>1. UNCHANGED old  BY <1>2 DEF SetProtection, envVars
  <2>2. ASSUME NEW r \in Runs PROVE Expired(job'[r], old)
    <3>. DEFINE j == job[r]
                k == [j.kept EXCEPT ![w] = @ \cap S]
                n == [j EXCEPT !.kept = k]
    <3>1. job'[r] = n  BY <1>2, JobAt DEF SetProtection, Jobs
    <3>2. j \in Jobs /\ Expired(j, old)  BY JobAt DEF ExpiredInv
    <3>. HIDE DEF j, k
    <3>3. Expired(n, old)  BY <3>2 DEF Jobs, Expired
    <3>. QED  BY <3>1, <3>3
  <2>. QED  BY <2>1, <2>2 DEF ExpiredInv
<1>3. ASSUME NEW x \in Recordings, Register(x)  PROVE ExpiredInv'
  BY <1>3 DEF Register, New, ExpiredInv, Expired
<1>4. ASSUME NEW t \in Things, TimePasses(t)  PROVE ExpiredInv'
  BY <1>4 DEF TimePasses, ExpiredInv, Expired
<1>5. CASE \/ \E x \in Recordings : Derive(x)
           \/ Switch
           \/ \E c \in Clips : ExportBegins(c) \/ ExportFails(c)
  BY <1>5 DEF Derive, Switch, ExportBegins, ExportFails, envVars, ExpiredInv
<1>6. CASE Crash
  BY <1>6 DEF Crash, ExpiredInv, Expired, Idle, Looping
<1>7. CASE UNCHANGED vars
  BY <1>7 DEF vars, envVars, ExpiredInv
<1>8. ASSUME NEW c \in Clips, ExportListed(c)  PROVE ExpiredInv'
  <2>1. UNCHANGED old  BY <1>8 DEF ExportListed, envVars
  <2>2. ASSUME NEW r \in Runs PROVE Expired(job'[r], old)
    BY <1>8, JobAt DEF ExportListed, Jobs, ExpiredInv, Expired
  <2>. QED  BY <2>1, <2>2 DEF ExpiredInv
<1>. QED  BY <1>1, <1>2, <1>3, <1>4, <1>5, <1>6, <1>7, <1>8 DEF Next, Works

(* What a run removes of recordings and events.                              *)
LEMMA RunSparesYoung ==
  ASSUME IInv, ExpiredInv, NEW r \in Runs, RunStep(r),
         NEW x \in (Recordings \cup Events) \ old, x \in Gone
  PROVE  job'[r] # job[r] /\ (job[r].guard \/ job[r].pc \in All)
<1>. DEFINE j == job[r]
<1>1. j \in Jobs /\ Good(j, clip, protects) /\ Expired(j, old)  BY JobAt DEF ExpiredInv
<1>2. x \notin Clips /\ clip \subseteq Clips /\ clipFile \subseteq Clips
  BY ThingsAssumption DEF IInv, DataTypes
<1>3. x \in (rec \ rec') \cup (file \ file') \cup (event \ event')
  BY <1>2 DEF Gone
<1>4. CASE DeleteRecordingFiles(r)
  <2>1. x \in j.cur
    BY <1>3, <1>4, WithoutLess DEF DeleteRecordingFiles
  <2>2. j.pc = "sub" /\ job'[r] = [j EXCEPT !.pc = "recRow"]
    BY <1>4 DEF DeleteRecordingFiles, Goto, Set, IInv
  <2>3. job'[r] # j  BY <1>1, <2>2 DEF Jobs
  <2>. QED  BY <1>1, <2>1, <2>2, <2>3 DEF Expired, Looping
<1>5. CASE DeleteRecordingRow(r)
  <2>. DEFINE b == job[r].guard /\ (Thrown(r).some \/ job[r].cur \subseteq rec)
              n == [Thrown(r) EXCEPT !.some = b]
  <2>1. x \in j.cur /\ j.pc = "recRow"
    BY <1>3, <1>5 DEF DeleteRecordingRow
  <2>2. job'[r] = n  BY <1>5 DEF DeleteRecordingRow, Set, IInv
  <2>. HIDE DEF b
  <2>3. n.cur = {}  BY <1>1 DEF Thrown, Jobs
  <2>. HIDE DEF n
  <2>4. job'[r] # j  BY <2>1, <2>2, <2>3
  <2>. QED  BY <1>1, <2>1, <2>4 DEF Expired, Looping
<1>6. CASE DeleteEvents(r)
  BY <1>3, <1>6 DEF DeleteEvents
<1>7. CASE AllFiles(r)
  <2>1. j.pc = "allFiles" /\ job'[r] = [j EXCEPT !.pc = "allRows", !.todo = {}]
    BY <1>7 DEF AllFiles, Set, IInv
  <2>2. job'[r] # j  BY <1>1, <2>1 DEF Jobs
  <2>. QED  BY <2>1, <2>2 DEF All
<1>8. CASE AllRows(r)
  <2>1. j.pc = "allRows" /\ job'[r] = Idle  BY <1>8 DEF AllRows, End, Set, IInv
  <2>2. Idle.pc = "idle"  BY DEF Idle
  <2>. QED  BY <2>1, <2>2 DEF All
<1>9. CASE UNCHANGED <<rec, file, event>>
  BY <1>3, <1>9
<1>10. \/ DeleteRecordingFiles(r) \/ DeleteRecordingRow(r) \/ DeleteEvents(r)
       \/ AllFiles(r) \/ AllRows(r) \/ UNCHANGED <<rec, file, event>>
  BY DEF RunStep, ReadHolds, ReadItems, ReadSources, ListClips, DeleteClipFile,
         DeleteClipRow, ClipsDone, ListRecordings, TakeRecording, RecordingsDone,
         ReadExpected, Walk, CheckDisk, TakeBatch, dataVars
<1>. QED  BY <1>4, <1>5, <1>6, <1>7, <1>8, <1>9, <1>10

LEMMA NextSparesYoung ==
  ASSUME IInv, ExpiredInv, [Next]_vars
  PROVE  [YoungSpared]_vars
<1>. SUFFICES ASSUME Next, NEW x \in (Recordings \cup Events) \ old, x \in Gone
              PROVE  \E r \in Runs : job'[r] # job[r] /\ (job[r].guard \/ job[r].pc \in All)
  BY DEF YoungSpared
<1>1. ASSUME NEW r \in Runs, RunStep(r)
      PROVE  \E q \in Runs : job'[q] # job[q] /\ (job[q].guard \/ job[q].pc \in All)
  BY <1>1, RunSparesYoung
<1>2. \/ \E r \in Runs : RunStep(r)
      \/ UNCHANGED <<rec, file, event>> \/ \E y \in Recordings : Register(y)
  BY DEF Next, Works, Begin, BeginGuard, AllBegins, DeleteFails, QueryFails, SetProtection,
         Derive, TimePasses, Switch, ExportBegins, ExportListed, ExportFails, Crash, dataVars
<1>3. ASSUME UNCHANGED <<rec, file, event>>  PROVE FALSE
  <2>1. x \notin clip \cup clipFile
    BY ThingsAssumption DEF IInv, DataTypes
  <2>. QED  BY <1>3, <2>1 DEF Gone
<1>4. ASSUME NEW y, Register(y)  PROVE FALSE
  BY <1>4 DEF Register, Gone
<1>. QED  BY <1>1, <1>2, <1>3, <1>4

(* No run of handleRetention, however late it uses what it has listed, takes *)
(* a recording or an event that is within its retention: the lists are made  *)
(* with the age limit and only shrink (145-165, 207-228).  Such a one goes   *)
(* only with a step of the disk guard, which takes the oldest whatever their *)
(* age, or of deleteAllRecordings.                                           *)
THEOREM WithinRetentionSpared == Spec => [][YoungSpared]_vars
<1>1. Init => ExpiredInv
  BY DEF Init, ExpiredInv, Expired, Idle, Looping
<1>2. IInv /\ NewInv /\ [Next]_vars => IInv' /\ NewInv'  BY NextIInv, NextNew
<1>3. IInv /\ ExpiredInv /\ [Next]_vars => ExpiredInv'  BY NextExpired
<1>4. IInv /\ ExpiredInv /\ [Next]_vars => [YoungSpared]_vars  BY NextSparesYoung
<1>. QED  BY InitIInv, InitNew, <1>1, <1>2, <1>3, <1>4, PTL DEF Spec

=============================================================================
