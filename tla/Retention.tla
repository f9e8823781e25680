------------------------------ MODULE Retention ------------------------------
(***************************************************************************)
(* What RetentionService and "delete all recordings" remove, and what the   *)
(* investigations protect (recordings/retention.service.ts,                 *)
(* recordings.service.ts deleteAllRecordings, investigations.service.ts),   *)
(* while clips are exported (recordings.service.ts exportClip).             *)
(*                                                                         *)
(* A run is one handleRetention, one checkDiskUsage or one                  *)
(* deleteAllRecordings.  Nothing keeps runs apart: the timer, the BullMQ    *)
(* job, the boot and an administrator start them, each with sets it has     *)
(* read earlier.  A step ends where a query answers; files are removed      *)
(* synchronously, rows by an awaited query, so a file always goes in the    *)
(* step before its row.                                                     *)
(***************************************************************************)
EXTENDS Integers, FiniteSets, FiniteSetsExt

CONSTANTS
  Recordings,   \* identities of recordings, in the order of startedAt
  Clips,        \* identities of exported clips
  Source,       \* the recording each clip was cut from
  Events,       \* identities of camera events
  Held,         \* bound: the sets of things an operator may put under hold
  Runs,         \* bound: runs side by side
  Trigger,      \* RETENTION_DISK_TRIGGER_PERCENT, in files
  Target,       \* RETENTION_DISK_TARGET_PERCENT, in files
  Batch,        \* recordings the disk guard takes at a time (20 in the code)
  Iterations,   \* batches of one run of the disk guard (100 in the code)
  Ops           \* what this instance admits

AllOps == {"age", "disk", "all", "unhold", "thumbs", "export", "switch", "dbFails",
           "rmFails", "crash"}

Things == Recordings \cup Clips \cup Events

ASSUME ThingsAssumption ==
  /\ Recordings \subseteq Nat /\ IsFiniteSet(Recordings)
  /\ IsFiniteSet(Clips) /\ IsFiniteSet(Events)
  /\ Recordings \cap Clips = {} /\ Events \cap (Recordings \cup Clips) = {}
  /\ Source \in [Clips -> Recordings]
  /\ Held \subseteq SUBSET Things
ASSUME BoundsAssumption ==
  /\ Trigger \in Nat /\ Target \in Nat /\ Target < Trigger
  /\ Batch \in Nat \ {0} /\ Iterations \in Nat \ {0}
ASSUME OpsAssumption == Ops \subseteq AllOps

VARIABLES
  rec,       \* rows of recordings
  file,      \* recordings whose file is on disk
  clip,      \* rows of exported clips
  clipFile,  \* clips whose file is on disk
  exporting, \* clips that are being exported
  strays,    \* history: clips whose export failed or was cut short, whose file could
             \* not be removed, or whose row came too late for a list and then went
  event,     \* rows of camera events
  derived,   \* recordings with a thumbnail on disk
  deriving,  \* recordings a thumbnail job is working on
  old,       \* things past their retention
  cleanup,   \* isAutoCleanupEnabled: the administrator's switch
  protects,  \* what each kind of protection names: the legal hold, the evidence
  job        \* job[r]: run r, with what it has read

clipVars == <<clip, clipFile, exporting, strays>>
dataVars == <<rec, file, clipVars, event>>
envVars == <<derived, deriving, old, cleanup>>
vars == <<dataVars, envVars, protects, job>>

-----------------------------------------------------------------------------
(* The two queries of getProtectionSets.                                     *)
Ways == {"hold", "evidence"}

PCs == {"idle", "holds", "items", "sources", "clips", "clip", "clipRow", "recs",
        "rec", "sub", "recRow", "events", "orphans", "walk", "disk", "batch",
        "allFiles", "allRows"}

(* guard: a run of the disk guard; prot: the protection sets; todo: what was  *)
(* listed and is not yet looked at; cur: the recording at hand; sub: its clips *)
(* still to go; one: the clip at hand; some: the batch deleted something;     *)
(* turn: batches taken; late: history, clips that got their row after the    *)
(* run had listed those of cur, or all of them;                              *)
(* kept: history, what protects has named all the time since the run began.   *)
Idle == [pc |-> "idle", guard |-> FALSE, prot |-> {}, todo |-> {}, cur |-> {},
         sub |-> {}, one |-> {}, some |-> FALSE, turn |-> 0, late |-> {},
         kept |-> [w \in Ways |-> {}]]

ClipsOf(x) == {c \in clip : Source[c] = x}
Usage == Cardinality(file) + Cardinality(clipFile)
Oldest(S) == {x \in S : \A y \in S : x <= y}
FirstOf(S, n) == {x \in S : Cardinality({y \in S : y < x}) < n}

(* A clip keeps its source too, for as long as its row is there.             *)
Closure(S) == S \cup {Source[c] : c \in S \cap clip}
Protected == Closure(UNION {protects[w] : w \in Ways})
Shielded(r) == Closure(UNION {job[r].kept[w] : w \in Ways})

Set(r, next) == job' = [job EXCEPT ![r] = next]
Goto(r, pc) == Set(r, [job[r] EXCEPT !.pc = pc])
(* A run that ends keeps nothing of what it has read.                        *)
End(r) == Set(r, Idle)

(* rmSync may fail for any of them; deleteClip and deleteRecording go on all  *)
(* the same.                                                                 *)
Without(S, gone) ==
  {S \ g : g \in {g \in SUBSET gone : g = gone \/ "rmFails" \in Ops}}

-----------------------------------------------------------------------------
(* The switch is read; it counts as on when that fails.                      *)
CleansUp == cleanup \/ "dbFails" \in Ops

(* handleRetention, from the timer, the queue or the boot, which does nothing *)
(* while the switch is off.                                                  *)
Begin(r) ==
  /\ "age" \in Ops /\ job[r].pc = "idle" /\ CleansUp
  /\ Set(r, [Idle EXCEPT !.pc = "holds", !.kept = protects])
  /\ UNCHANGED <<dataVars, envVars, protects>>

(* checkDiskUsage by itself, beside the queue.                               *)
BeginGuard(r) ==
  /\ "disk" \in Ops /\ job[r].pc = "idle" /\ Usage > Trigger /\ CleansUp
  /\ Set(r, [Idle EXCEPT !.pc = "holds", !.guard = TRUE, !.kept = protects])
  /\ UNCHANGED <<dataVars, envVars, protects>>

(* getProtectionSets: the newest legal_hold row of every investigation ...   *)
ReadHolds(r) ==
  /\ job[r].pc = "holds"
  /\ Set(r, [job[r] EXCEPT !.pc = "items", !.prot = protects["hold"]])
  /\ UNCHANGED <<dataVars, envVars, protects>>

\* Mutant: the evidence replaces what the holds protect.
ReadItemsOnly(r) ==
  /\ job[r].pc = "items"
  /\ Set(r, [job[r] EXCEPT !.pc = "sources", !.prot = protects["evidence"]])
  /\ UNCHANGED <<dataVars, envVars, protects>>

(* ... then the items of every investigation ...                             *)
ReadItems(r) ==
  /\ job[r].pc = "items"
  /\ Set(r, [job[r] EXCEPT !.pc = "sources", !.prot = @ \cup protects["evidence"]])
  /\ UNCHANGED <<dataVars, envVars, protects>>

(* ... then the recordings that protected clips were cut from.               *)
ReadSources(r) ==
  /\ job[r].pc = "sources"
  /\ Set(r, [job[r] EXCEPT !.pc = IF job[r].guard THEN "batch" ELSE "clips",
                           !.prot = Closure(@)])
  /\ UNCHANGED <<dataVars, envVars, protects>>

-----------------------------------------------------------------------------
(* Clips come first.                                                         *)
ListClips(r) ==
  /\ job[r].pc = "clips"
  /\ Set(r, [job[r] EXCEPT !.pc = "clip", !.todo = (clip \cap old) \ job[r].prot])
  /\ UNCHANGED <<dataVars, envVars, protects>>

(* deleteClip, in that loop or for a clip of the recording at hand: the file *)
DeleteClipFile(r, c) ==
  /\ \/ /\ job[r].pc = "clip" /\ c \in job[r].todo
        /\ Set(r, [job[r] EXCEPT !.pc = "clipRow", !.todo = @ \ {c}, !.one = {c}])
     \/ /\ job[r].pc = "sub" /\ c \in job[r].sub
        /\ Set(r, [job[r] EXCEPT !.pc = "clipRow", !.sub = @ \ {c}, !.one = {c}])
  /\ clipFile' \in Without(clipFile, {c})
  /\ strays' = strays \cup (clipFile' \cap {c})
  /\ UNCHANGED <<rec, file, clip, exporting, event, envVars, protects>>

(* A query that throws within the loop over recordings leaves the recording  *)
(* at hand; the loop over clips goes on with the next one.                   *)
Thrown(r) ==
  [job[r] EXCEPT !.pc = IF job[r].cur = {} THEN "clip" ELSE "rec",
                 !.cur = {}, !.sub = {}, !.one = {}, !.late = {}]

(* ... and its row; another run may have deleted it, then delete throws.     *)
DeleteClipRow(r) ==
  /\ job[r].pc = "clipRow"
  /\ clip' = clip \ job[r].one
  /\ IF job[r].cur # {} /\ job[r].one \subseteq clip
     THEN Set(r, [job[r] EXCEPT !.pc = "sub", !.one = {}])
     ELSE Set(r, Thrown(r))
  /\ UNCHANGED <<rec, file, clipFile, exporting, strays, event, envVars, protects>>

ClipsDone(r) ==
  /\ job[r].pc = "clip" /\ job[r].todo = {}
  /\ Goto(r, "recs")
  /\ UNCHANGED <<dataVars, envVars, protects>>

ListRecordings(r) ==
  /\ job[r].pc = "recs"
  /\ Set(r, [job[r] EXCEPT !.pc = "rec", !.todo = rec \cap old])
  /\ UNCHANGED <<dataVars, envVars, protects>>

-----------------------------------------------------------------------------
\* Mutant: a recording whose file is gone is passed over.
TakeRecordingOnDisk(r) ==
  /\ job[r].pc = "rec"
  /\ \E x \in Oldest(job[r].todo) :
       LET left == job[r].todo \ {x} IN
       IF x \in job[r].prot \/ x \notin file
       THEN Set(r, [job[r] EXCEPT !.todo = left])
       ELSE Set(r, [job[r] EXCEPT !.todo = left, !.pc = "sub", !.cur = {x},
                                  !.sub = ClipsOf(x)])
  /\ UNCHANGED <<dataVars, envVars, protects>>

(* deleteRecording, for the recordings of `todo', the oldest first.  One     *)
(* that is protected, or has a protected clip, is passed over.               *)
TakeRecording(r) ==
  /\ job[r].pc = "rec"
  /\ \E x \in Oldest(job[r].todo) :
       LET left == job[r].todo \ {x} IN
       IF x \in job[r].prot \/ ClipsOf(x) \cap job[r].prot # {}
       THEN Set(r, [job[r] EXCEPT !.todo = left])
       ELSE Set(r, [job[r] EXCEPT !.todo = left, !.pc = "sub", !.cur = {x},
                                  !.sub = ClipsOf(x)])
  /\ UNCHANGED <<dataVars, envVars, protects>>

\* Mutant: the clips are left to the foreign key.
DeleteRecordingFilesFirst(r) ==
  /\ job[r].pc = "sub"
  /\ Set(r, [job[r] EXCEPT !.pc = "recRow", !.sub = {}])
  /\ file' \in Without(file, job[r].cur)
  /\ derived' \in Without(derived, job[r].cur)
  /\ UNCHANGED <<rec, clipVars, event, deriving, old, cleanup, protects>>

DeleteRecordingFiles(r) ==
  /\ job[r].pc = "sub" /\ job[r].sub = {}
  /\ Goto(r, "recRow")
  /\ file' \in Without(file, job[r].cur)
  /\ derived' \in Without(derived, job[r].cur)
  /\ UNCHANGED <<rec, clipVars, event, deriving, old, cleanup, protects>>

(* The foreign key takes the rows of its clips along.                        *)
DeleteRecordingRow(r) ==
  /\ job[r].pc = "recRow"
  /\ rec' = rec \ job[r].cur
  /\ clip' = {c \in clip : Source[c] \notin job[r].cur}
  /\ strays' = strays \cup (job[r].late \cap (clip \ clip'))
  /\ Set(r, [Thrown(r) EXCEPT !.some = job[r].guard /\ (@ \/ job[r].cur \subseteq rec)])
  /\ UNCHANGED <<file, clipFile, exporting, event, envVars, protects>>

DeleteFails(r) ==
  /\ "dbFails" \in Ops /\ job[r].pc \in {"clipRow", "recRow"}
  /\ Set(r, Thrown(r))
  /\ UNCHANGED <<dataVars, envVars, protects>>

RecordingsDone(r) ==
  /\ job[r].pc = "rec" /\ job[r].todo = {}
  /\ CASE ~job[r].guard -> Goto(r, "events")
       [] /\ job[r].guard /\ job[r].some
          /\ Usage > Target /\ job[r].turn < Iterations -> Goto(r, "batch")
       [] OTHER -> End(r)
  /\ UNCHANGED <<dataVars, envVars, protects>>

-----------------------------------------------------------------------------
(* The rest of handleRetention.                                              *)
DeleteEvents(r) ==
  /\ job[r].pc = "events"
  /\ event' = event \ (old \ job[r].prot)
  /\ Goto(r, "orphans")
  /\ UNCHANGED <<rec, file, clipVars, envVars, protects>>

\* Mutant: the videos on disk are taken for the ones that are listed.
ReadExpectedFiles(r) ==
  /\ job[r].pc = "orphans"
  /\ Set(r, [job[r] EXCEPT !.pc = "walk", !.todo = file])
  /\ UNCHANGED <<dataVars, envVars, protects>>

(* cleanupOrphanDerivedArtifacts reads the rows, then walks the directory.   *)
ReadExpected(r) ==
  /\ job[r].pc = "orphans"
  /\ Set(r, [job[r] EXCEPT !.pc = "walk", !.todo = rec])
  /\ UNCHANGED <<dataVars, envVars, protects>>

Walk(r) ==
  /\ job[r].pc = "walk"
  /\ derived' \in Without(derived, derived \ job[r].todo)
  /\ Set(r, [job[r] EXCEPT !.pc = "disk", !.todo = {}])
  /\ UNCHANGED <<dataVars, deriving, old, cleanup, protects>>

(* checkDiskUsage with the sets handleRetention read at its beginning.       *)
CheckDisk(r) ==
  /\ job[r].pc = "disk"
  /\ \/ /\ Usage > Trigger /\ CleansUp
        /\ Set(r, [job[r] EXCEPT !.pc = "batch", !.guard = TRUE])
     \/ (Usage <= Trigger \/ ~cleanup) /\ End(r)
  /\ UNCHANGED <<dataVars, envVars, protects>>

\* Mutant: the protected ones are left out only after the batch was taken.
TakeBatchOfAll(r) ==
  /\ job[r].pc = "batch"
  /\ LET oldest == FirstOf(rec, Batch)
     IN IF oldest = {}
        THEN End(r)
        ELSE Set(r, [job[r] EXCEPT !.pc = "rec", !.todo = oldest, !.some = FALSE,
                                   !.turn = @ + 1])
  /\ UNCHANGED <<dataVars, envVars, protects>>

(* The oldest recordings whatever their age, but for the protected ones.     *)
TakeBatch(r) ==
  /\ job[r].pc = "batch"
  /\ LET oldest == FirstOf(rec \ job[r].prot, Batch)
     IN IF oldest = {}
        THEN End(r)
        ELSE Set(r, [job[r] EXCEPT !.pc = "rec", !.todo = oldest, !.some = FALSE,
                                   !.turn = @ + 1])
  /\ UNCHANGED <<dataVars, envVars, protects>>

(* A query that is not guarded by a try ends the run.                        *)
QueryFails(r) ==
  /\ "dbFails" \in Ops
  /\ job[r].pc \in {"holds", "items", "sources", "clips", "recs", "events",
                    "orphans", "batch", "allRows"}
  /\ End(r)
  /\ UNCHANGED <<dataVars, envVars, protects>>

-----------------------------------------------------------------------------
(* deleteAllRecordings looks at no protection: rows read, files removed, and *)
(* then every row there is by then.  Its two queries are taken as one.       *)
AllBegins(r) ==
  /\ "all" \in Ops /\ job[r].pc = "idle"
  /\ Set(r, [Idle EXCEPT !.pc = "allFiles", !.todo = rec \cup clip])
  /\ UNCHANGED <<dataVars, envVars, protects>>

AllFiles(r) ==
  /\ job[r].pc = "allFiles"
  /\ file' \in Without(file, job[r].todo)
  /\ clipFile' \in Without(clipFile, job[r].todo)
  /\ strays' = strays \cup (clipFile' \cap job[r].todo)
  /\ Set(r, [job[r] EXCEPT !.pc = "allRows", !.todo = {}])
  /\ UNCHANGED <<rec, clip, exporting, event, envVars, protects>>

AllRows(r) ==
  /\ job[r].pc = "allRows"
  /\ rec' = {} /\ clip' = {}
  /\ strays' = strays \cup (job[r].late \cap clip)
  /\ End(r)
  /\ UNCHANGED <<file, clipFile, exporting, event, envVars, protects>>

RunStep(r) ==
  \/ ReadHolds(r) \/ ReadItems(r) \/ ReadSources(r) \/ ListClips(r)
  \/ \E c \in Clips : DeleteClipFile(r, c)
  \/ DeleteClipRow(r) \/ ClipsDone(r) \/ ListRecordings(r) \/ TakeRecording(r)
  \/ DeleteRecordingFiles(r) \/ DeleteRecordingRow(r) \/ RecordingsDone(r)
  \/ DeleteEvents(r) \/ ReadExpected(r) \/ Walk(r) \/ CheckDisk(r)
  \/ TakeBatch(r) \/ AllFiles(r) \/ AllRows(r)

-----------------------------------------------------------------------------
(* An identity is new when no protection and no run has it.                  *)
New(t) ==
  /\ \A w \in Ways : t \notin protects[w]
  /\ \A r \in Runs : t \notin job[r].prot \cup job[r].todo \cup job[r].cur
                               \cup job[r].sub \cup job[r].one

(* exportClip finds the recording and its file; FFmpeg writes the clip's,    *)
(* over the one that an earlier export of the interval may have left.        *)
(* Bound: an interval that is listed is not exported again.                  *)
ExportBegins(c) ==
  /\ "export" \in Ops
  /\ c \notin clip \cup exporting /\ New(c)
  /\ Source[c] \in rec \cap file
  /\ exporting' = exporting \cup {c} /\ clipFile' = clipFile \cup {c}
  /\ strays' = strays \ {c}
  /\ UNCHANGED <<rec, file, clip, event, envVars, protects, job>>

(* Seconds later the file was probed and hashed: its row, if the recording   *)
(* still has one.  The runs that have listed clips before do not see it.     *)
ExportListed(c) ==
  /\ c \in exporting /\ Source[c] \in rec
  /\ exporting' = exporting \ {c} /\ clip' = clip \cup {c}
  /\ job' = [r \in Runs |->
       IF Source[c] \in job[r].cur \/ job[r].pc \in {"allFiles", "allRows"}
       THEN [job[r] EXCEPT !.late = @ \cup {c}] ELSE job[r]]
  /\ UNCHANGED <<rec, file, clipFile, strays, event, envVars, protects>>

(* FFmpeg, ffprobe, the query or its foreign key fails: nobody removes what  *)
(* was written.                                                              *)
ExportFails(c) ==
  /\ c \in exporting
  /\ exporting' = exporting \ {c}
  /\ \/ strays' = strays \cup {c} /\ UNCHANGED clipFile
     \/ clipFile' = clipFile \ {c} /\ UNCHANGED strays
  /\ UNCHANGED <<rec, file, clip, event, envVars, protects, job>>

(* What happens around the runs.  An operator replaces what a kind of        *)
(* protection names; without "unhold" it only grows.                         *)
SetProtection(w, S) ==
  /\ S # protects[w]
  /\ protects[w] \subseteq S \/ "unhold" \in Ops
  /\ S \subseteq rec \cup clip \cup event \cup protects[w]
  /\ protects' = [protects EXCEPT ![w] = S]
  /\ job' = [r \in Runs |-> [job[r] EXCEPT !.kept[w] = @ \cap S]]
  /\ UNCHANGED <<dataVars, envVars>>

(* registerSegment lists a new recording, the youngest.                      *)
Register(x) ==
  /\ x \notin rec \cup file \cup derived \cup deriving
  /\ \A y \in rec \cup file : y < x
  /\ \A c \in clipFile \cup exporting : Source[c] # x
  /\ New(x)
  /\ rec' = rec \cup {x} /\ file' = file \cup {x} /\ old' = old \ {x}
  /\ UNCHANGED <<clipVars, event, derived, deriving, cleanup, protects, job>>

(* A clip is no older than its source, which one retention governs.          *)
TimePasses(t) ==
  /\ t \in Things \ old
  /\ t \in rec \cup clip \cup event
  /\ t \in Clips => Source[t] \in old
  /\ old' = old \cup {t}
  /\ UNCHANGED <<dataVars, derived, deriving, cleanup, protects, job>>

(* The administrator turns the automatic cleaning on or off.                 *)
Switch ==
  /\ "switch" \in Ops
  /\ cleanup' = ~cleanup
  /\ UNCHANGED <<dataVars, derived, deriving, old, protects, job>>

(* A thumbnail job begins with a file that is there, and ends when FFmpeg    *)
(* is done, whatever has happened to the recording.                          *)
Derive(x) ==
  /\ "thumbs" \in Ops
  /\ \/ /\ x \in (rec \cap file) \ (derived \cup deriving)
        /\ deriving' = deriving \cup {x} /\ UNCHANGED derived
     \/ /\ x \in deriving
        /\ deriving' = deriving \ {x} /\ derived' = derived \cup {x}
  /\ UNCHANGED <<dataVars, old, cleanup, protects, job>>

Crash ==
  /\ "crash" \in Ops
  /\ job' = [r \in Runs |-> Idle]
  /\ deriving' = {}
  /\ exporting' = {} /\ strays' = strays \cup exporting
  /\ UNCHANGED <<rec, file, clip, clipFile, event, derived, old, cleanup, protects>>

-----------------------------------------------------------------------------
(* Recordings but for one still to come, some of them with clips, and events; *)
(* all of them within their retention and nothing under hold.                *)
Init ==
  /\ rec = {x \in Recordings : \E y \in Recordings : x < y}
  /\ file = rec
  /\ clip \in SUBSET {c \in Clips : Source[c] \in rec} /\ clipFile = clip
  /\ exporting = {} /\ strays = {}
  /\ event = Events
  /\ derived = {} /\ deriving = {} /\ old = {} /\ cleanup = TRUE
  /\ protects = [w \in Ways |-> {}]
  /\ job = [r \in Runs |-> Idle]

Works ==
  \/ \E r \in Runs : Begin(r) \/ BeginGuard(r) \/ RunStep(r)
  \/ \E w \in Ways, S \in Held : SetProtection(w, S)
  \/ \E x \in Recordings : Register(x) \/ Derive(x)
  \/ \E c \in Clips : ExportBegins(c) \/ ExportListed(c) \/ ExportFails(c)
  \/ \E t \in Things : TimePasses(t)
  \/ Switch

Next ==
  \/ Works
  \/ \E r \in Runs : AllBegins(r) \/ DeleteFails(r) \/ QueryFails(r)
  \/ Crash

Spec == Init /\ [][Next]_vars

(* Awaits end; the timer or the queue, and the disk check, start run after   *)
(* run (the slots for runs are the model's, hence strong fairness).  Queries *)
(* fail, the API dies and administrators delete everything finitely often; a *)
(* thumbnail that a walk tries to remove for ever goes.  Runs find the switch *)
(* on; the properties promise nothing for the time when it is off.           *)
Fairness ==
  /\ \A r \in Runs : /\ WF_vars(RunStep(r))
                     /\ SF_vars(Walk(r) /\ derived' \subseteq job[r].todo)
  /\ SF_vars(\E r \in Runs : Begin(r)) /\ SF_vars(\E r \in Runs : BeginGuard(r))
  /\ <>[][Works]_vars

FairSpec == Spec /\ Fairness

-----------------------------------------------------------------------------
Jobs ==
  [pc : PCs, guard : BOOLEAN, prot : SUBSET Things, todo : SUBSET Things,
   cur : SUBSET Recordings, sub : SUBSET Clips, one : SUBSET Clips,
   some : BOOLEAN, turn : 0 .. Iterations, late : SUBSET Clips,
   kept : [Ways -> SUBSET Things]]

(* Type invariant.                                                           *)
TypeOK ==
  /\ rec \subseteq Recordings /\ file \subseteq Recordings
  /\ clip \subseteq Clips /\ clipFile \subseteq Clips /\ event \subseteq Events
  /\ exporting \subseteq Clips /\ strays \subseteq Clips /\ cleanup \in BOOLEAN
  /\ derived \subseteq Recordings /\ deriving \subseteq Recordings
  /\ old \subseteq Things
  /\ protects \in [Ways -> SUBSET Things]
  /\ job \in [Runs -> Jobs]

(* What the step removes, whoever takes it.                                  *)
Gone == (rec \ rec') \cup (file \ file') \cup (clip \ clip') \cup (clipFile \ clipFile')
          \cup (event \ event')

RunsSpareShielded ==
  \A r \in Runs :
    job[r].pc \in {"clip", "clipRow", "sub", "recRow", "events"} /\ job'[r] # job[r]
      => Shielded(r) \cap Gone = {}

(* What is under a hold or is evidence before a run of the retention begins, *)
(* and stays so, is not touched by that run: not its row, not its file, nor  *)
(* the recording a protected clip was cut from, though the run reads the     *)
(* protections in three queries and uses them for as long as it goes on      *)
(* (retention.service.ts 57-120, 149, 154).                                  *)
HoldRespected == [][RunsSpareShielded]_vars

(* No clip's file is on disk without its row, where nobody would find it     *)
(* again, however runs, deleteAllRecordings and exports overlap: the clips   *)
(* of a recording go before the foreign key takes their rows along (151,     *)
(* 155).  The exceptions are those of the code: a file whose export is       *)
(* under way, has failed or was cut short by a restart (1567-1588), one that *)
(* could not be removed (138-143), and one whose row was written after a     *)
(* run had listed the clips of its recording, or deleteAllRecordings all,    *)
(* and before that run deleted the recording (151-163).                      *)
ClipFilesListed == clipFile \subseteq clip \cup exporting \cup strays

(* As long as the automatic cleaning is on, a recording past its retention   *)
(* that nothing protects leaves the list, among them one whose file is gone  *)
(* and whose row an earlier run could not delete, or died before it deleted  *)
(* (212-220, 145-165).                                                       *)
ExpiredGo ==
  \A x \in Recordings :
    (x \in rec \cap old) ~> (x \notin rec \/ x \in Protected \/ ~cleanup)

(* When the disk is fuller than the trigger and the automatic cleaning is    *)
(* on, the guard makes room, or nothing is left that it may delete; rows     *)
(* without a file and files that could not be removed do not end its loop    *)
(* early (297-335).                                                          *)
PressureRelieved ==
  (Usage > Trigger) ~> (Usage <= Trigger \/ rec \subseteq Protected \/ ~cleanup)

(* Thumbnails of deleted recordings do not stay (240-288): one that is       *)
(* written after the deletion is found by a later walk, while the automatic  *)
(* cleaning is on.                                                           *)
DerivedGo ==
  \A x \in Recordings : (x \in derived \ rec) ~> (x \notin derived \/ ~cleanup)

=============================================================================
