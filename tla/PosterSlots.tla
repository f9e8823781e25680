----------------------------- MODULE PosterSlots -----------------------------
(***************************************************************************)
(* The live poster: one JPEG of a camera, captured by FFmpeg, kept in a    *)
(* cache and refreshed behind the request that finds it old. Requests for  *)
(* one camera share a capture (posterInFlight); captures of different      *)
(* cameras share posterMaxConcurrency slots (withPosterCaptureSlot).       *)
(*                                                                         *)
(* A call is one getLivePosterFrame. The capture a call starts goes on     *)
(* under the call's name, also after the call was answered from the cache. *)
(* The handlers run to their next await; a step here is such a stretch.    *)
(***************************************************************************)
EXTENDS Naturals, Sequences, FiniteSets

CONSTANTS
    Cameras,
    Calls,      \* names for calls that are not over (a bound on them)
    None,
    Max         \* posterMaxConcurrency

ASSUME MaxAssumption == Max \in Nat \ {0}
ASSUME CallsAssumption == IsFiniteSet(Calls) /\ None \notin Calls

VARIABLES
    active,     \* posterActiveCaptures
    waiters,    \* posterCaptureWaiters
    job,        \* job[k]: how far the capture that call k started has come
    cam,        \* cam[k]: the camera it is of
    waits,      \* waits[k]: the capture whose promise call k awaits
    inFlight,   \* posterInFlight.get(c): the call that started the capture
    cache       \* posterCache.get(c): none, fresh, or older than the TTL

slotVars == <<active, waiters>>
vars == <<active, waiters, job, cam, waits, inFlight, cache>>

\* waiting: in posterCaptureWaiters; granted: its resolve was called, it has not
\* run yet; ended: the capture is over, the finally block has not run yet;
\* settled: the slot is given back, posterInFlight still names the capture.
Stages == {"none", "waiting", "granted", "capture", "ended", "settled"}

TypeOK ==
    /\ active \in 0..Max
    /\ waiters \in Seq(Calls)
    /\ job \in [Calls -> Stages]
    /\ cam \in [Calls -> Cameras]
    /\ waits \in [Calls -> Calls \cup {None}]
    /\ inFlight \in [Cameras -> Calls \cup {None}]
    /\ cache \in [Cameras -> {"none", "fresh", "stale"}]

Goto(k, l) == job' = [job EXCEPT ![k] = l]

-----------------------------------------------------------------------------
\* withPosterCaptureSlot up to its first await: a free slot is taken, and the
\* capture begins at once, or the call gets in line.
Acquire(k) ==
    IF active < Max
    THEN active' = active + 1 /\ Goto(k, "capture") /\ UNCHANGED waiters
    ELSE waiters' = Append(waiters, k) /\ Goto(k, "waiting") /\ UNCHANGED active

\* The capture of camera c that call k starts.
StartCapture(k, c) ==
    /\ Acquire(k)
    /\ cam' = [cam EXCEPT ![k] = c]
    /\ inFlight' = [inFlight EXCEPT ![c] = k]

Over(k) == job[k] = "none" /\ waits[k] = None

\* Mutant: a refresh does not look for one that is running.
RefreshAnyway(k, c) ==
    /\ Over(k)
    /\ cache[c] = "stale"
    /\ StartCapture(k, c)
    /\ UNCHANGED <<waits, cache>>

\* getLivePosterFrame finds an old frame: it is the answer, and a capture is
\* started unless one is running. (A fresh frame is the answer, and that is all.)
Refresh(k, c) ==
    /\ Over(k)
    /\ cache[c] = "stale"
    /\ inFlight[c] = None
    /\ StartCapture(k, c)
    /\ UNCHANGED <<waits, cache>>

\* It finds no frame: the call awaits the running capture,
Join(k, c) ==
    /\ Over(k)
    /\ cache[c] = "none"
    /\ inFlight[c] # None
    /\ waits' = [waits EXCEPT ![k] = inFlight[c]]
    /\ UNCHANGED <<slotVars, job, cam, inFlight, cache>>

\* or one of its own.
First(k, c) ==
    /\ Over(k)
    /\ cache[c] = "none"
    /\ inFlight[c] = None
    /\ StartCapture(k, c)
    /\ waits' = [waits EXCEPT ![k] = k]
    /\ UNCHANGED cache

-----------------------------------------------------------------------------
\* A waiter runs on after its resolve was called: it does not count itself, the
\* slot it was handed is counted.
Resume(k) ==
    /\ job[k] = "granted"
    /\ Goto(k, "capture")
    /\ UNCHANGED <<slotVars, cam, waits, inFlight, cache>>

\* generateLivePosterFrame: an FFmpeg brings a frame, or none of the URLs and
\* transports does and the old frame, if there is one, stands in. The camera may
\* be disabled: only the grid's URL is then left out, the direct URLs are tried.
CaptureEnds(k) ==
    /\ job[k] = "capture"
    /\ \/ cache' = [cache EXCEPT ![cam[k]] = "fresh"]
       \/ UNCHANGED cache
    /\ Goto(k, "ended")
    /\ UNCHANGED <<slotVars, cam, waits, inFlight>>

\* Mutant: the first in line is woken and the slot is counted as free.
ReleaseTwice(k) ==
    /\ job[k] = "ended"
    /\ active' = active - 1
    /\ IF waiters # <<>>
       THEN /\ job' = [job EXCEPT ![k] = "settled", ![Head(waiters)] = "granted"]
            /\ waiters' = Tail(waiters)
       ELSE /\ Goto(k, "settled")
            /\ UNCHANGED waiters
    /\ UNCHANGED <<cam, waits, inFlight, cache>>

\* Mutant: the slot is counted as free and nobody is woken.
ReleaseQuietly(k) ==
    /\ job[k] = "ended"
    /\ active' = active - 1
    /\ Goto(k, "settled")
    /\ UNCHANGED <<waiters, cam, waits, inFlight, cache>>

\* Mutant: the last in line is woken.
ReleaseLast(k) ==
    /\ job[k] = "ended"
    /\ IF waiters # <<>>
       THEN /\ job' = [job EXCEPT ![k] = "settled", ![waiters[Len(waiters)]] = "granted"]
            /\ waiters' = SubSeq(waiters, 1, Len(waiters) - 1)
            /\ UNCHANGED active
       ELSE /\ active' = active - 1
            /\ Goto(k, "settled")
            /\ UNCHANGED waiters
    /\ UNCHANGED <<cam, waits, inFlight, cache>>

\* The finally block: the slot goes to the first in line, or becomes free.
Release(k) ==
    /\ job[k] = "ended"
    /\ IF waiters # <<>>
       THEN /\ job' = [job EXCEPT ![k] = "settled", ![Head(waiters)] = "granted"]
            /\ waiters' = Tail(waiters)
            /\ UNCHANGED active
       ELSE /\ active' = active - 1
            /\ Goto(k, "settled")
            /\ UNCHANGED waiters
    /\ UNCHANGED <<cam, waits, inFlight, cache>>

\* The capture's promise settles, well or badly: posterInFlight forgets it, and
\* the calls that await it are answered.
Settle(k) ==
    /\ job[k] = "settled"
    /\ Goto(k, "none")
    /\ inFlight' = [inFlight EXCEPT ![cam[k]] = None]
    /\ waits' = [q \in Calls |-> IF waits[q] = k THEN None ELSE waits[q]]
    /\ UNCHANGED <<slotVars, cam, cache>>

-----------------------------------------------------------------------------
\* livePosterCacheTtlMs has passed.
Expire(c) ==
    /\ cache[c] = "fresh"
    /\ cache' = [cache EXCEPT ![c] = "stale"]
    /\ UNCHANGED <<slotVars, job, cam, waits, inFlight>>

Init ==
    /\ active = 0 /\ waiters = <<>>
    /\ job = [k \in Calls |-> "none"]
    /\ cam \in [Calls -> Cameras] /\ \A j, k \in Calls : cam[j] = cam[k]
    /\ waits = [k \in Calls |-> None]
    /\ inFlight = [c \in Cameras |-> None]
    /\ cache = [c \in Cameras |-> "none"]

Request(k) == \E c \in Cameras : Refresh(k, c) \/ Join(k, c) \/ First(k, c)
JobStep(k) == Resume(k) \/ CaptureEnds(k) \/ Release(k) \/ Settle(k)

Next ==
    \/ \E k \in Calls : Request(k) \/ JobStep(k)
    \/ \E c \in Cameras : Expire(c)

Spec == Init /\ [][Next]_vars

\* A capture ends: each of its FFmpegs has a timeout. Promises settle.
FairSpec == Spec /\ \A k \in Calls : WF_vars(JobStep(k))

-----------------------------------------------------------------------------
\* Properties

\* The captures that hold a slot.
Holders == {k \in Calls : job[k] \in {"granted", "capture", "ended"}}

\* The pool's two variables stand for a pool of Max slots with a line.
Pool == INSTANCE Slots WITH Callers <- Calls, holders <- Holders, line <- waiters

\* posterActiveCaptures and posterCaptureWaiters keep what Slots promises: at most
\* Max captures, none in line while a slot is free, first come first served.
SlotsSpec == Pool!Spec

\* Never more FFmpegs than slots, whatever arrives between a release and the
\* moment the waiter that got the slot runs.
CapturesBounded == Cardinality(Holders) <= Max

\* A camera is never captured twice at a time, and the capture that runs is the
\* one a new request would join.
OneCapturePerCamera == \A k \in Calls : job[k] # "none" => inFlight[cam[k]] = k

\* A call that awaits a capture is answered.
CallsAnswered == \A k \in Calls : waits[k] # None ~> waits[k] = None
=============================================================================
