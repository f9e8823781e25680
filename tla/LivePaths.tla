------------------------------ MODULE LivePaths ------------------------------
(***************************************************************************)
(* The live paths: MediaMTX serves a camera's video under a path that the  *)
(* API configures on demand. pathEnsureCache remembers for 30 s that a     *)
(* path was configured, pathEnsureInFlight lets requests for one path      *)
(* share a configuration. MediaMTX keeps the paths in memory only; the     *)
(* watchdog configures them again when most are gone, and resets a path    *)
(* that is stuck. Disabling a camera tears its paths down.                 *)
(*                                                                         *)
(* A call is one ensurePathForCamera with the handler that awaits it, or   *)
(* the PATCH that disables a camera. Each step ends at an await.           *)
(***************************************************************************)
EXTENDS Naturals, FiniteSets

CONSTANTS
    Cameras,
    Modes,      \* delivery modes in use in this instance, the grid among them
    Sources,    \* what a camera's row makes of a path: its source and settings
    Calls,      \* names for calls that are not over (a bound on them)
    None,
    Viewed,     \* the paths somebody keeps asking for, for liveness
    Ops         \* what may happen besides requests for live video

ASSUME ModesAssumption == {"grid"} \subseteq Modes /\ Modes \subseteq {"selected", "grid", "original"}
ASSUME NamesAssumption ==
    /\ IsFiniteSet(Cameras)
    /\ None \notin Calls /\ None \notin Sources /\ None \notin Cameras \X Modes
ASSUME ViewedAssumption == Viewed \subseteq Cameras \X Modes
ASSUME OpsAssumption ==
    Ops \subseteq {"edit", "switch", "advise", "stuck", "apiFails", "getFails", "dbFails", "mediaRestart",
            "apiRestart"}

Keys == Cameras \X Modes

VARIABLES
    row,        \* row[c]: enabled, and the source the row asks for
    path,       \* path[k]: the source of MediaMTX's path, None if it has none
    cached,     \* pathEnsureCache has an entry for k younger than 30 s
    inFlight,   \* pathEnsureInFlight.get(k): the call that configures
    call,       \* call[c]: the await a call is at, and its locals
    recovering, \* the watchdog resets a path
    listed,     \* the grid paths the watchdog's tick was told of, None between ticks
    toWarm,     \* the cameras a warm-up has still to ensure
    stray       \* history: the paths for which the teardown of a camera that was switched
                \* off failed, was cut short, or met a configuration past the gate

cacheVars == <<cached, inFlight>>
watchVars == <<recovering, listed, toWarm, stray>>
vars == <<row, path, cached, inFlight, call, recovering, listed, toWarm, stray>>

\* gate: the row is read; get, delete, post: requests to MediaMTX; blind: the DELETE after
\* a GET that failed; down: teardown of the modes in left; stop: the recording is stopped
\* before it; reset: the watchdog's DELETE; wait: for the configuration of call on.
PCs == {"idle", "gate", "get", "delete", "blind", "post", "down", "stop", "reset", "wait"}
Gated == {"get", "delete", "blind", "post"}
Idle == [pc |-> "idle", kind |-> "open", key |-> None, wants |-> None, left |-> {}, on |-> None]

TypeOK ==
    /\ row \in [Cameras -> [enabled : BOOLEAN, source : Sources]]
    /\ path \in [Keys -> Sources \cup {None}]
    /\ cached \in [Keys -> BOOLEAN]
    /\ inFlight \in [Keys -> Calls \cup {None}]
    /\ call \in [Calls -> [pc : PCs, kind : {"open", "reset", "disable"},
                           key : Keys \cup {None}, wants : Sources \cup {None},
                           left : SUBSET Modes, on : Calls \cup {None}]]
    /\ \A c \in Calls : /\ call[c].pc # "idle" => call[c].key # None
                        /\ call[c].pc \in Gated => call[c].wants # None
                        /\ call[c].pc = "down" => call[c].left # {}
    /\ recovering \in BOOLEAN
    /\ listed \in (SUBSET Cameras) \cup {None}
    /\ toWarm \subseteq Cameras
    /\ stray \subseteq Keys

-----------------------------------------------------------------------------
\* Helpers

\* The order of teardownPathsForCamera.
Rank == [selected |-> 1, grid |-> 2, original |-> 3]
First(M) == CHOOSE m \in M : \A n \in M : Rank[m] <= Rank[n]

Camera(c) == call[c].key[1]
OfCamera(k, cam) == k[1] = cam
Enabled == {cam \in Cameras : row[cam].enabled}

\* invalidateMainCodecCache.
Invalidate(cam) ==
    /\ cached' = [k \in Keys |-> cached[k] /\ ~OfCamera(k, cam)]
    /\ inFlight' = [k \in Keys |-> IF OfCamera(k, cam) THEN None ELSE inFlight[k]]

\* A call is over, and with it those that await it; the watchdog's finally block.
Over(c) ==
    LET ended == {c} \cup {q \in Calls : call[q].on = c} IN
    /\ call' = [q \in Calls |-> IF q \in ended THEN Idle ELSE call[q]]
    /\ recovering' = (recovering /\ \A q \in ended : call[q].kind # "reset")

\* Mutant: a configuration that failed is not taken out of pathEnsureInFlight.
SettleLeaving(c, ok) ==
    LET k == call[c].key IN
    /\ cached' = IF ok THEN [cached EXCEPT ![k] = TRUE] ELSE cached
    /\ inFlight' = IF ok /\ inFlight[k] = c THEN [inFlight EXCEPT ![k] = None] ELSE inFlight
    /\ Over(c)

\* The configuration's promise settles: then() caches the result, finally() takes
\* the promise out of pathEnsureInFlight if it is still the one there.
Settle(c, ok) ==
    LET k == call[c].key IN
    /\ cached' = IF ok THEN [cached EXCEPT ![k] = TRUE] ELSE cached
    /\ inFlight' = IF inFlight[k] = c THEN [inFlight EXCEPT ![k] = None] ELSE inFlight
    /\ Over(c)

\* Mutant: a configuration in flight is not looked for.
EnsureAlone(c, k, kind) ==
    /\ ~cached[k]
    /\ inFlight' = [inFlight EXCEPT ![k] = c]
    /\ call' = [call EXCEPT ![c] = [Idle EXCEPT !.pc = "gate", !.kind = kind, !.key = k]]

\* ensurePathForCamera with no young entry in the cache: the configuration in
\* flight is awaited, or one is started. (With one, it answers at once.)
Ensure(c, k, kind) ==
    /\ ~cached[k]
    /\ IF inFlight[k] # None
       THEN /\ call' = [call EXCEPT ![c] = [Idle EXCEPT !.pc = "wait", !.kind = kind, !.key = k,
                                                        !.on = inFlight[k]]]
            /\ UNCHANGED inFlight
       ELSE /\ call' = [call EXCEPT ![c] = [Idle EXCEPT !.pc = "gate", !.kind = kind, !.key = k]]
            /\ inFlight' = [inFlight EXCEPT ![k] = c]

At(c, l) == call[c].pc = l
Goto(c, l) == call' = [call EXCEPT ![c].pc = l]

\* teardownPathsForCamera begins: the first mode's cache entry goes, its DELETE is sent.
BeginTearDown(c) ==
    /\ call' = [call EXCEPT ![c].pc = "down", ![c].left = Modes]
    /\ cached' = [cached EXCEPT ![<<Camera(c), First(Modes)>>] = FALSE]

-----------------------------------------------------------------------------
\* Requests

\* Somebody wants a path: the live page, the FLV stream, the AI, a provisioning. The
\* live page asks for no camera it has read as disabled, the others do not look.
Open(c, k) ==
    /\ At(c, "idle")
    /\ Ensure(c, k, "open")
    /\ UNCHANGED <<row, path, cached, watchVars>>

\* Mutant: the gate lets every camera pass.
GateOpen(c) ==
    /\ At(c, "gate")
    /\ call' = [call EXCEPT ![c].pc = "get", ![c].wants = row[Camera(c)].source]
    /\ UNCHANGED <<row, path, cacheVars, watchVars>>

\* configurePathForCamera reads the row. A disabled camera's paths are torn down;
\* for an enabled one the source is probed, for seconds.
Gate(c) ==
    /\ At(c, "gate")
    /\ IF row[Camera(c)].enabled
       THEN /\ call' = [call EXCEPT ![c].pc = "get", ![c].wants = row[Camera(c)].source]
            /\ UNCHANGED cached
       ELSE BeginTearDown(c)
    /\ UNCHANGED <<row, path, inFlight, watchVars>>

\* The row cannot be read, or is gone.
GateFails(c) ==
    /\ "dbFails" \in Ops
    /\ At(c, "gate")
    /\ Settle(c, FALSE)
    /\ UNCHANGED <<row, path, listed, toWarm, stray>>

\* MediaMTX is asked for the path: one with the wanted settings is left as it is.
GetSame(c) ==
    /\ At(c, "get")
    /\ path[call[c].key] = call[c].wants
    /\ Settle(c, TRUE)
    /\ UNCHANGED <<row, path, listed, toWarm, stray>>

GetOther(c) ==
    /\ At(c, "get")
    /\ path[call[c].key] # call[c].wants
    /\ Goto(c, "delete")
    /\ UNCHANGED <<row, path, cacheVars, watchVars>>

\* A GET that fails is taken for a path that is not there.
GetFails(c) ==
    /\ "getFails" \in Ops
    /\ At(c, "get")
    /\ Goto(c, "blind")
    /\ UNCHANGED <<row, path, cacheVars, watchVars>>

\* The old path is deleted; that this fails is ignored.
DeletePath(c) ==
    /\ At(c, "delete") \/ At(c, "blind")
    /\ \/ path' = [path EXCEPT ![call[c].key] = None]
       \/ "apiFails" \in Ops /\ UNCHANGED path
    /\ Goto(c, "post")
    /\ UNCHANGED <<row, cacheVars, watchVars>>

\* MediaMTX adds the path,
PostPath(c) ==
    /\ At(c, "post")
    /\ path[call[c].key] = None
    /\ path' = [path EXCEPT ![call[c].key] = call[c].wants]
    /\ Settle(c, TRUE)
    /\ UNCHANGED <<row, listed, toWarm, stray>>

\* or refuses, for one that exists already, or does not answer within 5 s, having
\* added it or not.
PostFails(c) ==
    /\ At(c, "post")
    /\ \/ path[call[c].key] # None /\ UNCHANGED path
       \/ "apiFails" \in Ops /\ UNCHANGED path
       \/ /\ "apiFails" \in Ops /\ path[call[c].key] = None
          /\ path' = [path EXCEPT ![call[c].key] = call[c].wants]
    /\ Settle(c, FALSE)
    /\ UNCHANGED <<row, listed, toWarm, stray>>

\* The DELETE of one mode is answered: the next mode's turn; after the last one the
\* camera's entries go once more, and the handler ends, or the gate throws.
TornDown(c) ==
    LET left == call[c].left \ {First(call[c].left)} IN
    IF left # {}
    THEN /\ call' = [call EXCEPT ![c].left = left]
         /\ cached' = [cached EXCEPT ![<<Camera(c), First(left)>>] = FALSE]
         /\ UNCHANGED <<inFlight, recovering>>
    ELSE Invalidate(Camera(c)) /\ Over(c)

\* The mode whose DELETE call c waits for.
Falling(c) == <<Camera(c), First(call[c].left)>>
\* A configuration of k has read the row.
PastGate(k) == \E c \in Calls : call[c].pc \in Gated /\ call[c].key = k

TearDown(c) ==
    /\ At(c, "down")
    /\ path' = [path EXCEPT ![Falling(c)] = None]
    /\ TornDown(c)
    /\ stray' = {k \in stray : k # Falling(c) \/ PastGate(k)}
    /\ UNCHANGED <<row, listed, toWarm>>

\* The DELETE fails, which is ignored.
TearDownFails(c) ==
    /\ "apiFails" \in Ops
    /\ At(c, "down")
    /\ TornDown(c)
    /\ stray' = stray \cup {k \in {Falling(c)} : path[k] # None /\ ~row[Camera(c)].enabled}
    /\ UNCHANGED <<row, path, listed, toWarm>>

-----------------------------------------------------------------------------
\* Cameras

\* PATCH with enabled: false; the recording is stopped first.
Disable(c, cam) ==
    /\ "switch" \in Ops
    /\ At(c, "idle") /\ row[cam].enabled
    /\ row' = [row EXCEPT ![cam].enabled = FALSE]
    /\ call' = [call EXCEPT ![c] = [Idle EXCEPT !.pc = "stop", !.kind = "disable",
                                                !.key = <<cam, "grid">>]]
    /\ stray' = stray \cup {k \in Keys : OfCamera(k, cam) /\ PastGate(k)}
    /\ UNCHANGED <<path, cacheVars, recovering, listed, toWarm>>

Stopped(c) ==
    /\ At(c, "stop")
    /\ BeginTearDown(c)
    /\ UNCHANGED <<row, path, inFlight, watchVars>>

\* PATCH with enabled: true; the provisioning it schedules is an Open.
Enable(cam) ==
    /\ "switch" \in Ops
    /\ ~row[cam].enabled
    /\ row' = [row EXCEPT ![cam].enabled = TRUE]
    /\ stray' = {k \in stray : ~OfCamera(k, cam)}
    /\ UNCHANGED <<path, cacheVars, call, recovering, listed, toWarm>>

\* PATCH of what the path depends on: no path is touched.
Edit(cam) ==
    /\ "edit" \in Ops
    /\ \E s \in Sources \ {row[cam].source} : row' = [row EXCEPT ![cam].source = s]
    /\ UNCHANGED <<path, cacheVars, call, watchVars>>

\* The stream advisor writes the row, with settings that may or may not change this
\* path's source, and drops what is cached of the camera.
Advise(cam) ==
    /\ "advise" \in Ops
    /\ \E s \in Sources : row' = [row EXCEPT ![cam].source = s]
    /\ Invalidate(cam)
    /\ UNCHANGED <<path, call, watchVars>>

-----------------------------------------------------------------------------
\* The watchdog

\* A tick asks MediaMTX for its paths,
Tick ==
    /\ listed = None
    /\ listed' = {cam \in Cameras : path[<<cam, "grid">>] # None}
    /\ UNCHANGED <<row, path, cacheVars, call, recovering, toWarm, stray>>

\* Mutant: more than the threshold must be missing.
ReconcileStrictly ==
    /\ listed # None
    /\ LET missing == Enabled \ listed IN
       IF Cardinality(missing) > 2 /\ 2 * Cardinality(missing) > Cardinality(Enabled)
       THEN cached' = [k \in Keys |-> FALSE] /\ toWarm' = toWarm \cup Enabled
       ELSE UNCHANGED <<cached, toWarm>>
    /\ listed' = None
    /\ UNCHANGED <<row, path, inFlight, call, recovering, stray>>

\* and reads the cameras: when half of the enabled ones, two at least, have no grid
\* path, the cache is cleared and the grid paths are warmed up.
Reconcile ==
    /\ listed # None
    /\ LET missing == Enabled \ listed IN
       IF Cardinality(missing) >= 2 /\ 2 * Cardinality(missing) >= Cardinality(Enabled)
       THEN cached' = [k \in Keys |-> FALSE] /\ toWarm' = toWarm \cup Enabled
       ELSE UNCHANGED <<cached, toWarm>>
    /\ listed' = None
    /\ UNCHANGED <<row, path, inFlight, call, recovering, stray>>

\* A worker of the warm-up takes the next camera.
WarmNext(c, cam) ==
    /\ At(c, "idle") /\ cam \in toWarm
    /\ toWarm' = toWarm \ {cam}
    /\ \/ cached[<<cam, "grid">>] /\ UNCHANGED <<inFlight, call>>
       \/ Ensure(c, <<cam, "grid">>, "open")
    /\ UNCHANGED <<row, path, cached, recovering, listed, stray>>

\* Three ticks saw readers and no progress: the path is reset, one path at a time.
ResetBegins(c, k) ==
    /\ "stuck" \in Ops
    /\ At(c, "idle") /\ path[k] # None
    /\ ~recovering
    /\ recovering' = TRUE
    /\ Invalidate(k[1])
    /\ call' = [call EXCEPT ![c] = [Idle EXCEPT !.pc = "reset", !.kind = "reset", !.key = k]]
    /\ UNCHANGED <<row, path, listed, toWarm, stray>>

\* The path is deleted, or not, and ensured.
ResetDelete(c) ==
    /\ At(c, "reset")
    /\ \/ path' = [path EXCEPT ![call[c].key] = None]
       \/ "apiFails" \in Ops /\ UNCHANGED path
    /\ \/ cached[call[c].key] /\ Over(c) /\ UNCHANGED inFlight
       \/ Ensure(c, call[c].key, "reset") /\ UNCHANGED recovering
    /\ UNCHANGED <<row, cached, listed, toWarm, stray>>

-----------------------------------------------------------------------------
\* Time and restarts

\* Mutant: an entry of pathEnsureCache has no age.
ExpireNever(k) == FALSE /\ cached[k] /\ UNCHANGED vars

\* PATH_ENSURE_TTL_MS has passed.
Expire(k) ==
    /\ cached[k]
    /\ cached' = [cached EXCEPT ![k] = FALSE]
    /\ UNCHANGED <<row, path, inFlight, call, watchVars>>

\* MediaMTX's container is recreated: it comes up with no camera's path.
MediaRestart ==
    /\ "mediaRestart" \in Ops
    /\ path' = [k \in Keys |-> None]
    /\ UNCHANGED <<row, cacheVars, call, watchVars>>

\* The path k waits for its turn in a teardown.
Doomed(k) == \E c \in Calls : /\ call[c].key # None /\ OfCamera(k, Camera(c))
                              /\ At(c, "stop") \/ (At(c, "down") /\ k[2] \in call[c].left)

\* The API restarts and warms up the grid paths of the enabled cameras.
ApiRestart ==
    /\ "apiRestart" \in Ops
    /\ cached' = [k \in Keys |-> FALSE]
    /\ inFlight' = [k \in Keys |-> None]
    /\ call' = [c \in Calls |-> Idle]
    /\ recovering' = FALSE /\ listed' = None
    /\ toWarm' = Enabled
    /\ stray' = stray \cup {k \in Keys : Doomed(k) /\ path[k] # None /\ ~row[k[1]].enabled}
    /\ UNCHANGED <<row, path>>

-----------------------------------------------------------------------------
Init ==
    /\ row \in [Cameras -> [enabled : {TRUE}, source : Sources]]
    /\ path = [k \in Keys |-> None]
    /\ cached = [k \in Keys |-> FALSE]
    /\ inFlight = [k \in Keys |-> None]
    /\ call = [c \in Calls |-> Idle]
    /\ recovering = FALSE /\ listed = None
    /\ toWarm = Cameras
    /\ stray = {}

CallStep(c) ==
    \/ Gate(c) \/ GateFails(c) \/ GetSame(c) \/ GetOther(c) \/ GetFails(c) \/ DeletePath(c)
    \/ PostPath(c) \/ PostFails(c) \/ TearDown(c) \/ TearDownFails(c) \/ Stopped(c) \/ ResetDelete(c)

Works ==
    \/ \E c \in Calls : CallStep(c)
    \/ \E c \in Calls, k \in Keys : Open(c, k) \/ ResetBegins(c, k)
    \/ \E c \in Calls, cam \in Cameras : Disable(c, cam) \/ WarmNext(c, cam)
    \/ \E cam \in Cameras : Enable(cam) \/ Edit(cam) \/ Advise(cam)
    \/ Tick \/ Reconcile
    \/ \E k \in Keys : Expire(k)
    \/ MediaRestart

Next == Works \/ ApiRestart

Spec == Init /\ [][Next]_vars

\* Awaits end, ticks come, a warm-up goes on. A read of the row or a request to MediaMTX
\* that is repeated for ever succeeds in the end; the API does not restart for ever.
Fairness ==
    /\ \A c \in Calls : WF_vars(CallStep(c))
    /\ WF_vars(Tick) /\ WF_vars(Reconcile)
    /\ \A cam \in Cameras : SF_vars(\E c \in Calls : WarmNext(c, cam))
    /\ SF_vars(\E c \in Calls : Gate(c)) /\ SF_vars(\E c \in Calls : PostPath(c))
    /\ <>[][Works]_vars

FairSpec == Spec /\ Fairness

\* Somebody keeps asking for the paths of Viewed while their cameras are enabled: the
\* live page refuses a disabled one before it asks. Nothing is assumed of the watchdog.
ViewedFairness ==
    /\ \A c \in Calls : WF_vars(CallStep(c))
    /\ \A k \in Viewed :
        /\ WF_vars(Expire(k))
        /\ SF_vars(row[k[1]].enabled /\ \E c \in Calls : Open(c, k))
        /\ SF_vars(\E c \in Calls : call[c].key = k /\ PostPath(c))
    /\ <>[][Works]_vars

ViewedSpec == Spec /\ ViewedFairness

-----------------------------------------------------------------------------
\* Properties

Configuring(c) ==
    call[c].pc \in Gated \cup {"gate", "down"} /\ call[c].kind # "disable"

\* What later requests for a path join, and what those that joined await, is a
\* configuration of that path that will still settle.
NoDeadPromise ==
    /\ \A k \in Keys : inFlight[k] # None =>
         Configuring(inFlight[k]) /\ call[inFlight[k]].key = k
    /\ \A c \in Calls : At(c, "wait") =>
         Configuring(call[c].on) /\ call[call[c].on].key = call[c].key

\* "Só recria quando a configuração mudou; recriar em toda leitura derruba muxers
\* HLS/WebRTC ativos" (1090): no request deletes a path that has the settings it wants,
\* as long as nobody drops the entry of a configuration in flight. The exception, which
\* the comment in the code does not make: one whose GET failed or timed out takes the
\* path for absent (1086-1088), stands at "blind" and does delete it (1092).
NoNeedlessRecreate ==
    \A c \in Calls : At(c, "delete") => path[call[c].key] # call[c].wants

\* "Aqui o watchdog reconcilia sozinho": when no enabled camera has its grid path,
\* one comes back without anybody opening it.
AllLost == Cardinality(Enabled) >= 2 /\ \A cam \in Enabled : path[<<cam, "grid">>] = None
LostComeBack == AllLost ~> ~AllLost

\* A path that is asked for again and again comes to exist, whatever was deleted,
\* restarted or cached meanwhile.
OpenedComesBack ==
    \A k \in Viewed : row[k[1]].enabled /\ path[k] = None ~> path[k] # None \/ ~row[k[1]].enabled

\* "Câmera desativada não ganha path": a disabled camera has a path only while a
\* teardown has still to come to it, or where the teardown failed, was cut short by a
\* restart, or met a configuration that had passed the gate before the camera was
\* switched off. Such a path may stay: nobody has to ask for it again.
DisabledIsDark ==
    \A k \in Keys : ~row[k[1]].enabled /\ path[k] # None => Doomed(k) \/ k \in stray
=============================================================================
