--------------------------- MODULE LivePathsProofs ---------------------------
(***************************************************************************)
(* LivePaths for any number of cameras, calls and sources: the types, the  *)
(* promises that are joined, that the watchdog resets one path at a time,  *)
(* that a disabled camera is dark, and, where nothing drops a configuration *)
(* in flight, that no path is made again in vain.                          *)
(*                                                                         *)
(* A call that is over ends those that await it. For NoDeadPromise to be   *)
(* kept, these must be at their await (Awaiting); otherwise a joined       *)
(* configuration could be ended by mistake. NoNeedlessRecreate needs that  *)
(* a configuration is the one in flight for its path (Alone).              *)
(* DisabledIsDark needs to know which configurations had passed the gate   *)
(* when a camera was switched off (GatedAreStray).                         *)
(***************************************************************************)
EXTENDS LivePaths, TLAPS

USE DEF Gated

Awaiting == \A c \in Calls : call[c].on # None <=> At(c, "wait")
PromiseInv == TypeOK /\ Awaiting /\ NoDeadPromise

-----------------------------------------------------------------------------
\* The mode whose turn it is in a teardown is one of those left.
LEMMA FirstIsLeft ==
    ASSUME NEW M \in SUBSET Modes, M # {}
    PROVE  First(M) \in M
<1>1. M \subseteq {"selected", "grid", "original"}
  BY ModesAssumption
<1>2. \E m \in M : \A n \in M : Rank[m] <= Rank[n]
  <2>1. Rank["selected"] = 1 /\ Rank["grid"] = 2 /\ Rank["original"] = 3
    BY DEF Rank
  <2>2. CASE "selected" \in M
    <3>1. \A n \in M : Rank["selected"] <= Rank[n]
      BY <1>1, <2>1
    <3> QED
      BY <2>2, <3>1
  <2>3. CASE "selected" \notin M /\ "grid" \in M
    <3>1. \A n \in M : n = "grid" \/ n = "original"
      BY <1>1, <2>3
    <3>2. \A n \in M : Rank["grid"] <= Rank[n]
      BY <2>1, <3>1
    <3> QED
      BY <2>3, <3>2
  <2>4. CASE "selected" \notin M /\ "grid" \notin M
    <3>1. \A n \in M : n = "original"
      BY <1>1, <2>4
    <3>2. \A n \in M : Rank["original"] <= Rank[n]
      BY <2>1, <3>1
    <3> QED
      BY <3>1, <3>2
  <2> QED
    BY <2>2, <2>3, <2>4
<1> QED
  BY <1>2 DEF First

\* Modes are there to be torn down.
LEMMA ModesLeft == Modes # {} /\ First(Modes) \in Modes
<1>1. Modes # {}
  BY ModesAssumption
<1> QED
  BY <1>1, FirstIsLeft

\* The fields of a call that is over.
LEMMA IdleCall ==
    /\ Idle.pc = "idle" /\ Idle.kind = "open" /\ Idle.key = None /\ Idle.wants = None
    /\ Idle.left = {} /\ Idle.on = None
BY DEF Idle

CallType == [pc : PCs, kind : {"open", "reset", "disable"}, key : Keys \cup {None},
             wants : Sources \cup {None}, left : SUBSET Modes, on : Calls \cup {None}]
CallOK(q) == /\ q.pc # "idle" => q.key # None
             /\ q.pc \in Gated => q.wants # None
             /\ q.pc = "down" => q.left # {}

\* The calls' part of the types.
CallsOK == call \in [Calls -> CallType] /\ \A c \in Calls : CallOK(call[c])

\* The types of the state include those of the calls.
LEMMA CallTypes == TypeOK => CallsOK
BY DEF TypeOK, CallsOK, CallType, CallOK

\* A call that is not idle is about a path.
LEMMA CallKey ==
    ASSUME TypeOK, NEW c \in Calls, call[c].pc # "idle"
    PROVE  call[c].key \in Keys /\ Camera(c) \in Cameras
BY DEF TypeOK, Keys, Camera

\* The path whose teardown a call waits for is one of its camera's.
LEMMA FallingKey ==
    ASSUME TypeOK, NEW c \in Calls, At(c, "down")
    PROVE  /\ Falling(c) \in Keys /\ Falling(c)[1] = Camera(c)
           /\ First(call[c].left) \in call[c].left
<1>1. call[c].left \in SUBSET Modes /\ call[c].left # {}
  BY DEF TypeOK, At
<1>2. First(call[c].left) \in call[c].left
  BY <1>1, FirstIsLeft
<1> QED
  BY <1>1, <1>2, CallKey DEF Falling, Keys, At

\* A call that is over has its type.
LEMMA IdleTyped == Idle \in CallType /\ CallOK(Idle)
BY DEF Idle, CallType, CallOK, PCs

\* One call gets a new value.
LEMMA CallChanges ==
    ASSUME TypeOK, NEW c \in Calls, NEW r \in CallType, CallOK(r),
           call' = [call EXCEPT ![c] = r]
    PROVE  CallsOK'
<1>1. CallsOK
  BY CallTypes
<1> QED
  BY <1>1 DEF CallsOK

\* What the shared steps leave of the types.
LEMMA OverTypes ==
    ASSUME TypeOK, NEW c \in Calls, Over(c)
    PROVE  CallsOK' /\ recovering' \in BOOLEAN
<1>1. CallsOK'
  BY CallTypes, IdleTyped DEF Over, CallsOK
<1>2. recovering' \in BOOLEAN
  BY DEF Over, TypeOK
<1> QED
  BY <1>1, <1>2

\* The promise of a configuration settles.
LEMMA SettleTypes ==
    ASSUME TypeOK, NEW c \in Calls, call[c].pc # "idle", NEW ok \in BOOLEAN, Settle(c, ok)
    PROVE  /\ CallsOK' /\ recovering' \in BOOLEAN
           /\ cached' \in [Keys -> BOOLEAN] /\ inFlight' \in [Keys -> Calls \cup {None}]
<1>1. call[c].key \in Keys
  BY CallKey
<1>2. cached' \in [Keys -> BOOLEAN] /\ inFlight' \in [Keys -> Calls \cup {None}]
  BY <1>1 DEF Settle, TypeOK
<1> QED
  BY <1>2, OverTypes DEF Settle

\* A camera's cache entries and promises are dropped.
LEMMA InvalidateTypes ==
    ASSUME TypeOK, NEW cam, Invalidate(cam)
    PROVE  cached' \in [Keys -> BOOLEAN] /\ inFlight' \in [Keys -> Calls \cup {None}]
BY DEF TypeOK, Invalidate

\* ensurePathForCamera joins a configuration or starts one.
LEMMA EnsureTypes ==
    ASSUME TypeOK, NEW c \in Calls, NEW k \in Keys, NEW kind \in {"open", "reset"},
           Ensure(c, k, kind)
    PROVE  CallsOK' /\ inFlight' \in [Keys -> Calls \cup {None}]
<1>1. CASE inFlight[k] # None
  <2> DEFINE r == [Idle EXCEPT !.pc = "wait", !.kind = kind, !.key = k, !.on = inFlight[k]]
  <2>1. call' = [call EXCEPT ![c] = r] /\ UNCHANGED inFlight
    BY <1>1 DEF Ensure
  <2>2. inFlight[k] \in Calls
    BY <1>1 DEF TypeOK
  <2>3. r \in CallType /\ CallOK(r)
    BY <2>2, NamesAssumption DEF Idle, CallType, CallOK, PCs, Keys
  <2>4. CallsOK'
    BY <2>1, <2>3, CallChanges
  <2> QED
    BY <2>1, <2>4 DEF TypeOK
<1>2. CASE inFlight[k] = None
  <2> DEFINE r == [Idle EXCEPT !.pc = "gate", !.kind = kind, !.key = k]
  <2>1. call' = [call EXCEPT ![c] = r] /\ inFlight' = [inFlight EXCEPT ![k] = c]
    BY <1>2 DEF Ensure
  <2>2. r \in CallType /\ CallOK(r)
    BY NamesAssumption DEF Idle, CallType, CallOK, PCs, Keys
  <2>3. CallsOK'
    BY <2>1, <2>2, CallChanges
  <2> QED
    BY <2>1, <2>3 DEF TypeOK
<1> QED
  BY <1>1, <1>2

\* A teardown begins.
LEMMA BeginTearDownTypes ==
    ASSUME TypeOK, NEW c \in Calls, call[c].pc # "idle", BeginTearDown(c)
    PROVE  CallsOK' /\ cached' \in [Keys -> BOOLEAN]
<1>1. call[c] \in CallType /\ call[c].key # None
  BY DEF TypeOK, CallType
<1> DEFINE r == [call[c] EXCEPT !.pc = "down", !.left = Modes]
<1>2. r \in CallType /\ CallOK(r)
  BY <1>1, ModesLeft DEF CallType, CallOK, PCs
<1>3. call' = [call EXCEPT ![c] = r]
  BY DEF BeginTearDown, TypeOK
<1>4. CallsOK'
  BY <1>2, <1>3, CallChanges
<1>5. cached' \in [Keys -> BOOLEAN]
  BY DEF BeginTearDown, TypeOK
<1> QED
  BY <1>4, <1>5

\* A teardown comes to its next mode, or ends.
LEMMA TornDownTypes ==
    ASSUME TypeOK, NEW c \in Calls, At(c, "down"), TornDown(c)
    PROVE  /\ CallsOK' /\ recovering' \in BOOLEAN
           /\ cached' \in [Keys -> BOOLEAN] /\ inFlight' \in [Keys -> Calls \cup {None}]
<1> DEFINE left == call[c].left \ {First(call[c].left)}
           r == [call[c] EXCEPT !.left = left]
<1>1. call[c] \in CallType /\ call[c].pc = "down" /\ call[c].key # None
  BY DEF TypeOK, CallType, At
<1>2. CASE left # {}
  <2>1. r \in CallType /\ CallOK(r)
    BY <1>1, <1>2 DEF CallType, CallOK, PCs
  <2>2. call' = [call EXCEPT ![c] = r] /\ UNCHANGED <<inFlight, recovering>>
    BY <1>2 DEF TornDown, TypeOK
  <2>3. cached' \in [Keys -> BOOLEAN]
    BY <1>2 DEF TornDown, TypeOK
  <2>4. CallsOK'
    BY <2>1, <2>2, CallChanges
  <2> QED
    BY <2>2, <2>3, <2>4 DEF TypeOK
<1>3. CASE left = {}
  <2>1. Invalidate(Camera(c)) /\ Over(c)
    BY <1>3 DEF TornDown
  <2> QED
    BY <2>1, InvalidateTypes, OverTypes
<1> QED
  BY <1>2, <1>3

\* A call moves on to an await at which it needs what it already has.
LEMMA GotoTypes ==
    ASSUME TypeOK, NEW c \in Calls, NEW l \in PCs, Goto(c, l), call[c].key # None,
           l # "down", l \in Gated => call[c].wants # None
    PROVE  CallsOK'
<1> DEFINE r == [call[c] EXCEPT !.pc = l]
<1>1. call[c] \in CallType
  BY DEF TypeOK, CallType
<1>2. r \in CallType /\ CallOK(r)
  BY <1>1 DEF CallType, CallOK
<1>3. call' = [call EXCEPT ![c] = r]
  BY DEF Goto, TypeOK
<1> QED
  BY <1>2, <1>3, CallChanges

\* The types of the next state from their parts.
LEMMA TypesFrom ==
    ASSUME CallsOK',
           row' \in [Cameras -> [enabled : BOOLEAN, source : Sources]],
           path' \in [Keys -> Sources \cup {None}],
           cached' \in [Keys -> BOOLEAN], inFlight' \in [Keys -> Calls \cup {None}],
           recovering' \in BOOLEAN, listed' \in (SUBSET Cameras) \cup {None},
           toWarm' \subseteq Cameras, stray' \subseteq Keys
    PROVE  TypeOK'
BY DEF TypeOK, CallsOK, CallType, CallOK

\* A step of a call keeps the types.
LEMMA CallStepTypes ==
    ASSUME TypeOK, NEW c \in Calls, CallStep(c)
    PROVE  TypeOK'
<1> USE DEF At, watchVars, cacheVars
<1>0. call[c].pc # "idle" => call[c] \in CallType /\ call[c].key \in Keys /\ Camera(c) \in Cameras
  BY CallKey DEF TypeOK, CallType
<1>1. CASE Gate(c)
  <2>1. call[c].pc = "gate"
    BY <1>1 DEF Gate
  <2>2. CASE row[Camera(c)].enabled
    <3> DEFINE r == [call[c] EXCEPT !.pc = "get", !.wants = row[Camera(c)].source]
    <3>1. row[Camera(c)].source \in Sources
      BY <1>0, <2>1 DEF TypeOK
    <3>2. r \in CallType /\ CallOK(r)
      BY <1>0, <2>1, <3>1, NamesAssumption DEF CallType, CallOK, PCs, Keys
    <3>3. call' = [call EXCEPT ![c] = r] /\ UNCHANGED cached
      BY <1>1, <2>2 DEF Gate, TypeOK
    <3>4. CallsOK'
      BY <3>2, <3>3, CallChanges
    <3> QED
      BY <1>1, <3>3, <3>4, TypesFrom DEF Gate, TypeOK
  <2>3. CASE ~row[Camera(c)].enabled
    <3>1. BeginTearDown(c)
      BY <1>1, <2>3 DEF Gate
    <3> QED
      BY <1>1, <2>1, <3>1, BeginTearDownTypes, TypesFrom DEF Gate, TypeOK
  <2> QED
    BY <2>2, <2>3
<1>2. CASE GateFails(c)
  <2>1. CallsOK' /\ recovering' \in BOOLEAN /\ cached' \in [Keys -> BOOLEAN]
        /\ inFlight' \in [Keys -> Calls \cup {None}]
    BY <1>2, SettleTypes DEF GateFails
  <2> QED
    BY <1>2, <2>1, TypesFrom DEF GateFails, TypeOK
<1>3. CASE GetSame(c)
  <2>1. CallsOK' /\ recovering' \in BOOLEAN /\ cached' \in [Keys -> BOOLEAN]
        /\ inFlight' \in [Keys -> Calls \cup {None}]
    BY <1>3, SettleTypes DEF GetSame
  <2> QED
    BY <1>3, <2>1, TypesFrom DEF GetSame, TypeOK
<1>4. CASE GetOther(c) \/ GetFails(c)
  <2>1. call[c].key # None /\ call[c].wants # None
    BY <1>4 DEF GetOther, GetFails, TypeOK
  <2>2. CallsOK'
    BY <1>4, <2>1, GotoTypes DEF GetOther, GetFails, PCs
  <2> QED
    BY <1>4, <2>2, TypesFrom DEF GetOther, GetFails, TypeOK
<1>5. CASE DeletePath(c)
  <2>1. call[c].key # None /\ call[c].wants # None
    BY <1>5 DEF DeletePath, TypeOK
  <2>2. CallsOK'
    BY <1>5, <2>1, GotoTypes DEF DeletePath, PCs
  <2>3. path' \in [Keys -> Sources \cup {None}]
    BY <1>5 DEF DeletePath, TypeOK
  <2> QED
    BY <1>5, <2>2, <2>3, TypesFrom DEF DeletePath, TypeOK
<1>6. CASE PostPath(c)
  <2>1. CallsOK' /\ recovering' \in BOOLEAN /\ cached' \in [Keys -> BOOLEAN]
        /\ inFlight' \in [Keys -> Calls \cup {None}]
    BY <1>6, SettleTypes DEF PostPath
  <2>2. path' \in [Keys -> Sources \cup {None}]
    BY <1>0, <1>6 DEF PostPath, TypeOK, CallType
  <2> QED
    BY <1>6, <2>1, <2>2, TypesFrom DEF PostPath, TypeOK
<1>7. CASE PostFails(c)
  <2>1. CallsOK' /\ recovering' \in BOOLEAN /\ cached' \in [Keys -> BOOLEAN]
        /\ inFlight' \in [Keys -> Calls \cup {None}]
    BY <1>7, SettleTypes DEF PostFails
  <2>2. path' \in [Keys -> Sources \cup {None}]
    BY <1>0, <1>7 DEF PostFails, TypeOK, CallType
  <2> QED
    BY <1>7, <2>1, <2>2, TypesFrom DEF PostFails, TypeOK
<1>8. CASE TearDown(c)
  <2>1. CallsOK' /\ recovering' \in BOOLEAN /\ cached' \in [Keys -> BOOLEAN]
        /\ inFlight' \in [Keys -> Calls \cup {None}]
    BY <1>8, TornDownTypes DEF TearDown
  <2>2. path' \in [Keys -> Sources \cup {None}]
    BY <1>8 DEF TearDown, TypeOK
  <2>3. stray' \subseteq Keys
    BY <1>8 DEF TearDown, TypeOK
  <2> QED
    BY <1>8, <2>1, <2>2, <2>3, TypesFrom DEF TearDown, TypeOK
<1>9. CASE TearDownFails(c)
  <2>1. CallsOK' /\ recovering' \in BOOLEAN /\ cached' \in [Keys -> BOOLEAN]
        /\ inFlight' \in [Keys -> Calls \cup {None}]
    BY <1>9, TornDownTypes DEF TearDownFails
  <2>2. stray' \subseteq Keys
    BY <1>9, FallingKey DEF TearDownFails, TypeOK
  <2> QED
    BY <1>9, <2>1, <2>2, TypesFrom DEF TearDownFails, TypeOK
<1>10. CASE Stopped(c)
  <2>1. CallsOK' /\ cached' \in [Keys -> BOOLEAN]
    BY <1>10, BeginTearDownTypes DEF Stopped
  <2> QED
    BY <1>10, <2>1, TypesFrom DEF Stopped, TypeOK
<1>11. CASE ResetDelete(c)
  <2>1. call[c].pc = "reset" /\ call[c].key \in Keys
    BY <1>0, <1>11 DEF ResetDelete
  <2>2. path' \in [Keys -> Sources \cup {None}]
    BY <1>11 DEF ResetDelete, TypeOK
  <2>3. CASE Over(c) /\ UNCHANGED inFlight
    BY <1>11, <2>2, <2>3, OverTypes, TypesFrom DEF ResetDelete, TypeOK
  <2>4. CASE Ensure(c, call[c].key, "reset") /\ UNCHANGED recovering
    BY <1>11, <2>1, <2>2, <2>4, EnsureTypes, TypesFrom DEF ResetDelete, TypeOK
  <2> QED
    BY <1>11, <2>3, <2>4 DEF ResetDelete
<1> QED
  BY <1>1, <1>2, <1>3, <1>4, <1>5, <1>6, <1>7, <1>8, <1>9, <1>10, <1>11 DEF CallStep

\* The state at the API's start has its types.
LEMMA InitTypes == Init => TypeOK
BY IdleTyped DEF Init, TypeOK, CallType, CallOK

\* Every step keeps the types.
LEMMA TypeStep == TypeOK /\ [Next]_vars => TypeOK'
<1> SUFFICES ASSUME TypeOK, [Next]_vars
             PROVE  TypeOK'
  OBVIOUS
<1> USE DEF At, watchVars, cacheVars
<1>1. ASSUME NEW c \in Calls, CallStep(c)
      PROVE  TypeOK'
  BY <1>1, CallStepTypes
<1>2. ASSUME NEW c \in Calls, NEW k \in Keys, Open(c, k)
      PROVE  TypeOK'
  BY <1>2, EnsureTypes, TypesFrom DEF Open, TypeOK
<1>3. ASSUME NEW c \in Calls, NEW k \in Keys, ResetBegins(c, k)
      PROVE  TypeOK'
  <2> DEFINE r == [Idle EXCEPT !.pc = "reset", !.kind = "reset", !.key = k]
  <2>1. r \in CallType /\ CallOK(r)
    BY NamesAssumption DEF Idle, CallType, CallOK, PCs, Keys
  <2>2. CallsOK'
    BY <1>3, <2>1, CallChanges DEF ResetBegins
  <2> QED
    BY <1>3, <2>2, InvalidateTypes, TypesFrom DEF ResetBegins, TypeOK
<1>4. ASSUME NEW c \in Calls, NEW cam \in Cameras, Disable(c, cam)
      PROVE  TypeOK'
  <2> DEFINE r == [Idle EXCEPT !.pc = "stop", !.kind = "disable", !.key = <<cam, "grid">>]
  <2>1. <<cam, "grid">> \in Keys
    BY ModesAssumption DEF Keys
  <2>2. r \in CallType /\ CallOK(r)
    BY <2>1, NamesAssumption DEF Idle, CallType, CallOK, PCs, Keys
  <2>3. CallsOK'
    BY <1>4, <2>2, CallChanges DEF Disable
  <2>4. row' \in [Cameras -> [enabled : BOOLEAN, source : Sources]]
    BY <1>4 DEF Disable, TypeOK
  <2> QED
    BY <1>4, <2>3, <2>4, TypesFrom DEF Disable, TypeOK
<1>5. ASSUME NEW c \in Calls, NEW cam \in Cameras, WarmNext(c, cam)
      PROVE  TypeOK'
  <2>1. <<cam, "grid">> \in Keys
    BY ModesAssumption DEF Keys
  <2>2. CASE UNCHANGED <<inFlight, call>>
    BY <1>5, <2>2, CallTypes, TypesFrom DEF WarmNext, TypeOK, CallsOK
  <2>3. CASE Ensure(c, <<cam, "grid">>, "open")
    BY <1>5, <2>1, <2>3, EnsureTypes, TypesFrom DEF WarmNext, TypeOK
  <2> QED
    BY <1>5, <2>2, <2>3 DEF WarmNext
<1>6. ASSUME NEW cam \in Cameras, Enable(cam) \/ Edit(cam) \/ Advise(cam)
      PROVE  TypeOK'
  <2>1. row' \in [Cameras -> [enabled : BOOLEAN, source : Sources]]
    <3>1. CASE Enable(cam)
      BY <3>1 DEF Enable, TypeOK
    <3>2. CASE Edit(cam) \/ Advise(cam)
      <4>1. PICK s \in Sources : row' = [row EXCEPT ![cam].source = s]
        BY <3>2 DEF Edit, Advise
      <4> QED
        BY <4>1 DEF TypeOK
    <3> QED
      BY <1>6, <3>1, <3>2
  <2>2. cached' \in [Keys -> BOOLEAN] /\ inFlight' \in [Keys -> Calls \cup {None}]
    BY <1>6, InvalidateTypes DEF Enable, Edit, Advise, TypeOK
  <2>3. UNCHANGED <<path, call, recovering, listed, toWarm>> /\ stray' \subseteq Keys
    BY <1>6 DEF Enable, Edit, Advise, TypeOK
  <2>4. CallsOK'
    BY <2>3, CallTypes DEF CallsOK
  <2> QED
    BY <2>1, <2>2, <2>3, <2>4, TypesFrom DEF TypeOK
<1>7. CASE Tick \/ Reconcile
  <2>1. CallsOK'
    BY <1>7, CallTypes DEF Tick, Reconcile, CallsOK
  <2>2. listed' \in (SUBSET Cameras) \cup {None} /\ toWarm' \subseteq Cameras
    BY <1>7 DEF Tick, Reconcile, TypeOK, Enabled
  <2> QED
    BY <1>7, <2>1, <2>2, TypesFrom DEF Tick, Reconcile, TypeOK
<1>8. ASSUME NEW k \in Keys, Expire(k)
      PROVE  TypeOK'
  <2>1. CallsOK'
    BY <1>8, CallTypes DEF Expire, CallsOK
  <2> QED
    BY <1>8, <2>1, TypesFrom DEF Expire, TypeOK
<1>9. CASE MediaRestart
  <2>1. CallsOK'
    BY <1>9, CallTypes DEF MediaRestart, CallsOK
  <2> QED
    BY <1>9, <2>1, TypesFrom DEF MediaRestart, TypeOK
<1>10. CASE ApiRestart
  <2>1. CallsOK'
    BY <1>10, IdleTyped DEF ApiRestart, CallsOK
  <2> QED
    BY <1>10, <2>1, TypesFrom DEF ApiRestart, TypeOK, Enabled
<1>11. CASE UNCHANGED vars
  BY <1>11 DEF vars, TypeOK
<1> QED
  BY <1>1, <1>2, <1>3, <1>4, <1>5, <1>6, <1>7, <1>8, <1>9, <1>10, <1>11 DEF Next, Works

\* The state of the live paths keeps its types, whatever happens.
THEOREM TypeCorrect == Spec => []TypeOK
BY InitTypes, TypeStep, PTL DEF Spec

-----------------------------------------------------------------------------
\* Promises

\* The parts of the invariant.
Joinable == \A k \in Keys : inFlight[k] # None =>
              Configuring(inFlight[k]) /\ call[inFlight[k]].key = k
Joined == \A c \in Calls : At(c, "wait") =>
              Configuring(call[c].on) /\ call[call[c].on].key = call[c].key
Promises == Awaiting /\ Joinable /\ Joined

\* The invariant is the types and the promises' parts.
LEMMA PromisesAre == PromiseInv <=> TypeOK /\ Promises
BY DEF PromiseInv, Promises, Joinable, Joined, NoDeadPromise

\* A call that nobody can have joined moves and is still not one to join: the promises
\* stay as they are.
LEMMA UnjoinedMoves ==
    ASSUME PromiseInv, NEW c \in Calls, NEW r \in CallType, ~Configuring(c), ~At(c, "wait"),
           r.pc # "wait", r.on = None, call' = [call EXCEPT ![c] = r],
           \A k \in Keys : inFlight'[k] \in {inFlight[k], None}
    PROVE  Promises'
<1>1. /\ \A q \in Calls \ {c} : call'[q] = call[q]
      /\ call'[c] = r
  BY DEF PromiseInv, TypeOK
<1>2. Awaiting'
  BY <1>1 DEF PromiseInv, Awaiting, At
<1>3. Joinable'
  <2> SUFFICES ASSUME NEW k \in Keys, inFlight'[k] # None
               PROVE  Configuring(inFlight[k])' /\ call'[inFlight'[k]].key = k
    BY DEF Joinable, Configuring
  <2>1. inFlight'[k] = inFlight[k] /\ inFlight[k] \in Calls
    BY DEF PromiseInv, TypeOK
  <2>2. Configuring(inFlight[k]) /\ call[inFlight[k]].key = k
    BY <2>1 DEF PromiseInv, NoDeadPromise
  <2>3. inFlight[k] # c
    BY <2>2
  <2> QED
    BY <1>1, <2>1, <2>2, <2>3 DEF Configuring
<1>4. Joined'
  <2> SUFFICES ASSUME NEW q \in Calls, call'[q].pc = "wait"
               PROVE  Configuring(call[q].on)' /\ call'[call'[q].on].key = call'[q].key
    BY DEF Joined, At, Configuring
  <2>1. q # c /\ call'[q] = call[q]
    BY <1>1
  <2>2. Configuring(call[q].on) /\ call[call[q].on].key = call[q].key
    BY <2>1 DEF PromiseInv, NoDeadPromise, At
  <2>3. call[q].on # c
    BY <2>2
  <2>4. call[q].on \in Calls
    BY <2>1 DEF PromiseInv, TypeOK, Awaiting, At
  <2> QED
    BY <1>1, <2>1, <2>2, <2>3, <2>4 DEF Configuring
<1> QED
  BY <1>2, <1>3, <1>4 DEF Promises

\* A configuration goes on, and is the same to those that have joined it.
LEMMA ConfigurationMoves ==
    ASSUME PromiseInv, NEW c \in Calls, NEW r \in CallType, Configuring(c),
           r.pc \in Gated \cup {"gate", "down"}, r.kind = call[c].kind,
           r.key = call[c].key, r.on = call[c].on, call' = [call EXCEPT ![c] = r],
           \A k \in Keys : inFlight'[k] \in {inFlight[k], None}
    PROVE  Promises'
<1>1. /\ \A q \in Calls \ {c} : call'[q] = call[q]
      /\ call'[c] = r
  BY DEF PromiseInv, TypeOK
<1>2. \A q \in Calls : Configuring(q) => Configuring(q)' /\ call'[q].key = call[q].key
  BY <1>1 DEF Configuring
<1>3. \A q \in Calls : At(q, "wait")' <=> At(q, "wait")
  BY <1>1 DEF Configuring, At
<1>4. \A q \in Calls : call'[q].on = call[q].on /\ call'[q].key = call[q].key
  BY <1>1
<1>5. Awaiting'
  BY <1>3, <1>4 DEF PromiseInv, Awaiting
<1>6. Joinable'
  <2> SUFFICES ASSUME NEW k \in Keys, inFlight'[k] # None
               PROVE  Configuring(inFlight[k])' /\ call'[inFlight'[k]].key = k
    BY DEF Joinable, Configuring
  <2>1. inFlight'[k] = inFlight[k] /\ inFlight[k] \in Calls
    BY DEF PromiseInv, TypeOK
  <2>2. Configuring(inFlight[k]) /\ call[inFlight[k]].key = k
    BY <2>1 DEF PromiseInv, NoDeadPromise
  <2>3. call'[inFlight[k]].pc \in Gated \cup {"gate", "down"}
        /\ call'[inFlight[k]].kind # "disable" /\ call'[inFlight[k]].key = k
    BY <1>2, <2>1, <2>2 DEF Configuring
  <2> QED
    BY <2>1, <2>3 DEF Configuring
<1>7. Joined'
  <2> SUFFICES ASSUME NEW q \in Calls, At(q, "wait")
               PROVE  Configuring(call[q].on)' /\ call'[call'[q].on].key = call'[q].key
    BY <1>3 DEF Joined, Configuring
  <2>1. call[q].on \in Calls
    BY DEF PromiseInv, TypeOK, Awaiting
  <2>2. Configuring(call[q].on) /\ call[call[q].on].key = call[q].key
    BY DEF PromiseInv, NoDeadPromise
  <2>3. call'[call[q].on].pc \in Gated \cup {"gate", "down"}
        /\ call'[call[q].on].kind # "disable" /\ call'[call[q].on].key = call[q].key
    BY <1>2, <2>1, <2>2 DEF Configuring
  <2> QED
    BY <1>4, <2>3 DEF Configuring
<1> QED
  BY <1>5, <1>6, <1>7 DEF Promises

\* A call is over that is nobody's configuration any more.
LEMMA OverKeeps ==
    ASSUME PromiseInv, NEW c \in Calls, Over(c), ~At(c, "wait"),
           \A k \in Keys : inFlight'[k] \in {inFlight[k], None} \ {c}
    PROVE  Promises'
<1> DEFINE ended == {c} \cup {q \in Calls : call[q].on = c}
<1>1. /\ \A q \in Calls \ ended : call'[q] = call[q]
      /\ \A q \in ended : call'[q] = Idle
  BY DEF Over, PromiseInv, TypeOK
<1>2. \A q \in ended : q = c \/ At(q, "wait")
  BY NamesAssumption DEF PromiseInv, Awaiting
<1>3. Awaiting'
  BY <1>1, IdleCall DEF PromiseInv, Awaiting, At
<1>4. Joinable'
  <2> SUFFICES ASSUME NEW k \in Keys, inFlight'[k] # None
               PROVE  Configuring(inFlight[k])' /\ call'[inFlight'[k]].key = k
    BY DEF Joinable, Configuring
  <2>1. inFlight'[k] = inFlight[k] /\ inFlight[k] \in Calls /\ inFlight[k] # c
    BY DEF PromiseInv, TypeOK
  <2>2. Configuring(inFlight[k]) /\ call[inFlight[k]].key = k
    BY <2>1 DEF PromiseInv, NoDeadPromise
  <2>3. inFlight[k] \notin ended
    BY <1>2, <2>1, <2>2 DEF Configuring, At
  <2> QED
    BY <1>1, <2>1, <2>2, <2>3 DEF Configuring
<1>5. Joined'
  <2> SUFFICES ASSUME NEW q \in Calls, call'[q].pc = "wait"
               PROVE  Configuring(call[q].on)' /\ call'[call'[q].on].key = call'[q].key
    BY DEF Joined, At, Configuring
  <2>1. q \notin ended /\ call'[q] = call[q]
    BY <1>1, IdleCall
  <2>2. call[q].on \in Calls \ {c}
    BY <2>1 DEF PromiseInv, TypeOK, Awaiting, At
  <2>3. Configuring(call[q].on) /\ call[call[q].on].key = call[q].key
    BY <2>1 DEF PromiseInv, NoDeadPromise, At
  <2>4. call[q].on \notin ended
    BY <1>2, <2>2, <2>3 DEF Configuring, At
  <2> QED
    BY <1>1, <2>1, <2>2, <2>3, <2>4 DEF Configuring
<1> QED
  BY <1>3, <1>4, <1>5 DEF Promises

\* A promise that settles leaves the map if it is there at all.
LEMMA SettleKeeps ==
    ASSUME PromiseInv, NEW c \in Calls, NEW ok \in BOOLEAN, ~At(c, "wait"), Settle(c, ok)
    PROVE  Promises'
<1>1. \A k \in Keys : inFlight'[k] \in {inFlight[k], None} \ {c}
  <2> SUFFICES ASSUME NEW k \in Keys
               PROVE  inFlight'[k] \in {inFlight[k], None} \ {c}
    OBVIOUS
  <2>1. inFlight[k] = c => k = call[c].key
    BY NamesAssumption DEF PromiseInv, NoDeadPromise
  <2> QED
    BY <2>1, NamesAssumption DEF Settle, PromiseInv, TypeOK
<1>2. Over(c)
  BY DEF Settle
<1> QED
  BY <1>1, <1>2, OverKeeps

\* A request joins a configuration or becomes one.
LEMMA EnsureKeeps ==
    ASSUME PromiseInv, NEW c \in Calls, NEW k \in Keys, NEW kind \in {"open", "reset"},
           ~Configuring(c), ~At(c, "wait"), Ensure(c, k, kind)
    PROVE  Promises'
<1>1. \A q \in Calls \ {c} : call'[q] = call[q]
  BY DEF Ensure, PromiseInv, TypeOK
<1>2. \A q \in Calls : Configuring(q) => q # c /\ call'[q] = call[q]
  BY <1>1
<1>3. CASE inFlight[k] # None
  <2> DEFINE r == [Idle EXCEPT !.pc = "wait", !.kind = kind, !.key = k, !.on = inFlight[k]]
  <2>1. call'[c] = r /\ UNCHANGED inFlight
    BY <1>3 DEF Ensure, PromiseInv, TypeOK
  <2>2. r.pc = "wait" /\ r.key = k /\ r.on = inFlight[k]
    BY DEF Idle
  <2>3. inFlight[k] \in Calls /\ Configuring(inFlight[k]) /\ call[inFlight[k]].key = k
    BY <1>3 DEF PromiseInv, TypeOK, NoDeadPromise
  <2>4. Awaiting'
    <3>1. call'[c].on # None /\ call'[c].pc = "wait"
      BY <1>3, <2>1, <2>2
    <3>2. \A q \in Calls : call[q].on # None <=> call[q].pc = "wait"
      BY DEF PromiseInv, Awaiting, At
    <3>3. \A q \in Calls : call'[q].on # None <=> call'[q].pc = "wait"
      BY <1>1, <3>1, <3>2
    <3> QED
      BY <3>3 DEF Awaiting, At
  <2>5. Joinable'
    BY <1>2, <2>1 DEF PromiseInv, NoDeadPromise, TypeOK, Joinable, Configuring
  <2>6. Joined'
    <3> SUFFICES ASSUME NEW q \in Calls, call'[q].pc = "wait"
                 PROVE  Configuring(call[q].on)' /\ call'[call'[q].on].key = call'[q].key
      BY DEF Joined, At, Configuring
    <3>1. CASE q = c
      <4>1. call'[q].on = inFlight[k] /\ call'[q].key = k
        BY <2>1, <2>2, <3>1
      <4>2. call'[inFlight[k]] = call[inFlight[k]]
        BY <1>2, <2>3
      <4> QED
        BY <2>3, <4>1, <4>2 DEF Configuring
    <3>2. CASE q # c
      <4>1. call'[q] = call[q] /\ call[q].on \in Calls
        BY <1>1, <3>2 DEF PromiseInv, TypeOK, Awaiting, At
      <4>2. Configuring(call[q].on) /\ call[call[q].on].key = call[q].key
        BY <4>1 DEF PromiseInv, NoDeadPromise, At
      <4> QED
        BY <1>2, <4>1, <4>2 DEF Configuring
    <3> QED
      BY <3>1, <3>2
  <2> QED
    BY <2>4, <2>5, <2>6 DEF Promises
<1>4. CASE inFlight[k] = None
  <2> DEFINE r == [Idle EXCEPT !.pc = "gate", !.kind = kind, !.key = k]
  <2>1. call'[c] = r /\ inFlight' = [inFlight EXCEPT ![k] = c]
    BY <1>4 DEF Ensure, PromiseInv, TypeOK
  <2>2. r.pc = "gate" /\ r.key = k /\ r.on = None /\ r.kind # "disable"
    BY DEF Idle
  <2>3. Awaiting'
    BY <1>1, <2>1, <2>2 DEF PromiseInv, Awaiting, At
  <2>4. Joinable'
    <3> SUFFICES ASSUME NEW j \in Keys, inFlight'[j] # None
                 PROVE  Configuring(inFlight[j])' /\ call'[inFlight'[j]].key = j
      BY DEF Joinable, Configuring
    <3>1. CASE j = k
      BY <2>1, <2>2, <3>1 DEF PromiseInv, TypeOK, Configuring
    <3>2. CASE j # k
      <4>1. inFlight'[j] = inFlight[j] /\ inFlight[j] \in Calls
        BY <2>1, <3>2 DEF PromiseInv, TypeOK
      <4>2. Configuring(inFlight[j]) /\ call[inFlight[j]].key = j
        BY <4>1 DEF PromiseInv, NoDeadPromise
      <4> QED
        BY <1>2, <4>1, <4>2 DEF Configuring
    <3> QED
      BY <3>1, <3>2
  <2>5. Joined'
    <3> SUFFICES ASSUME NEW q \in Calls, call'[q].pc = "wait"
                 PROVE  Configuring(call[q].on)' /\ call'[call'[q].on].key = call'[q].key
      BY DEF Joined, At, Configuring
    <3>1. call'[q] = call[q] /\ call[q].on \in Calls
      BY <1>1, <2>1, <2>2 DEF PromiseInv, TypeOK, Awaiting, At
    <3>2. Configuring(call[q].on) /\ call[call[q].on].key = call[q].key
      BY <3>1 DEF PromiseInv, NoDeadPromise, At
    <3> QED
      BY <1>2, <3>1, <3>2 DEF Configuring
  <2> QED
    BY <2>3, <2>4, <2>5 DEF Promises
<1> QED
  BY <1>3, <1>4

\* A call goes on at another await, whether others have joined it or not.
LEMMA CallMoves ==
    ASSUME PromiseInv, NEW c \in Calls, NEW r \in CallType, ~At(c, "wait"),
           r.pc \in Gated \cup {"gate", "down"}, r.kind = call[c].kind,
           r.key = call[c].key, r.on = call[c].on, call' = [call EXCEPT ![c] = r],
           \A k \in Keys : inFlight'[k] \in {inFlight[k], None}
    PROVE  Promises'
<1>1. r.on = None
  BY DEF PromiseInv, Awaiting
<1> QED
  BY <1>1, ConfigurationMoves, UnjoinedMoves

\* A configuration comes to its next request.
LEMMA GotoKeeps ==
    ASSUME PromiseInv, NEW c \in Calls, NEW l \in Gated,
           ~At(c, "wait"), Goto(c, l), UNCHANGED inFlight
    PROVE  Promises'
<1> DEFINE r == [call[c] EXCEPT !.pc = l]
<1>1. r \in CallType /\ r.pc = l /\ r.kind = call[c].kind /\ r.key = call[c].key /\ r.on = call[c].on
  BY DEF PromiseInv, TypeOK, CallType, PCs
<1>2. call' = [call EXCEPT ![c] = r]
  BY DEF Goto, PromiseInv, TypeOK
<1> QED
  BY <1>1, <1>2, CallMoves

\* A teardown begins, in the gate or after the recording's stop.
LEMMA BeginTearDownKeeps ==
    ASSUME PromiseInv, NEW c \in Calls, ~At(c, "wait"), BeginTearDown(c), UNCHANGED inFlight
    PROVE  Promises'
<1> DEFINE r == [call[c] EXCEPT !.pc = "down", !.left = Modes]
<1>1. r \in CallType /\ r.pc = "down" /\ r.kind = call[c].kind /\ r.key = call[c].key
      /\ r.on = call[c].on
  BY DEF PromiseInv, TypeOK, CallType, PCs
<1>2. call' = [call EXCEPT ![c] = r]
  BY DEF BeginTearDown, PromiseInv, TypeOK
<1> QED
  BY <1>1, <1>2, CallMoves

\* The end of a teardown takes all of the camera's promises out of the map, the
\* call's own with them.
LEMMA TornDownKeeps ==
    ASSUME PromiseInv, NEW c \in Calls, At(c, "down"), TornDown(c)
    PROVE  Promises'
<1> DEFINE left == call[c].left \ {First(call[c].left)}
           r == [call[c] EXCEPT !.left = left]
<1>1. CASE left # {}
  <2>1. r \in CallType /\ r.pc = "down" /\ r.kind = call[c].kind /\ r.key = call[c].key
        /\ r.on = call[c].on
    BY DEF PromiseInv, TypeOK, CallType, PCs, At
  <2>2. call' = [call EXCEPT ![c] = r] /\ UNCHANGED inFlight
    BY <1>1 DEF TornDown, PromiseInv, TypeOK
  <2> QED
    BY <2>1, <2>2, CallMoves DEF At
<1>2. CASE left = {}
  <2>1. Invalidate(Camera(c)) /\ Over(c)
    BY <1>2 DEF TornDown
  <2>2. \A k \in Keys : inFlight'[k] \in {inFlight[k], None} \ {c}
    <3> SUFFICES ASSUME NEW k \in Keys
                 PROVE  inFlight'[k] \in {inFlight[k], None} \ {c}
      OBVIOUS
    <3>1. inFlight[k] = c => OfCamera(k, Camera(c))
      BY NamesAssumption DEF PromiseInv, NoDeadPromise, OfCamera, Camera
    <3> QED
      BY <2>1, <3>1, NamesAssumption DEF Invalidate
  <2> QED
    BY <2>1, <2>2, OverKeeps DEF At
<1> QED
  BY <1>1, <1>2

\* Every step of a call keeps the promises.
LEMMA CallStepKeeps ==
    ASSUME PromiseInv, NEW c \in Calls, CallStep(c)
    PROVE  Promises'
<1> USE DEF At, watchVars, cacheVars
<1>0. TypeOK
  BY DEF PromiseInv
<1>1. CASE Gate(c)
  <2>1. CASE row[Camera(c)].enabled
    <3> DEFINE r == [call[c] EXCEPT !.pc = "get", !.wants = row[Camera(c)].source]
    <3>1. call[c] \in CallType /\ call[c].pc = "gate" /\ row[Camera(c)].source \in Sources
      BY <1>0, <1>1, CallKey DEF Gate, TypeOK, CallType
    <3>2. r \in CallType /\ r.pc = "get" /\ r.kind = call[c].kind /\ r.key = call[c].key
          /\ r.on = call[c].on
      BY <3>1 DEF CallType, PCs
    <3>3. call' = [call EXCEPT ![c] = r] /\ UNCHANGED inFlight
      BY <1>0, <1>1, <2>1 DEF Gate, TypeOK
    <3> QED
      BY <3>1, <3>2, <3>3, CallMoves
  <2>2. CASE ~row[Camera(c)].enabled
    BY <1>1, <2>2, BeginTearDownKeeps DEF Gate
  <2> QED
    BY <2>1, <2>2
<1>2. CASE GateFails(c)
  BY <1>2, SettleKeeps DEF GateFails
<1>3. CASE GetSame(c)
  BY <1>3, SettleKeeps DEF GetSame
<1>4. CASE GetOther(c) \/ GetFails(c)
  BY <1>4, GotoKeeps DEF GetOther, GetFails
<1>5. CASE DeletePath(c)
  BY <1>5, GotoKeeps DEF DeletePath
<1>6. CASE PostPath(c)
  BY <1>6, SettleKeeps DEF PostPath
<1>7. CASE PostFails(c)
  BY <1>7, SettleKeeps DEF PostFails
<1>8. CASE TearDown(c)
  BY <1>8, TornDownKeeps DEF TearDown
<1>9. CASE TearDownFails(c)
  BY <1>9, TornDownKeeps DEF TearDownFails
<1>10. CASE Stopped(c)
  BY <1>10, BeginTearDownKeeps DEF Stopped
<1>11. CASE ResetDelete(c)
  <2>1. call[c].pc = "reset" /\ call[c].key \in Keys /\ ~Configuring(c)
    BY <1>0, <1>11, CallKey DEF ResetDelete, Configuring
  <2>2. CASE Over(c) /\ UNCHANGED inFlight
    <3>1. \A k \in Keys : inFlight'[k] \in {inFlight[k], None} \ {c}
      BY <2>1, <2>2, NamesAssumption DEF PromiseInv, NoDeadPromise
    <3> QED
      BY <2>1, <2>2, <3>1, OverKeeps
  <2>3. CASE Ensure(c, call[c].key, "reset")
    BY <2>1, <2>3, EnsureKeeps
  <2> QED
    BY <1>11, <2>2, <2>3 DEF ResetDelete
<1> QED
  BY <1>1, <1>2, <1>3, <1>4, <1>5, <1>6, <1>7, <1>8, <1>9, <1>10, <1>11 DEF CallStep

\* Promises may leave the map while the calls stay as they are.
LEMMA ForgettingKeeps ==
    ASSUME PromiseInv, UNCHANGED call, \A k \in Keys : inFlight'[k] \in {inFlight[k], None}
    PROVE  Promises'
BY DEF PromiseInv, Promises, Awaiting, Joinable, Joined, NoDeadPromise, Configuring, At

\* At the API's start nothing is promised.
LEMMA InitPromises == Init => PromiseInv
<1> SUFFICES ASSUME Init
             PROVE  PromiseInv
  OBVIOUS
<1>1. TypeOK
  BY InitTypes
<1>2. Promises
  BY IdleCall DEF Init, Promises, Awaiting, Joinable, Joined, At
<1> QED
  BY <1>1, <1>2, PromisesAre

\* Every step keeps the promises.
LEMMA PromiseStep == PromiseInv /\ [Next]_vars => PromiseInv'
<1> SUFFICES ASSUME PromiseInv, [Next]_vars
             PROVE  Promises'
  BY TypeStep DEF PromiseInv, Promises, Joinable, Joined, NoDeadPromise, Configuring, At
<1> USE DEF At, watchVars, cacheVars
<1>1. ASSUME NEW c \in Calls, CallStep(c)
      PROVE  Promises'
  BY <1>1, CallStepKeeps
<1>2. ASSUME NEW c \in Calls, NEW k \in Keys, Open(c, k)
      PROVE  Promises'
  BY <1>2, EnsureKeeps DEF Open, Configuring
<1>3. ASSUME NEW c \in Calls, NEW k \in Keys, ResetBegins(c, k)
      PROVE  Promises'
  <2> DEFINE r == [Idle EXCEPT !.pc = "reset", !.kind = "reset", !.key = k]
  <2>1. r \in CallType /\ r.pc = "reset" /\ r.on = None
    BY DEF Idle, CallType, PCs
  <2>2. \A j \in Keys : inFlight'[j] \in {inFlight[j], None}
    BY <1>3 DEF ResetBegins, Invalidate
  <2>3. call[c].pc = "idle" /\ call' = [call EXCEPT ![c] = r]
    BY <1>3 DEF ResetBegins
  <2> QED
    BY <2>1, <2>2, <2>3, UnjoinedMoves DEF Configuring
<1>4. ASSUME NEW c \in Calls, NEW cam \in Cameras, Disable(c, cam)
      PROVE  Promises'
  <2> DEFINE r == [Idle EXCEPT !.pc = "stop", !.kind = "disable", !.key = <<cam, "grid">>]
  <2>1. r \in CallType /\ r.pc = "stop" /\ r.on = None
    BY ModesAssumption DEF Idle, CallType, PCs, Keys
  <2>2. call[c].pc = "idle" /\ call' = [call EXCEPT ![c] = r] /\ UNCHANGED inFlight
    BY <1>4 DEF Disable
  <2> QED
    BY <2>1, <2>2, UnjoinedMoves DEF Configuring
<1>5. ASSUME NEW c \in Calls, NEW cam \in Cameras, WarmNext(c, cam)
      PROVE  Promises'
  <2>1. <<cam, "grid">> \in Keys /\ call[c].pc = "idle"
    BY <1>5, ModesAssumption DEF Keys, WarmNext
  <2>2. CASE UNCHANGED <<inFlight, call>>
    BY <2>2, ForgettingKeeps
  <2>3. CASE Ensure(c, <<cam, "grid">>, "open")
    BY <2>1, <2>3, EnsureKeeps DEF Configuring
  <2> QED
    BY <1>5, <2>2, <2>3 DEF WarmNext
<1>6. ASSUME NEW cam \in Cameras, Advise(cam)
      PROVE  Promises'
  BY <1>6, ForgettingKeeps DEF Advise, Invalidate
<1>7. ASSUME NEW cam \in Cameras, Enable(cam) \/ Edit(cam)
      PROVE  Promises'
  BY <1>7, ForgettingKeeps DEF Enable, Edit
<1>8. CASE Tick \/ Reconcile \/ MediaRestart \/ UNCHANGED vars
  BY <1>8, ForgettingKeeps DEF Tick, Reconcile, MediaRestart, vars
<1>9. ASSUME NEW k \in Keys, Expire(k)
      PROVE  Promises'
  BY <1>9, ForgettingKeeps DEF Expire
<1>10. CASE ApiRestart
  BY <1>10, IdleCall DEF ApiRestart, Promises, Awaiting, Joinable, Joined
<1> QED
  BY <1>1, <1>2, <1>3, <1>4, <1>5, <1>6, <1>7, <1>8, <1>9, <1>10 DEF Next, Works

\* Whatever is invalidated, torn down, reset or fails: a promise in pathEnsureInFlight,
\* and one that somebody awaits, is a configuration of that path that is still running.
THEOREM PromisesAlive == Spec => []NoDeadPromise
<1>1. PromiseInv => NoDeadPromise
  BY DEF PromiseInv
<1> QED
  BY InitPromises, PromiseStep, <1>1, PTL DEF Spec

-----------------------------------------------------------------------------
\* Paths are not made again in vain

\* Operations that drop a configuration in flight from the map.
DroppingOps == {"switch", "advise", "stuck"}

Configures(c) == call[c].pc \in Gated \cup {"gate"}

\* A configuration is the one in flight for its path, so it is the only one; and the
\* path has changed, if at all, since it looked.
Alone == \A c \in Calls :
    /\ call[c].pc \in Gated \cup {"idle", "gate", "wait"}
    /\ Configures(c) => inFlight[call[c].key] = c
RecreateInv ==
    PromiseInv /\ Alone /\ (\A cam \in Cameras : row[cam].enabled) /\ NoNeedlessRecreate

\* At the API's start nothing is configured.
LEMMA InitRecreate == Init => RecreateInv
<1> SUFFICES ASSUME Init
             PROVE  RecreateInv
  OBVIOUS
<1>1. PromiseInv
  BY InitPromises
<1>2. Alone /\ NoNeedlessRecreate
  BY IdleCall DEF Init, Alone, Configures, NoNeedlessRecreate, At
<1>3. \A cam \in Cameras : row[cam].enabled
  BY DEF Init
<1> QED
  BY <1>1, <1>2, <1>3 DEF RecreateInv

\* A call ends while the others' configurations stay where they are.
LEMMA OverRecreate ==
    ASSUME RecreateInv, NEW c \in Calls, ~At(c, "wait"), Over(c),
           \A k \in Keys : k # call[c].key => /\ inFlight'[k] = inFlight[k]
                                             /\ path'[k] = path[k],
           Configures(c)
    PROVE  Alone' /\ NoNeedlessRecreate'
<1> DEFINE ended == {c} \cup {q \in Calls : call[q].on = c}
<1>1. /\ \A q \in Calls \ ended : call'[q] = call[q]
      /\ \A q \in ended : call'[q] = Idle
  BY DEF Over, RecreateInv, PromiseInv, TypeOK
<1>2. \A q \in Calls \ ended : Configures(q) =>
        call[q].key \in Keys /\ call[q].key # call[c].key
  BY DEF RecreateInv, Alone, PromiseInv, TypeOK, Configures
<1>3. Alone'
  <2> SUFFICES ASSUME NEW q \in Calls
               PROVE  /\ call'[q].pc \in Gated \cup {"idle", "gate", "wait"}
                      /\ call'[q].pc \in Gated \cup {"gate"}
                           => inFlight'[call'[q].key] = q
    BY DEF Alone, Configures
  <2>1. CASE q \in ended
    BY <1>1, <2>1, IdleCall
  <2>2. CASE q \notin ended
    BY <1>1, <1>2, <2>2 DEF RecreateInv, Alone, Configures
  <2> QED
    BY <2>1, <2>2
<1>4. NoNeedlessRecreate'
  BY <1>1, <1>2, IdleCall DEF RecreateInv, NoNeedlessRecreate, At, Configures
<1> QED
  BY <1>3, <1>4

\* A configuration ends.
LEMMA SettleRecreate ==
    ASSUME RecreateInv, NEW c \in Calls, NEW ok \in BOOLEAN, Configures(c), Settle(c, ok),
           \A k \in Keys : k # call[c].key => path'[k] = path[k]
    PROVE  Alone' /\ NoNeedlessRecreate'
<1>1. \A k \in Keys : k # call[c].key => inFlight'[k] = inFlight[k]
  BY DEF Settle, RecreateInv, PromiseInv, TypeOK
<1>2. Over(c) /\ ~At(c, "wait")
  BY DEF Settle, At, Configures
<1> QED
  BY <1>1, <1>2, OverRecreate

\* A configuration goes on; it comes to its DELETE only past a path that is other.
LEMMA MovesRecreate ==
    ASSUME RecreateInv, NEW c \in Calls, NEW r \in CallType, Configures(c),
           call' = [call EXCEPT ![c] = r], r.pc \in Gated \cup {"gate"},
           r.key = call[c].key, UNCHANGED inFlight,
           \A k \in Keys : k # call[c].key => path'[k] = path[k],
           r.pc = "delete" => path'[r.key] # r.wants
    PROVE  Alone' /\ NoNeedlessRecreate'
<1>1. (\A q \in Calls \ {c} : call'[q] = call[q]) /\ call'[c] = r
  BY DEF RecreateInv, PromiseInv, TypeOK
<1>2. \A q \in Calls \ {c} : Configures(q) =>
        call[q].key \in Keys /\ call[q].key # call[c].key
  BY DEF RecreateInv, Alone, PromiseInv, TypeOK, Configures
<1>3. Alone'
  BY <1>1 DEF RecreateInv, Alone, Configures
<1>4. NoNeedlessRecreate'
  BY <1>1, <1>2 DEF RecreateInv, NoNeedlessRecreate, At, Configures
<1> QED
  BY <1>3, <1>4

\* A request starts a configuration only where none is in flight.
LEMMA EnsureRecreate ==
    ASSUME RecreateInv, NEW c \in Calls, NEW k \in Keys, At(c, "idle"), Ensure(c, k, "open"),
           UNCHANGED path
    PROVE  Alone' /\ NoNeedlessRecreate'
<1>1. \A q \in Calls \ {c} : call'[q] = call[q]
  BY DEF Ensure, RecreateInv, PromiseInv, TypeOK
<1>2. CASE inFlight[k] # None
  <2> DEFINE r == [Idle EXCEPT !.pc = "wait", !.kind = "open", !.key = k, !.on = inFlight[k]]
  <2>0. call'[c] = r /\ UNCHANGED inFlight
    BY <1>2 DEF Ensure, RecreateInv, PromiseInv, TypeOK
  <2>1. call'[c].pc = "wait" /\ UNCHANGED inFlight
    BY <2>0 DEF Idle
  <2> QED
    BY <1>1, <2>1 DEF RecreateInv, Alone, Configures, NoNeedlessRecreate, At
<1>3. CASE inFlight[k] = None
  <2> DEFINE r == [Idle EXCEPT !.pc = "gate", !.kind = "open", !.key = k]
  <2>0. call'[c] = r /\ inFlight' = [inFlight EXCEPT ![k] = c]
    BY <1>3 DEF Ensure, RecreateInv, PromiseInv, TypeOK
  <2>1. call'[c].pc = "gate" /\ call'[c].key = k /\ inFlight' = [inFlight EXCEPT ![k] = c]
    BY <2>0 DEF Idle
  <2>2. inFlight'[k] = c /\ \A j \in Keys \ {k} : inFlight'[j] = inFlight[j]
    BY <2>1 DEF RecreateInv, PromiseInv, TypeOK
  <2>3. \A q \in Calls \ {c} : Configures(q) => call[q].key \in Keys /\ call[q].key # k
    BY <1>3, NamesAssumption DEF RecreateInv, Alone, PromiseInv, TypeOK, Configures
  <2>4. Alone'
    BY <1>1, <2>1, <2>2, <2>3 DEF RecreateInv, Alone, Configures
  <2>5. NoNeedlessRecreate'
    BY <1>1, <2>1 DEF RecreateInv, NoNeedlessRecreate, At
  <2> QED
    BY <2>4, <2>5
<1> QED
  BY <1>2, <1>3

\* Every step of a call, where nothing drops a configuration, keeps it alone.
LEMMA CallStepRecreate ==
    ASSUME RecreateInv, Ops \cap DroppingOps = {}, NEW c \in Calls, CallStep(c)
    PROVE  Alone' /\ NoNeedlessRecreate' /\ UNCHANGED row
<1> USE DEF At, watchVars, cacheVars
<1>0. call[c].pc # "idle" => call[c] \in CallType /\ call[c].key \in Keys /\ Camera(c) \in Cameras
  BY CallKey DEF RecreateInv, PromiseInv, TypeOK, CallType
<1>1. CASE Gate(c)
  <2> DEFINE r == [call[c] EXCEPT !.pc = "get", !.wants = row[Camera(c)].source]
  <2>1. call[c] \in CallType /\ call[c].pc = "gate" /\ row[Camera(c)].source \in Sources
        /\ row[Camera(c)].enabled
    BY <1>0, <1>1 DEF Gate, RecreateInv, PromiseInv, TypeOK
  <2>2. r \in CallType /\ r.pc = "get" /\ r.key = call[c].key
    BY <2>1 DEF CallType, PCs
  <2>3. call' = [call EXCEPT ![c] = r] /\ UNCHANGED <<row, path, inFlight>>
    BY <1>1, <2>1 DEF Gate, RecreateInv, PromiseInv, TypeOK
  <2> QED
    BY <2>1, <2>2, <2>3, MovesRecreate DEF Configures
<1>2. CASE GateFails(c)
  BY <1>2, SettleRecreate DEF GateFails, Configures
<1>3. CASE GetSame(c)
  BY <1>3, SettleRecreate DEF GetSame, Configures
<1>4. CASE GetOther(c)
  <2> DEFINE r == [call[c] EXCEPT !.pc = "delete"]
  <2>1. call[c].pc = "get" /\ path[call[c].key] # call[c].wants
    BY <1>4 DEF GetOther
  <2>2. r \in CallType /\ r.pc = "delete" /\ r.key = call[c].key /\ r.wants = call[c].wants
    BY <1>0, <2>1 DEF CallType, PCs
  <2>3. call' = [call EXCEPT ![c] = r] /\ UNCHANGED <<row, path, inFlight>>
    BY <1>4 DEF GetOther, Goto, RecreateInv, PromiseInv, TypeOK
  <2> QED
    BY <2>1, <2>2, <2>3, MovesRecreate DEF Configures
<1>9. CASE GetFails(c)
  <2> DEFINE r == [call[c] EXCEPT !.pc = "blind"]
  <2>1. call[c].pc = "get"
    BY <1>9 DEF GetFails
  <2>2. r \in CallType /\ r.pc = "blind" /\ r.key = call[c].key
    BY <1>0, <2>1 DEF CallType, PCs
  <2>3. call' = [call EXCEPT ![c] = r] /\ UNCHANGED <<row, path, inFlight>>
    BY <1>9 DEF GetFails, Goto, RecreateInv, PromiseInv, TypeOK
  <2> QED
    BY <2>1, <2>2, <2>3, MovesRecreate DEF Configures
<1>5. CASE DeletePath(c)
  <2> DEFINE r == [call[c] EXCEPT !.pc = "post"]
  <2>1. call[c].pc \in {"delete", "blind"}
    BY <1>5 DEF DeletePath
  <2>2. r \in CallType /\ r.pc = "post" /\ r.key = call[c].key
    BY <1>0, <2>1 DEF CallType, PCs
  <2>3. call' = [call EXCEPT ![c] = r] /\ UNCHANGED <<row, inFlight>>
    BY <1>5 DEF DeletePath, Goto, RecreateInv, PromiseInv, TypeOK
  <2>4. \A k \in Keys : k # call[c].key => path'[k] = path[k]
    BY <1>5 DEF DeletePath, RecreateInv, PromiseInv, TypeOK
  <2> QED
    BY <2>1, <2>2, <2>3, <2>4, MovesRecreate DEF Configures
<1>6. CASE PostPath(c)
  <2>1. \A k \in Keys : k # call[c].key => path'[k] = path[k]
    BY <1>6 DEF PostPath, RecreateInv, PromiseInv, TypeOK
  <2> QED
    BY <1>6, <2>1, SettleRecreate DEF PostPath, Configures
<1>7. CASE PostFails(c)
  <2>1. \A k \in Keys : k # call[c].key => path'[k] = path[k]
    BY <1>7 DEF PostFails, RecreateInv, PromiseInv, TypeOK
  <2> QED
    BY <1>7, <2>1, SettleRecreate DEF PostFails, Configures
<1>8. CASE TearDown(c) \/ TearDownFails(c) \/ Stopped(c) \/ ResetDelete(c)
  BY <1>8 DEF TearDown, TearDownFails, Stopped, ResetDelete, RecreateInv, Alone
<1> QED
  BY <1>1, <1>2, <1>3, <1>4, <1>5, <1>6, <1>7, <1>8, <1>9 DEF CallStep

\* Every step does.
LEMMA RecreateStep ==
    ASSUME Ops \cap DroppingOps = {}
    PROVE  RecreateInv /\ [Next]_vars => RecreateInv'
<1> SUFFICES ASSUME RecreateInv, [Next]_vars
             PROVE  Alone' /\ (\A cam \in Cameras : row'[cam].enabled) /\ NoNeedlessRecreate'
  BY PromiseStep DEF RecreateInv
<1> USE DEF watchVars, cacheVars
<1>1. ASSUME NEW c \in Calls, CallStep(c)
      PROVE  Alone' /\ (\A cam \in Cameras : row'[cam].enabled) /\ NoNeedlessRecreate'
  BY <1>1, CallStepRecreate DEF RecreateInv
<1>2. ASSUME NEW c \in Calls, NEW k \in Keys, Open(c, k)
      PROVE  Alone' /\ (\A cam \in Cameras : row'[cam].enabled) /\ NoNeedlessRecreate'
  BY <1>2, EnsureRecreate DEF Open, RecreateInv
<1>3. ASSUME NEW c \in Calls, NEW cam \in Cameras, WarmNext(c, cam)
      PROVE  Alone' /\ (\A x \in Cameras : row'[x].enabled) /\ NoNeedlessRecreate'
  <2>1. <<cam, "grid">> \in Keys
    BY ModesAssumption DEF Keys
  <2>2. CASE UNCHANGED <<inFlight, call>>
    BY <1>3, <2>2 DEF WarmNext, RecreateInv, Alone, Configures, NoNeedlessRecreate, At
  <2>3. CASE Ensure(c, <<cam, "grid">>, "open")
    BY <1>3, <2>1, <2>3, EnsureRecreate DEF WarmNext, RecreateInv
  <2> QED
    BY <1>3, <2>2, <2>3 DEF WarmNext
<1>4. ASSUME NEW cam \in Cameras, Edit(cam)
      PROVE  Alone' /\ (\A x \in Cameras : row'[x].enabled) /\ NoNeedlessRecreate'
  <2>1. PICK s \in Sources : row' = [row EXCEPT ![cam].source = s]
    BY <1>4 DEF Edit
  <2>2. \A x \in Cameras : row'[x].enabled = row[x].enabled
    BY <2>1 DEF RecreateInv, PromiseInv, TypeOK
  <2> QED
    BY <1>4, <2>2 DEF Edit, RecreateInv, Alone, Configures, NoNeedlessRecreate, At
<1>5. CASE Tick \/ Reconcile \/ UNCHANGED vars
  BY <1>5 DEF Tick, Reconcile, vars, RecreateInv, Alone, Configures, NoNeedlessRecreate, At
<1>6. ASSUME NEW k \in Keys, Expire(k)
      PROVE  Alone' /\ (\A cam \in Cameras : row'[cam].enabled) /\ NoNeedlessRecreate'
  BY <1>6 DEF Expire, RecreateInv, Alone, Configures, NoNeedlessRecreate, At
<1>7. CASE MediaRestart
  <2>1. \A c \in Calls : call[c].pc = "delete" =>
          path'[call[c].key] = None /\ call[c].wants # None
    BY <1>7 DEF MediaRestart, RecreateInv, PromiseInv, TypeOK
  <2> QED
    BY <1>7, <2>1 DEF MediaRestart, RecreateInv, Alone, Configures, NoNeedlessRecreate, At
<1>8. CASE ApiRestart
  BY <1>8, IdleCall DEF ApiRestart, RecreateInv, Alone, Configures, NoNeedlessRecreate, At
<1>9. ASSUME NEW c \in Calls, NEW k \in Keys, ResetBegins(c, k)
      PROVE  FALSE
  BY <1>9 DEF ResetBegins, DroppingOps
<1>10. ASSUME NEW c \in Calls, NEW cam \in Cameras, Disable(c, cam)
       PROVE  FALSE
  BY <1>10 DEF Disable, DroppingOps
<1>11. ASSUME NEW cam \in Cameras, Enable(cam) \/ Advise(cam)
       PROVE  FALSE
  BY <1>11 DEF Enable, Advise, DroppingOps
<1> QED
  BY <1>1, <1>2, <1>3, <1>4, <1>5, <1>6, <1>7, <1>8, <1>9, <1>10, <1>11 DEF Next, Works

\* "Só recria quando a configuração mudou" (1090): while no camera is switched off, no
\* path is reset and no advice is applied, a request deletes no path that is as it wants
\* it; one whose GET has failed stands apart, at "blind" (1086-1092).
THEOREM NoPathRecreatedInVain ==
    ASSUME Ops \cap DroppingOps = {}
    PROVE  Spec => []NoNeedlessRecreate
<1>1. RecreateInv => NoNeedlessRecreate
  BY DEF RecreateInv
<1> QED
  BY InitRecreate, RecreateStep, <1>1, PTL DEF Spec

-----------------------------------------------------------------------------
\* The watchdog resets one path at a time, and its flag goes when the reset is over.

OneReset ==
    /\ recovering <=> \E c \in Calls : call[c].kind = "reset"
    /\ \A c, d \in Calls : call[c].kind = "reset" /\ call[d].kind = "reset" => c = d

\* Only the watchdog sends its DELETE, and what is over is no reset.
ResetInv ==
    /\ TypeOK /\ OneReset
    /\ \A c \in Calls : /\ At(c, "reset") => call[c].kind = "reset"
                        /\ At(c, "idle") => call[c].kind = "open"

\* A step that lets every call be what it is.
LEMMA KindsKept ==
    ASSUME ResetInv, TypeOK', UNCHANGED recovering,
           \A q \in Calls : /\ call'[q].kind = call[q].kind
                            /\ call'[q].pc \in {"reset", "idle"} => call'[q].pc = call[q].pc
    PROVE  ResetInv'
BY DEF ResetInv, OneReset, At

\* The watchdog's finally block, also when its reset awaited the call that ends.
LEMMA OverResets ==
    ASSUME ResetInv, TypeOK', NEW c \in Calls, Over(c)
    PROVE  ResetInv'
<1> DEFINE ended == {c} \cup {q \in Calls : call[q].on = c}
<1>1. /\ \A q \in Calls : q \in ended => call'[q] = Idle
      /\ \A q \in Calls : q \notin ended => call'[q] = call[q]
      /\ recovering' = (recovering /\ \A q \in ended : call[q].kind # "reset")
  BY DEF Over, ResetInv, TypeOK
<1>2. ended \subseteq Calls /\ Idle.kind = "open" /\ Idle.pc = "idle"
  BY DEF Idle
<1> HIDE DEF ended
<1>3. recovering' <=> \E q \in Calls : call'[q].kind = "reset"
  BY <1>1, <1>2 DEF ResetInv, OneReset
<1>4. \A q, d \in Calls : call'[q].kind = "reset" /\ call'[d].kind = "reset" => q = d
  BY <1>1, <1>2 DEF ResetInv, OneReset
<1>5. \A q \in Calls : /\ call'[q].pc = "reset" => call'[q].kind = "reset"
                       /\ call'[q].pc = "idle" => call'[q].kind = "open"
  BY <1>1, <1>2 DEF ResetInv, At
<1> QED
  BY <1>3, <1>4, <1>5 DEF ResetInv, OneReset, At

\* A call that was over begins as something else than a reset, or is the reset that
\* goes on to ensure its path.
LEMMA EnsureResets ==
    ASSUME ResetInv, TypeOK', NEW c \in Calls, NEW k \in Keys, NEW kind \in {"open", "reset"},
           Ensure(c, k, kind), UNCHANGED recovering, call[c].kind = kind
    PROVE  ResetInv'
<1>1. \A q \in Calls : q # c => call'[q] = call[q]
  BY DEF Ensure, ResetInv, TypeOK
<1>2. call'[c].kind = kind /\ call'[c].pc \in {"wait", "gate"}
  <2>1. CASE inFlight[k] # None
    <3> DEFINE r == [Idle EXCEPT !.pc = "wait", !.kind = kind, !.key = k, !.on = inFlight[k]]
    <3>1. r.kind = kind /\ r.pc = "wait"
      BY DEF Idle
    <3>2. call' = [call EXCEPT ![c] = r]
      BY <2>1 DEF Ensure
    <3> HIDE DEF r
    <3> QED
      BY <3>1, <3>2 DEF ResetInv, TypeOK
  <2>2. CASE inFlight[k] = None
    <3> DEFINE r == [Idle EXCEPT !.pc = "gate", !.kind = kind, !.key = k]
    <3>1. r.kind = kind /\ r.pc = "gate"
      BY DEF Idle
    <3>2. call' = [call EXCEPT ![c] = r]
      BY <2>2 DEF Ensure
    <3> HIDE DEF r
    <3> QED
      BY <3>1, <3>2 DEF ResetInv, TypeOK
  <2> QED
    BY <2>1, <2>2
<1> QED
  BY <1>1, <1>2, KindsKept

LEMMA BeginTearDownResets ==
    ASSUME ResetInv, TypeOK', NEW c \in Calls, BeginTearDown(c), UNCHANGED recovering
    PROVE  ResetInv'
<1>1. \A q \in Calls : /\ call'[q].kind = call[q].kind
                       /\ call'[q].pc \in {"reset", "idle"} => call'[q].pc = call[q].pc
  BY DEF BeginTearDown, ResetInv, TypeOK
<1> QED
  BY <1>1, KindsKept

LEMMA GotoResets ==
    ASSUME ResetInv, TypeOK', NEW c \in Calls, NEW l \in PCs \ {"reset", "idle"}, Goto(c, l),
           UNCHANGED recovering
    PROVE  ResetInv'
<1>1. \A q \in Calls : /\ call'[q].kind = call[q].kind
                       /\ call'[q].pc \in {"reset", "idle"} => call'[q].pc = call[q].pc
  BY DEF Goto, ResetInv, TypeOK
<1> QED
  BY <1>1, KindsKept

LEMMA TornDownResets ==
    ASSUME ResetInv, TypeOK', NEW c \in Calls, TornDown(c)
    PROVE  ResetInv'
<1> DEFINE left == call[c].left \ {First(call[c].left)}
<1>1. CASE left # {}
  <2>1. call' = [call EXCEPT ![c].left = left] /\ UNCHANGED recovering
    BY <1>1 DEF TornDown
  <2>2. \A q \in Calls : call'[q].kind = call[q].kind /\ call'[q].pc = call[q].pc
    BY <2>1 DEF ResetInv, TypeOK
  <2> QED
    BY <2>1, <2>2, KindsKept
<1>2. CASE left = {}
  BY <1>2, OverResets DEF TornDown
<1> QED
  BY <1>1, <1>2

LEMMA CallStepResets ==
    ASSUME ResetInv, TypeOK', NEW c \in Calls, CallStep(c)
    PROVE  ResetInv'
<1>1. CASE Gate(c)
  <2>1. CASE row[Camera(c)].enabled
    <3> DEFINE r == [call[c] EXCEPT !.pc = "get", !.wants = row[Camera(c)].source]
    <3>1. call' = [call EXCEPT ![c] = r] /\ UNCHANGED recovering
      BY <1>1, <2>1 DEF Gate, watchVars, ResetInv, TypeOK
    <3>2. r.pc = "get" /\ r.kind = call[c].kind
      BY DEF ResetInv, TypeOK
    <3> HIDE DEF r
    <3>3. \A q \in Calls : /\ call'[q].kind = call[q].kind
                           /\ call'[q].pc \in {"reset", "idle"} => call'[q].pc = call[q].pc
      BY <3>1, <3>2 DEF ResetInv, TypeOK
    <3> QED
      BY <3>1, <3>3, KindsKept
  <2>2. CASE ~row[Camera(c)].enabled
    BY <1>1, <2>2, BeginTearDownResets DEF Gate, watchVars
  <2> QED
    BY <2>1, <2>2
<1>2. CASE GateFails(c) \/ GetSame(c) \/ PostPath(c) \/ PostFails(c)
  BY <1>2, OverResets DEF GateFails, GetSame, PostPath, PostFails, Settle
<1>3. CASE GetOther(c) \/ GetFails(c) \/ DeletePath(c)
  <2>1. \E l \in {"delete", "blind", "post"} : Goto(c, l) /\ UNCHANGED recovering
    BY <1>3 DEF GetOther, GetFails, DeletePath, watchVars
  <2> QED
    BY <2>1, GotoResets DEF PCs
<1>4. CASE TearDown(c) \/ TearDownFails(c)
  BY <1>4, TornDownResets DEF TearDown, TearDownFails
<1>5. CASE Stopped(c)
  BY <1>5, BeginTearDownResets DEF Stopped, watchVars
<1>6. CASE ResetDelete(c)
  <2>1. call[c].kind = "reset" /\ call[c].key \in Keys
    BY <1>6 DEF ResetDelete, ResetInv, TypeOK, At
  <2> QED
    BY <1>6, <2>1, OverResets, EnsureResets DEF ResetDelete
<1> QED
  BY <1>1, <1>2, <1>3, <1>4, <1>5, <1>6 DEF CallStep

LEMMA ResetStep == ResetInv /\ [Next]_vars => ResetInv'
<1> SUFFICES ASSUME ResetInv, [Next]_vars
             PROVE  ResetInv'
  OBVIOUS
<1>1. TypeOK'
  BY TypeStep DEF ResetInv
<1>2. ASSUME NEW c \in Calls, CallStep(c)  PROVE ResetInv'
  BY <1>1, <1>2, CallStepResets
<1>3. ASSUME NEW c \in Calls, NEW k \in Keys, Ensure(c, k, "open"), At(c, "idle"), UNCHANGED recovering
      PROVE  ResetInv'
  BY <1>1, <1>3, EnsureResets DEF ResetInv
<1>4. ASSUME NEW c \in Calls, NEW k \in Keys, Open(c, k)
      PROVE  ResetInv'
  BY <1>3, <1>4 DEF Open, watchVars
<1>5. ASSUME NEW c \in Calls, NEW cam \in Cameras, WarmNext(c, cam)
      PROVE  ResetInv'
  <2>1. <<cam, "grid">> \in Keys
    BY ModesAssumption DEF Keys
  <2>2. CASE UNCHANGED <<inFlight, call>>
    BY <1>1, <1>5, <2>2, KindsKept DEF WarmNext
  <2> QED
    BY <1>3, <1>5, <2>1, <2>2 DEF WarmNext
<1>6. ASSUME NEW c \in Calls, NEW k \in Keys, ResetBegins(c, k)
      PROVE  ResetInv'
  <2>1. /\ recovering = FALSE /\ recovering' = TRUE
        /\ \A q \in Calls \ {c} : call'[q] = call[q]
        /\ call'[c].kind = "reset" /\ call'[c].pc = "reset"
    BY <1>6 DEF ResetBegins, Idle, ResetInv, TypeOK
  <2>2. \A q \in Calls : call[q].kind # "reset"
    BY <2>1 DEF ResetInv, OneReset
  <2> QED
    BY <1>1, <2>1, <2>2 DEF ResetInv, OneReset, At
<1>7. ASSUME NEW c \in Calls, NEW cam \in Cameras, Disable(c, cam)
      PROVE  ResetInv'
  <2>1. /\ UNCHANGED recovering
        /\ \A q \in Calls \ {c} : call'[q] = call[q]
        /\ call'[c].kind = "disable" /\ call'[c].pc = "stop" /\ call[c].kind = "open"
    BY <1>7 DEF Disable, Idle, ResetInv, TypeOK, watchVars, At
  <2> QED
    BY <1>1, <2>1 DEF ResetInv, OneReset, At
<1>8. CASE \/ \E cam \in Cameras : Enable(cam) \/ Edit(cam) \/ Advise(cam)
           \/ Tick \/ Reconcile \/ MediaRestart
           \/ \E k \in Keys : Expire(k)
           \/ UNCHANGED vars
  <2>1. UNCHANGED <<call, recovering>>
    BY <1>8 DEF Enable, Edit, Advise, Tick, Reconcile, MediaRestart, Expire, vars, watchVars
  <2> QED
    BY <1>1, <2>1, KindsKept
<1>9. CASE ApiRestart
  <2>1. recovering' = FALSE /\ \A q \in Calls : call'[q].kind = "open" /\ call'[q].pc = "idle"
    BY <1>9 DEF ApiRestart, Idle
  <2> QED
    BY <1>1, <2>1 DEF ResetInv, OneReset, At
<1> QED
  BY <1>2, <1>4, <1>5, <1>6, <1>7, <1>8, <1>9 DEF Next, Works

LEMMA InitReset == Init => ResetInv
<1> SUFFICES ASSUME Init
             PROVE  ResetInv
  OBVIOUS
<1>1. TypeOK
  BY InitTypes
<1>2. recovering = FALSE /\ \A c \in Calls : call[c].kind = "open" /\ call[c].pc = "idle"
  BY IdleCall DEF Init
<1> QED
  BY <1>1, <1>2 DEF ResetInv, OneReset, At

\* recovering is set exactly while one reset of a stuck path is on its way, also when
\* the reset ends because the configuration it joined fails, or runs into a teardown
\* (196-212): the watchdog neither resets two paths at once nor stops resetting.
THEOREM ResetsOneAtATime == Spec => []OneReset
<1>1. ResetInv => OneReset
  BY DEF ResetInv
<1> QED
  BY InitReset, ResetStep, <1>1, PTL DEF Spec

-----------------------------------------------------------------------------
\* A camera that is switched off

\* Only the configurations under way when a camera was switched off are past the gate.
GatedAreStray == \A k \in Keys : ~row[k[1]].enabled /\ PastGate(k) => k \in stray
DarkInv == TypeOK /\ GatedAreStray /\ DisabledIsDark

\* A step that switches nothing: what it makes of the calls, the paths and stray.
LEMMA DarkFrame ==
    ASSUME DarkInv, TypeOK', \A cam \in Cameras : row'[cam].enabled = row[cam].enabled,
           \A k \in Keys : PastGate(k)' => PastGate(k) \/ row[k[1]].enabled,
           \A k \in Keys : ~row[k[1]].enabled /\ path'[k] # None =>
                             path[k] # None \/ PastGate(k),
           \A k \in Keys : ~row[k[1]].enabled /\ path'[k] # None /\ Doomed(k) =>
                             Doomed(k)' \/ k \in stray',
           \A k \in stray : k \in stray' \/ (~PastGate(k)' /\ path'[k] = None)
    PROVE  DarkInv'
<1>1. \A k \in Keys : k[1] \in Cameras
  BY DEF Keys
<1>2. GatedAreStray'
  BY <1>1 DEF DarkInv, GatedAreStray
<1>3. DisabledIsDark'
  <2> SUFFICES ASSUME NEW k \in Keys, ~row'[k[1]].enabled, path'[k] # None
               PROVE  Doomed(k)' \/ k \in stray'
    BY DEF DisabledIsDark
  <2>1. Doomed(k) \/ k \in stray
    BY <1>1 DEF DarkInv, GatedAreStray, DisabledIsDark
  <2> QED
    BY <1>1, <2>1
<1> QED
  BY <1>2, <1>3 DEF DarkInv

\* A call past the gate goes on, or is over, and no teardown moves.
LEMMA DarkCall ==
    ASSUME DarkInv, TypeOK', UNCHANGED <<row, stray>>, NEW c \in Calls,
           ~At(c, "stop"), ~At(c, "down"),
           \A q \in Calls \ {c} : call'[q] = call[q] \/ (call'[q] = Idle /\ At(q, "wait")),
           call'[c].pc \in Gated => /\ call'[c].key = call[c].key
                                    /\ call[c].pc \in Gated \/ row[Camera(c)].enabled,
           \A k \in Keys : path'[k] # None => path[k] # None \/ PastGate(k)
    PROVE  DarkInv'
<1>1. \A k \in Keys : PastGate(k)' => PastGate(k) \/ row[k[1]].enabled
  BY IdleCall DEF PastGate, Camera
<1>2. \A k \in Keys : Doomed(k) => Doomed(k)'
  BY DEF Doomed, At, Camera, OfCamera
<1> QED
  BY <1>1, <1>2, DarkFrame

\* Calls that are over were waiting, but for the one that ends them.
LEMMA OverWaits ==
    ASSUME PromiseInv, NEW c \in Calls, Over(c)
    PROVE  /\ call'[c] = Idle
           /\ \A q \in Calls \ {c} : call'[q] = call[q] \/ (call'[q] = Idle /\ At(q, "wait"))
BY NamesAssumption DEF Over, PromiseInv, Awaiting, TypeOK

\* A step that leaves the calls, the rows and stray as they are.
LEMMA DarkStill ==
    ASSUME DarkInv, TypeOK', UNCHANGED <<call, stray>>,
           \A cam \in Cameras : row'[cam].enabled = row[cam].enabled,
           \A k \in Keys : path'[k] # None => path[k] # None
    PROVE  DarkInv'
<1>1. \A k \in Keys : PastGate(k)' <=> PastGate(k)
  BY DEF PastGate
<1>2. \A k \in Keys : Doomed(k)' <=> Doomed(k)
  BY DEF Doomed, At, Camera
<1> QED
  BY <1>1, <1>2, DarkFrame

\* The next mode of a teardown has its turn.
LEMMA TornDownDark ==
    ASSUME DarkInv, PromiseInv, NEW c \in Calls, At(c, "down"), TornDown(c)
    PROVE  /\ \A k \in Keys : PastGate(k)' => PastGate(k)
           /\ \A k \in Keys : Doomed(k) /\ k # Falling(c) => Doomed(k)'
<1> DEFINE left == call[c].left \ {First(call[c].left)}
<1>1. /\ \A q \in Calls \ {c} : call'[q] = call[q] \/ (call'[q] = Idle /\ At(q, "wait"))
      /\ left # {} => /\ call'[c].pc = "down" /\ call'[c].left = left
                      /\ call'[c].key = call[c].key
      /\ left = {} => call'[c] = Idle
  <2>1. CASE left # {}
    BY <2>1 DEF TornDown, DarkInv, TypeOK, At
  <2>2. CASE left = {}
    BY <2>2, OverWaits DEF TornDown
  <2> QED
    BY <2>1, <2>2
<1>2. \A k \in Keys : PastGate(k)' => PastGate(k)
  BY <1>1, IdleCall DEF PastGate, At
<1>3. ASSUME NEW k \in Keys, Doomed(k), k # Falling(c)
      PROVE  Doomed(k)'
  <2>1. PICK q \in Calls : /\ call[q].key # None /\ OfCamera(k, Camera(q))
                           /\ At(q, "stop") \/ (At(q, "down") /\ k[2] \in call[q].left)
    BY <1>3 DEF Doomed
  <2>2. CASE q # c
    BY <1>1, <2>1, <2>2 DEF Doomed, At, Camera
  <2>3. CASE q = c
    <3>1. k = <<k[1], k[2]>>
      BY DEF Keys
    <3>2. k[2] # First(call[c].left)
      BY <1>3, <2>1, <2>3, <3>1 DEF Falling, OfCamera
    <3>3. k[2] \in left
      BY <2>1, <2>3, <3>2 DEF At
    <3> QED
      BY <1>1, <2>1, <2>3, <3>3 DEF Doomed, At, Camera
  <2> QED
    BY <2>2, <2>3
<1> QED
  BY <1>2, <1>3

\* A call that asks for a path waits, or is before the gate.
LEMMA EnsureCalls ==
    ASSUME TypeOK, NEW c \in Calls, NEW k, NEW kind, Ensure(c, k, kind)
    PROVE  /\ \A q \in Calls \ {c} : call'[q] = call[q]
           /\ call'[c].pc \notin Gated
<1>1. CASE inFlight[k] # None
  <2>1. call' = [call EXCEPT ![c] = [Idle EXCEPT !.pc = "wait", !.kind = kind, !.key = k,
                                                 !.on = inFlight[k]]]
    BY <1>1 DEF Ensure
  <2>2. [Idle EXCEPT !.pc = "wait", !.kind = kind, !.key = k, !.on = inFlight[k]].pc = "wait"
    BY DEF Idle
  <2> QED
    BY <2>1, <2>2 DEF TypeOK
<1>2. CASE inFlight[k] = None
  <2>1. call' = [call EXCEPT ![c] = [Idle EXCEPT !.pc = "gate", !.kind = kind, !.key = k]]
    BY <1>2 DEF Ensure
  <2>2. [Idle EXCEPT !.pc = "gate", !.kind = kind, !.key = k].pc = "gate"
    BY DEF Idle
  <2> QED
    BY <2>1, <2>2 DEF TypeOK
<1> QED
  BY <1>1, <1>2

\* Every step of a call keeps the disabled cameras dark.
LEMMA CallStepDark ==
    ASSUME DarkInv, PromiseInv, TypeOK', NEW c \in Calls, CallStep(c)
    PROVE  DarkInv'
<1> USE DEF At, watchVars, cacheVars
<1>1. CASE Gate(c)
  <2>1. /\ call[c].pc = "gate" /\ UNCHANGED <<row, path, stray>>
        /\ \A q \in Calls \ {c} : call'[q] = call[q]
        /\ call'[c].pc \in Gated => call'[c].key = call[c].key /\ row[Camera(c)].enabled
    BY <1>1 DEF Gate, BeginTearDown, DarkInv, TypeOK
  <2> QED
    BY <2>1, DarkCall
<1>2. CASE GateFails(c) \/ GetSame(c) \/ PostPath(c) \/ PostFails(c)
  <2>1. Over(c) /\ UNCHANGED <<row, stray>> /\ call[c].pc \in Gated \cup {"gate"}
    BY <1>2 DEF GateFails, GetSame, PostPath, PostFails, Settle
  <2>2. call[c].pc = "post" => PastGate(call[c].key)
    BY DEF PastGate
  <2>3. \A k \in Keys : path'[k] # None => path[k] # None \/ PastGate(k)
    BY <1>2, <2>2 DEF GateFails, GetSame, PostPath, PostFails, DarkInv, TypeOK
  <2> QED
    BY <2>1, <2>3, OverWaits, DarkCall, IdleCall
<1>3. CASE GetOther(c) \/ GetFails(c) \/ DeletePath(c)
  <2>1. /\ call[c].pc \in Gated /\ UNCHANGED <<row, stray>>
        /\ \A q \in Calls \ {c} : call'[q] = call[q]
        /\ call'[c].key = call[c].key
    BY <1>3 DEF GetOther, GetFails, DeletePath, Goto, DarkInv, TypeOK
  <2>2. \A k \in Keys : path'[k] # None => path[k] # None
    BY <1>3 DEF GetOther, GetFails, DeletePath, DarkInv, TypeOK
  <2> QED
    BY <2>1, <2>2, DarkCall
<1>4. CASE TearDown(c)
  <2>1. /\ \A k \in Keys : PastGate(k)' => PastGate(k)
        /\ \A k \in Keys : Doomed(k) /\ k # Falling(c) => Doomed(k)'
    BY <1>4, TornDownDark DEF TearDown
  <2>2. /\ row' = row /\ path'[Falling(c)] = None
        /\ \A k \in Keys : k # Falling(c) => path'[k] = path[k]
        /\ stray' = {k \in stray : k # Falling(c) \/ PastGate(k)}
    BY <1>4, FallingKey DEF TearDown, DarkInv, TypeOK
  <2> HIDE DEF At
  <2> QED
    BY <2>1, <2>2, DarkFrame DEF DarkInv, TypeOK
<1>5. CASE TearDownFails(c)
  <2>1. /\ \A k \in Keys : PastGate(k)' => PastGate(k)
        /\ \A k \in Keys : Doomed(k) /\ k # Falling(c) => Doomed(k)'
    BY <1>5, TornDownDark DEF TearDownFails
  <2>2. /\ row' = row /\ path' = path /\ Falling(c)[1] = Camera(c)
        /\ stray' = stray \cup {k \in {Falling(c)} : path[k] # None /\ ~row[Camera(c)].enabled}
    BY <1>5, FallingKey DEF TearDownFails, DarkInv
  <2> QED
    BY <2>1, <2>2, DarkFrame
<1>6. CASE Stopped(c)
  <2>1. /\ row' = row /\ path' = path /\ stray' = stray /\ call[c].pc = "stop"
        /\ \A q \in Calls \ {c} : call'[q] = call[q]
        /\ call'[c].pc = "down" /\ call'[c].left = Modes /\ call'[c].key = call[c].key
    BY <1>6 DEF Stopped, BeginTearDown, DarkInv, TypeOK
  <2>2. \A k \in Keys : PastGate(k)' => PastGate(k)
    BY <2>1 DEF PastGate
  <2>3. \A k \in Keys : Doomed(k) => Doomed(k)'
    BY <2>1 DEF Doomed, Camera, Keys
  <2> QED
    BY <2>1, <2>2, <2>3, DarkFrame
<1>7. CASE ResetDelete(c)
  <2>1. /\ call[c].pc = "reset" /\ UNCHANGED <<row, stray>>
        /\ \A k \in Keys : path'[k] # None => path[k] # None
    BY <1>7 DEF ResetDelete, DarkInv, TypeOK
  <2>2. /\ \A q \in Calls \ {c} : call'[q] = call[q] \/ (call'[q] = Idle /\ At(q, "wait"))
        /\ call'[c].pc \notin Gated
    <3>1. CASE Over(c)
      BY <3>1, OverWaits, IdleCall
    <3>2. CASE Ensure(c, call[c].key, "reset")
      BY <3>2, EnsureCalls DEF DarkInv
    <3> QED
      BY <1>7, <3>1, <3>2 DEF ResetDelete
  <2> QED
    BY <2>1, <2>2, DarkCall
<1> QED
  BY <1>1, <1>2, <1>3, <1>4, <1>5, <1>6, <1>7 DEF CallStep

\* Every step does.
LEMMA DarkStep == DarkInv /\ PromiseInv /\ [Next]_vars => DarkInv'
<1> SUFFICES ASSUME DarkInv, PromiseInv, [Next]_vars
             PROVE  DarkInv'
  OBVIOUS
<1> USE DEF watchVars, cacheVars
<1>0. TypeOK'
  BY TypeStep DEF DarkInv
<1>1. ASSUME NEW c \in Calls, CallStep(c)
      PROVE  DarkInv'
  BY <1>0, <1>1, CallStepDark
<1>2. ASSUME NEW c \in Calls, call[c].pc = "idle", UNCHANGED <<row, path, stray>>,
             \A q \in Calls \ {c} : call'[q] = call[q], call'[c].pc \notin Gated
      PROVE  DarkInv'
  BY <1>0, <1>2, DarkCall DEF At
<1>3. ASSUME NEW c \in Calls, NEW k, NEW kind, call[c].pc = "idle", Ensure(c, k, kind)
      PROVE  /\ \A q \in Calls \ {c} : call'[q] = call[q]
             /\ call'[c].pc \notin Gated
  BY <1>3, EnsureCalls DEF DarkInv
<1>4. ASSUME NEW c \in Calls, NEW k \in Keys, Open(c, k) \/ ResetBegins(c, k)
      PROVE  DarkInv'
  <2>1. CASE Open(c, k)
    BY <1>2, <1>3, <2>1 DEF Open, At
  <2>2. CASE ResetBegins(c, k)
    <3>1. /\ \A q \in Calls \ {c} : call'[q] = call[q]
          /\ call'[c].pc \notin Gated
      BY <2>2 DEF ResetBegins, Idle, DarkInv, TypeOK
    <3> QED
      BY <1>2, <2>2, <3>1 DEF ResetBegins, At
  <2> QED
    BY <1>4, <2>1, <2>2
<1>5. ASSUME NEW c \in Calls, NEW cam \in Cameras, Disable(c, cam)
      PROVE  DarkInv'
  <2>1. /\ call[c].pc = "idle" /\ path' = path
        /\ \A q \in Calls \ {c} : call'[q] = call[q]
        /\ call'[c].pc = "stop" /\ call'[c].key = <<cam, "grid">>
        /\ \A o \in Cameras \ {cam} : row'[o].enabled = row[o].enabled
        /\ stray' = stray \cup {k \in Keys : OfCamera(k, cam) /\ PastGate(k)}
    BY <1>5 DEF Disable, Idle, At, DarkInv, TypeOK
  <2>2. \A k \in Keys : PastGate(k)' => PastGate(k)
    BY <2>1 DEF PastGate
  <2>3. \A k \in Keys : k[1] = cam \/ Doomed(k) => Doomed(k)'
    BY <2>1, NamesAssumption, ModesAssumption DEF Doomed, Camera, At, OfCamera, Keys
  <2>4. \A k \in Keys : k[1] \in Cameras
    BY DEF Keys
  <2> QED
    BY <1>0, <2>1, <2>2, <2>3, <2>4 DEF DarkInv, GatedAreStray, DisabledIsDark, OfCamera
<1>6. ASSUME NEW c \in Calls, NEW cam \in Cameras, WarmNext(c, cam)
      PROVE  DarkInv'
  <2>1. CASE UNCHANGED call
    BY <1>0, <1>6, <2>1, DarkStill DEF WarmNext
  <2>2. CASE Ensure(c, <<cam, "grid">>, "open")
    BY <1>2, <1>3, <1>6, <2>2 DEF WarmNext, At
  <2> QED
    BY <1>6, <2>1, <2>2 DEF WarmNext
<1>7. ASSUME NEW cam \in Cameras, Enable(cam)
      PROVE  DarkInv'
  <2>1. /\ UNCHANGED <<path, call>> /\ row'[cam].enabled
        /\ \A o \in Cameras \ {cam} : row'[o].enabled = row[o].enabled
        /\ stray' = {k \in stray : ~OfCamera(k, cam)}
    BY <1>7 DEF Enable, DarkInv, TypeOK
  <2>2. /\ \A k \in Keys : PastGate(k)' <=> PastGate(k)
        /\ \A k \in Keys : Doomed(k)' <=> Doomed(k)
        /\ \A k \in Keys : k[1] \in Cameras
    BY <2>1 DEF PastGate, Doomed, At, Camera, Keys
  <2> QED
    BY <1>0, <2>1, <2>2 DEF DarkInv, GatedAreStray, DisabledIsDark, OfCamera
<1>8. ASSUME NEW cam \in Cameras, Edit(cam) \/ Advise(cam)
      PROVE  DarkInv'
  <2>1. PICK s \in Sources : row' = [row EXCEPT ![cam].source = s]
    BY <1>8 DEF Edit, Advise
  <2>2. \A o \in Cameras : row'[o].enabled = row[o].enabled
    BY <2>1 DEF DarkInv, TypeOK
  <2> QED
    BY <1>0, <1>8, <2>2, DarkStill DEF Edit, Advise
<1>9. CASE Tick \/ Reconcile \/ MediaRestart
  BY <1>0, <1>9, DarkStill DEF Tick, Reconcile, MediaRestart
<1>10. ASSUME NEW k \in Keys, Expire(k)
       PROVE  DarkInv'
  BY <1>0, <1>10, DarkStill DEF Expire
<1>11. CASE ApiRestart
  <2>1. \A k \in Keys : ~PastGate(k)'
    BY <1>11, IdleCall DEF ApiRestart, PastGate
  <2> QED
    BY <1>0, <1>11, <2>1 DEF ApiRestart, DarkInv, GatedAreStray, DisabledIsDark
<1>12. CASE UNCHANGED vars
  BY <1>0, <1>12, DarkStill DEF vars
<1> QED
  BY <1>1, <1>4, <1>5, <1>6, <1>7, <1>8, <1>9, <1>10, <1>11, <1>12 DEF Next, Works

\* A disabled camera has a path only while a teardown has still to come to it, or where
\* one failed, was cut short, or met a configuration past the gate (887-893): whatever
\* is asked for, warmed up, reset or fails, nothing else makes or keeps one.
THEOREM DisabledIsAlwaysDark == Spec => []DisabledIsDark
<1>1. Init => DarkInv
  <2> SUFFICES ASSUME Init PROVE DarkInv
    OBVIOUS
  <2>1. TypeOK
    BY InitTypes
  <2>2. \A k \in Keys : ~PastGate(k) /\ path[k] = None
    BY IdleCall DEF Init, PastGate
  <2> QED
    BY <2>1, <2>2 DEF DarkInv, GatedAreStray, DisabledIsDark
<1>2. DarkInv => DisabledIsDark
  BY DEF DarkInv
<1> QED
  BY InitPromises, PromiseStep, DarkStep, <1>1, <1>2, PTL DEF Spec
=============================================================================
