------------------------------- MODULE Archive -------------------------------
(***************************************************************************)
(* What the recording process manager promises about a camera's footage:   *)
(* segments are recorded one after the other; a recorded segment comes to  *)
(* be listed, for good, and only one that has grown old unlisted may be    *)
(* lost. How files, remuxes, scans and the recovery get there is           *)
(* SegmentPipeline's.                                                      *)
(***************************************************************************)
EXTENDS Naturals

CONSTANT Segs       \* segments, numbered in the order they are recorded

VARIABLES
    recorded,       \* the segments that were ever recorded
    old,            \* those too old to be kept if they are of no use
    listed,         \* those a row names
    lost            \* those there is no footage of any more

vars == <<recorded, old, listed, lost>>

Record(s) ==
    /\ s \notin recorded
    /\ \A q \in Segs : q < s => q \in recorded
    /\ recorded' = recorded \cup {s}
    /\ UNCHANGED <<old, listed, lost>>

\* Several grow old together.
GrowOld ==
    /\ old' \in SUBSET recorded /\ old \subseteq old'
    /\ UNCHANGED <<recorded, listed, lost>>

List(s) ==
    /\ s \in recorded \ lost
    /\ listed' = listed \cup {s}
    /\ UNCHANGED <<recorded, old, lost>>

GiveUp(s) ==
    /\ s \in old \ listed
    /\ lost' = lost \cup {s}
    /\ UNCHANGED <<recorded, old, listed>>

Init == recorded = {} /\ old = {} /\ listed = {} /\ lost = {}

Next == GrowOld \/ \E s \in Segs : Record(s) \/ List(s) \/ GiveUp(s)

Spec == Init /\ [][Next]_vars
=============================================================================
