---------------------------- MODULE MCRetention ----------------------------
(* Instances of Retention for TLC: recordings, what clips are cut from, and  *)
(* what operators put under hold.                                            *)
EXTENDS Retention, TLC

CONSTANTS c1, r1, r2

RunsAreAlike == Permutations({r1, r2})

SourceOne == [c \in {c1} |-> 1]
TwoRecordings == 1..2

\* The clip, or nothing.
HeldSets == {{}, {c1}}

NoClips == [c \in {} |-> 1]
HeldOne == {{}, {1}}

SafetyOps == {"age", "disk", "all", "unhold", "export", "dbFails", "crash"}
LivenessOps == {"age", "disk", "all", "thumbs", "switch", "dbFails", "rmFails", "crash"}
=============================================================================
