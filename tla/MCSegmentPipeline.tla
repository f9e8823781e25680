-------------------------- MODULE MCSegmentPipeline --------------------------
(* Instances of SegmentPipeline for TLC: which failures and overlaps a run   *)
(* admits. The segments and the recording states are given in each cfg.      *)
EXTENDS SegmentPipeline, TLC

Symmetry == Permutations(States)

\* Recordings one after another, a recovery while nothing records; everything
\* may fail, the API may crash, files may grow old enough to be given up.
RecoveryOps == {"recovery", "remuxFails", "probeFails", "dbFails", "crash", "time"}

\* For liveness: a camera starts to record while a recovery works on what an earlier
\* recording left behind. No crash: the partial .mp4 a crash leaves is replaced by a
\* recovery only, which passes over a camera that records for good.
TogetherOps == {"recovery", "remuxFails", "probeFails", "dbFails", "time", "startInRecovery"}
=============================================================================
