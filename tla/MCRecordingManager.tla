------------------------- MODULE MCRecordingManager -------------------------
(* Instances of RecordingManager for TLC: which operations and which events  *)
(* of the environment a run admits. The number of handlers in flight and of  *)
(* FFmpeg identities is given in each cfg.                                   *)
EXTENDS RecordingManager, TLC

Symmetry == Permutations(Calls) \cup Permutations(Procs)

\* Everything the service does.
EveryOp == Kinds \cup EnvOps

\* Operators, their reconnections, the health check and a database that fails now and then; none of
\* the operations that write recordingEnabled blindly.
SightedOps == {"userStart", "userStop", "restart", "reconnect", "boot", "die",
               "dbFails", "crash", "age"}

\* Everything but failures of start()'s and stop()'s own queries, for one handler at
\* a time.
SequentialOps == EveryOp \ {"dbFails"}
=============================================================================
