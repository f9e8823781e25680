---------------------------- MODULE MCLivePaths ----------------------------
(* Instances of LivePaths for TLC: what happens besides requests in a run,   *)
(* and whose paths somebody keeps asking for.                                *)
EXTENDS LivePaths

\* Requests, edits, an API and a database that fail now and then, restarts; nothing that drops
\* a configuration in flight from the map.
SharedOps == {"edit", "apiFails", "getFails", "dbFails", "mediaRestart", "apiRestart"}

\* Everything but edits and failures of the database.
RepairOps == {"switch", "advise", "stuck", "apiFails", "getFails", "mediaRestart", "apiRestart"}

NoneViewed == {}
GridViewed == Cameras \X {"grid"}
=============================================================================
