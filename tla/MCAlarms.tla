------------------------------ MODULE MCAlarms ------------------------------
(* An instance of Alarms for TLC: movement, and a stream that fails and      *)
(* recovers.                                                                 *)
EXTENDS Alarms, TLC

StreamRecovers == {{"stream"}}
TwoAlarms == 1..2
=============================================================================
