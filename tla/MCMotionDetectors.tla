-------------------------- MODULE MCMotionDetectors --------------------------
(* An instance of MotionDetectors for TLC.                                   *)
EXTENDS MotionDetectors, TLC
==============================================================================
