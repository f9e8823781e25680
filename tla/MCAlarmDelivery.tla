--------------------------- MODULE MCAlarmDelivery ---------------------------
(* An instance of AlarmDelivery for TLC: alarms of one kind, and the default  *)
(* plan of priorities P3 and P4.                                              *)
EXTENDS AlarmDelivery, TLC

PlanOfP3 == <<"webhook", "push">>
TwoAlarms == 1..2
==============================================================================
