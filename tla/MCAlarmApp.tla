------------------------------ MODULE MCAlarmApp ------------------------------
(* "%", ".", "/", "2", "E", "F", "f" and the target "/2", which is the one  *)
(* request the other threads move beside.                                   *)
EXTENDS AlarmApp

CONSTANTS b1, b2

MCTarget == <<47, 50>>
MCBeside == {MCTarget}
=============================================================================
