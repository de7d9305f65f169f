---------------------------- MODULE MCRotationDet ----------------------------
(***************************************************************************)
(* RotationDet with the program's release time of a ride; that of an alarm *)
(* is 10 in the program, and longer than the ride's here as there.         *)
(***************************************************************************)
EXTENDS RotationDet

MCAlarmRelease == 3
MCTravelRelease == 2
MCEventMax == 3
=============================================================================
