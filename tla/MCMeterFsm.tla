------------------------------ MODULE MCMeterFsm ------------------------------
(***************************************************************************)
(* MeterFsm on a small instance: a queue short enough for posts to be lost *)
(* and a pool small enough to be emptied by disarmed alarms.               *)
(***************************************************************************)
EXTENDS MeterFsm

MCQMax == 3
MCPoolSize == 2
=============================================================================
