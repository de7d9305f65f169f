----------------------------- MODULE MCMeterReport -----------------------------
(***************************************************************************)
(* MeterReport on a small instance: queues short enough for events and     *)
(* uploads to be lost, a pool small enough to be emptied by alarms.        *)
(***************************************************************************)
EXTENDS MeterReport

MCQMax == 2
MCPoolSize == 2
MCUMax == 2
=============================================================================
