----------------------------- MODULE MCHidUnlock -----------------------------
(***************************************************************************)
(* HidUnlock with two slots, and readings whose windows of three fall on   *)
(* both sides of every threshold.                                          *)
(***************************************************************************)
EXTENDS HidUnlock

CONSTANTS A, B

TwoPhones == {A, B}
MCBondNum == 2
MCReadings == {-40, -90}
OneLevel == {-75}
=============================================================================
