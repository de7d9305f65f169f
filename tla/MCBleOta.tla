------------------------------- MODULE MCBleOta -------------------------------
(***************************************************************************)
(* BleOta with three sectors of two packets, and files shorter than the    *)
(* slot, as long as it, and longer.                                        *)
(***************************************************************************)
EXTENDS BleOta, TLC

CONSTANTS short, full, long

MCFiles == {short, full, long}
MCLength == short :> 5 @@ full :> 6 @@ long :> 7
MCVersion == short :> 1 @@ full :> 1 @@ long :> 2 @@ Factory :> 0
=============================================================================
