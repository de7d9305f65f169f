------------------------------- MODULE MCBleFrame -------------------------------
(***************************************************************************)
(* BleFrame with packets of 100 bytes: frames of one, two and three        *)
(* fragments, the length of the last coded in two digits, and one that is  *)
(* too long.                                                               *)
(***************************************************************************)
EXTENDS BleFrame

MCPacketLen == 100
MCFrameMax == 200
MCQMax == 3
MCMaxLinks == 2
MCMaxFrames == 2
MCFrameLens == {97, 98, 200, 201}
=============================================================================
