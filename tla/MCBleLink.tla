------------------------------- MODULE MCBleLink -------------------------------
(***************************************************************************)
(* BleLink with a queue of three: a frame, the end of its link and the    *)
(* next connection fit, and a burst of frames fills it.  The unbinding     *)
(* that is taken from any link stands for the one that needs pairing.      *)
(***************************************************************************)
EXTENDS BleLink

MCQMax == 3
MCMaxLinks == 2
MCSent == {"info", "pair", "anomaly", "ota"}
=============================================================================
