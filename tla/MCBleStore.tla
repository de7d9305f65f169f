------------------------------ MODULE MCBleStore ------------------------------
(***************************************************************************)
(* BleStore with two values of each field that a save can tell apart.      *)
(***************************************************************************)
EXTENDS BleStore

CONSTANTS k1, k2, i1, i2, h1

MCKeys == {k1, k2}
MCIds == {i1, i2}
MCHIds == {h1}
=============================================================================
