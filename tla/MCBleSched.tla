------------------------------ MODULE MCBleSched ------------------------------
(***************************************************************************)
(* BleSched with two events and four slots: the ring wraps and fills.      *)
(***************************************************************************)
EXTENDS BleSched

CONSTANTS e1, e2

MCEvents == {e1, e2}
MCSize == 3
=============================================================================
