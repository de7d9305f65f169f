------------------------------ MODULE MCKelQueue ------------------------------
(***************************************************************************)
(* KelQueue with two messages and three places: the ring wraps and fills.  *)
(***************************************************************************)
EXTENDS KelQueue

CONSTANTS m1, m2

MCMsgs == {m1, m2}
MCSize == 3
MCOwedMax == 4
AllUsers == {{"main"}, {"isr"}, {"main", "isr"}}
=============================================================================
