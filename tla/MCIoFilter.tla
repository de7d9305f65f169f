------------------------------ MODULE MCIoFilter ------------------------------
(***************************************************************************)
(* IoFilter with one place for a button message and one race, in a ring of *)
(* exactly the places these and the other two pins need.                   *)
(***************************************************************************)
EXTENDS IoFilter

MCFilterQMax == 4
MCKeyMsgs == 1
MCMaxRaces == 1
=============================================================================
