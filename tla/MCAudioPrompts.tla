---------------------------- MODULE MCAudioPrompts ----------------------------
(***************************************************************************)
(* AudioPrompts with a tone that repeats, one that is played once and the  *)
(* one of the overspeed, which its timer plays again.                      *)
(***************************************************************************)
EXTENDS AudioPrompts

MCLoopTones == {"search"}
MCOnceTones == {"unlock", "speeding"}
MCTimed == {"search", "speeding"}
MCSpeeding == "speeding"
MCMaxCalls == 4
MCMaxLost == 1
MCMaxPending == 7
=============================================================================
