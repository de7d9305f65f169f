------------------------------ MODULE FrameChannel ------------------------------
(***************************************************************************)
(* What the two sides of the link may count on of the frames one of them   *)
(* sends: each arrives whole or not at all, at most once, and in order.    *)
(***************************************************************************)
EXTENDS Naturals, Sequences

VARIABLES
  sent,  \* how many frames were begun: they are numbered 1, 2, ...
  got    \* the numbers of those that have become commands

Init == sent = 0 /\ got = <<>>

Send == sent' = sent + 1 /\ UNCHANGED got

Deliver(f) ==
  /\ f \in 1 .. sent
  /\ \A i \in DOMAIN got : got[i] < f
  /\ got' = Append(got, f)
  /\ UNCHANGED sent

Next == Send \/ \E f \in 1 .. sent : Deliver(f)

Spec == Init /\ [][Next]_<<sent, got>>
=============================================================================
