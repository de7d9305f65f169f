------------------------------ MODULE KelChannel ------------------------------
(***************************************************************************)
(* What the message queues of the firmware promise their users             *)
(* (tuya_kel_send_msg and tuya_kel_wait_msg, and the event ring of the BLE *)
(* SDK): a bounded first-in first-out channel.  A message whose send       *)
(* succeeded is handed over once, after those sent before it; a send to a  *)
(* full channel is refused and leaves it as it was.                        *)
(***************************************************************************)
EXTENDS Naturals, Sequences

CONSTANTS Msgs,    \* the messages
          Size,    \* its capacity
          NoMsg    \* what msg_recv holds before the first message

VARIABLES chan,    \* accepted and not yet handed over, oldest first
          recv     \* the message handed over last

Init == chan = <<>> /\ recv = NoMsg

Send(m) ==
  /\ Len(chan) < Size
  /\ chan' = Append(chan, m)
  /\ UNCHANGED recv

Receive ==
  /\ chan # <<>>
  /\ recv' = Head(chan)
  /\ chan' = Tail(chan)

Next == Receive \/ \E m \in Msgs : Send(m)

Spec == Init /\ [][Next]_<<chan, recv>>
=============================================================================
