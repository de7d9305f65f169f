------------------------------- MODULE KelQueue -------------------------------
(***************************************************************************)
(* The message queue of a task: the byte ring of tuya_ble_queue.c under    *)
(* tuya_kel_send_msg and tuya_kel_wait_msg (tuya_kel_port_os.c).  The ring *)
(* has no critical section.  The main loop runs its operations load by     *)
(* load and store by store; an interrupt, which may come between any two   *)
(* of them, runs a whole send.                                             *)
(*                                                                         *)
(* Which side sends depends on the queue: the upload queue is filled by    *)
(* the main loop, the filter queue of locdef_pin.c by interrupts, the      *)
(* state machine's queue by both.                                          *)
(***************************************************************************)
EXTENDS Naturals, Sequences

CONSTANTS Msgs, NoMsg,
          Size,        \* queue_size: 10 in the program
          Users,       \* the sets of senders a queue may have
          OwedMax      \* bound of the model on messages accepted and not received

ASSUME KelQueueAssumption ==
  /\ Size \in Nat \ {0}
  /\ OwedMax \in Nat
  /\ NoMsg \notin Msgs
  /\ Users \subseteq SUBSET {"main", "isr"}

VARIABLES
  senders,            \* who sends to this queue
  buf, rd, wr, used,  \* tuya_ble_queue_t
  tokens,             \* os events posted for the task and not yet served
  pc,                 \* where the main loop is inside the queue
  reg,                \* the value it loaded for the read-modify-write under way
  msg,                \* its local message
  recv,               \* the message the task received last
  owed                \* history: accepted by a send, not yet received

ring == <<buf, rd, wr, used>>
vars == <<senders, ring, tokens, pc, reg, msg, recv, owed>>

Slots == 0 .. Size - 1

Init ==
  /\ senders \in Users
  /\ buf = [i \in Slots |-> NoMsg]
  /\ rd = 0 /\ wr = 0 /\ used = 0
  /\ tokens = 0
  /\ pc = "idle"
  /\ reg = 0
  /\ msg = NoMsg
  /\ recv = NoMsg
  /\ owed = <<>>

-----------------------------------------------------------------------------
(* tuya_ble_enqueue and os_msg_post on the main loop.                      *)

Goto(from, to) == pc = from /\ pc' = to

\* Mutant: one message too many is let in.
SendStartOffByOne(m) ==
  /\ "main" \in senders
  /\ used <= Size
  /\ Goto("idle", "enqCopy")
  /\ msg' = m
  /\ UNCHANGED <<senders, ring, tokens, reg, recv, owed>>

\* A send to a full queue returns TUYA_BLE_ERR_NO_MEM and changes nothing.
SendStart(m) ==
  /\ "main" \in senders
  /\ used < Size
  /\ Goto("idle", "enqCopy")
  /\ msg' = m
  /\ UNCHANGED <<senders, ring, tokens, reg, recv, owed>>

SendCopy ==
  /\ Goto("enqCopy", "enqLoadWr")
  /\ buf' = [buf EXCEPT ![wr] = msg]
  /\ UNCHANGED <<senders, rd, wr, used, tokens, reg, msg, recv, owed>>

SendLoadWr ==
  /\ Goto("enqLoadWr", "enqStoreWr")
  /\ reg' = wr
  /\ UNCHANGED <<senders, ring, tokens, msg, recv, owed>>

SendStoreWr ==
  /\ Goto("enqStoreWr", "enqLoadUsed")
  /\ wr' = (reg + 1) % Size
  /\ UNCHANGED <<senders, buf, rd, used, tokens, reg, msg, recv, owed>>

SendLoadUsed ==
  /\ Goto("enqLoadUsed", "enqStoreUsed")
  /\ reg' = used
  /\ UNCHANGED <<senders, ring, tokens, msg, recv, owed>>

\* Mutant: the task is not told.
SendStoreUsedNoPost ==
  /\ Goto("enqStoreUsed", "idle")
  /\ used' = reg + 1
  /\ owed' = Append(owed, msg)
  /\ UNCHANGED <<senders, buf, rd, wr, tokens, reg, msg, recv>>

SendStoreUsed ==
  /\ Goto("enqStoreUsed", "idle")
  /\ used' = reg + 1
  /\ tokens' = tokens + 1
  /\ owed' = Append(owed, msg)
  /\ UNCHANGED <<senders, buf, rd, wr, reg, msg, recv>>

-----------------------------------------------------------------------------
(* An interrupt handler sends: nothing of the main loop runs meanwhile.    *)

IsrSend(m) ==
  /\ "isr" \in senders
  /\ Len(owed) < OwedMax
  /\ used < Size
  /\ buf' = [buf EXCEPT ![wr] = m]
  /\ wr' = (wr + 1) % Size
  /\ used' = used + 1
  /\ tokens' = tokens + 1
  /\ owed' = Append(owed, m)
  /\ UNCHANGED <<senders, rd, pc, reg, msg, recv>>

-----------------------------------------------------------------------------
(* The scheduler serves an os event: the task calls tuya_kel_wait_msg.     *)

\* The queue has nothing: wait_msg fails and the task returns.
WaitFails ==
  /\ pc = "idle"
  /\ tokens > 0
  /\ used = 0
  /\ tokens' = tokens - 1
  /\ UNCHANGED <<senders, ring, pc, reg, msg, recv, owed>>

WaitStart ==
  /\ tokens > 0
  /\ used > 0
  /\ Goto("idle", "deqCopy")
  /\ tokens' = tokens - 1
  /\ UNCHANGED <<senders, ring, reg, msg, recv, owed>>

WaitCopy ==
  /\ Goto("deqCopy", "deqAdvance")
  /\ msg' = buf[rd]
  /\ UNCHANGED <<senders, ring, tokens, reg, recv, owed>>

\* Mutant: the last message counted is left under rd.
WaitAdvanceNotLast ==
  /\ Goto("deqAdvance", "deqLoadUsed")
  /\ rd' = IF used > 1 THEN (rd + 1) % Size ELSE rd
  /\ UNCHANGED <<senders, buf, wr, used, tokens, reg, msg, recv, owed>>

WaitAdvance ==
  /\ Goto("deqAdvance", "deqLoadUsed")
  /\ rd' = (rd + 1) % Size
  /\ UNCHANGED <<senders, buf, wr, used, tokens, reg, msg, recv, owed>>

WaitLoadUsed ==
  /\ Goto("deqLoadUsed", "deqStoreUsed")
  /\ reg' = used
  /\ UNCHANGED <<senders, ring, tokens, msg, recv, owed>>

WaitStoreUsed ==
  /\ Goto("deqStoreUsed", "idle")
  /\ used' = reg - 1
  /\ recv' = msg
  /\ owed' = Tail(owed)
  /\ UNCHANGED <<senders, buf, rd, wr, tokens, reg, msg>>

-----------------------------------------------------------------------------
MainStep ==
  \/ SendCopy \/ SendLoadWr \/ SendStoreWr \/ SendLoadUsed \/ SendStoreUsed
  \/ WaitFails \/ WaitStart \/ WaitCopy \/ WaitAdvance \/ WaitLoadUsed \/ WaitStoreUsed

Next ==
  \/ \E m \in Msgs : SendStart(m)
  \/ \E m \in Msgs : IsrSend(m)
  \/ MainStep

Spec == Init /\ [][Next]_vars

-----------------------------------------------------------------------------
(* Properties.                                                             *)

Receiving == pc \in {"deqLoadUsed", "deqStoreUsed"}

\* What the ring holds for its reader.  The reader moves rd before it counts
\* the message out, so until then the oldest message is the one behind rd.
Contents ==
  LET first == IF Receiving THEN (rd + Size - 1) % Size ELSE rd
  IN [i \in 1 .. used |-> buf[(first + i - 1) % Size]]

\* The ring of a queue without interrupts is a bounded FIFO, and a message is
\* received once.
Channel == INSTANCE KelChannel WITH chan <- Contents
ImplementsChannel ==
  Channel!Init /\ [][senders = {"main"} => [Channel!Next]_<<Contents, recv>>]_vars

\* tuya_kel_os.h:65-74: where no interrupt sends, a send that returns TUYA_OK has
\* sent the message to the task: with every os event served, nothing accepted is
\* still waiting.
NothingStranded == pc = "idle" /\ tokens = 0 => owed = <<>>
MainNeverStrands == senders = {"main"} => NothingStranded

\* Whoever sends, the task takes a message only when one that was accepted
\* waits.  Where interrupts alone send it is the oldest of them, although their
\* increments of the count are lost, as long as no more wait than the ring holds.
OldestIsTaken ==
  pc = "deqAdvance" =>
    /\ owed # <<>>
    /\ senders = {"isr"} /\ Len(owed) <= Size => msg = Head(owed)
=============================================================================
