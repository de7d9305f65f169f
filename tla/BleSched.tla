------------------------------- MODULE BleSched -------------------------------
(***************************************************************************)
(* The event queue of the Tuya BLE SDK without an operating system         *)
(* (tuya_ble_event.c): a ring of Size + 1 slots.  A sender takes a slot in *)
(* a critical section and fills it outside.  The main loop serves a batch, *)
(* the events that were queued when the pass began; a handler may send.    *)
(* An interrupt that sends does so at any point of the main loop.          *)
(***************************************************************************)
EXTENDS Naturals, Sequences

CONSTANTS Events, NoEvent,
          Size              \* TUYA_BLE_EVT_MAX_NUM (16)

ASSUME BleSchedAssumption == Size \in Nat \ {0} /\ NoEvent \notin Events

VARIABLES
  data,      \* m_queue_event_data
  start,     \* m_queue_start_index
  end,       \* m_queue_end_index
  pc,        \* where the main loop is in tuya_sched_execute
  endIx,     \* end_ix: where the pass under way ends
  evt,       \* tuya_ble_evt: the event being handled
  filling,   \* the slots and events the main loop has taken and not filled
  recv       \* the event handled last

vars == <<data, start, end, pc, endIx, evt, filling, recv>>

Slots == 0 .. Size

Init ==
  /\ data = [i \in Slots |-> NoEvent]
  /\ start = 0 /\ end = 0
  /\ pc = "idle" /\ endIx = 0
  /\ evt = NoEvent
  /\ filling = {}
  /\ recv = NoEvent

NextIndex(i) == IF i < Size THEN i + 1 ELSE 0
Full == NextIndex(end) = start

\* tuya_ble_sched_queue_events_get
Queued == IF end >= start THEN end - start ELSE Size + 1 - start + end

-----------------------------------------------------------------------------
(* tuya_ble_sched_event_put                                                *)

\* Mutant: a full queue is not noticed.
TakeSlotUnchecked(e) ==
  /\ pc \in {"idle", "handle"} /\ filling = {}
  /\ filling' = {[slot |-> end, event |-> e]}
  /\ end' = NextIndex(end)
  /\ UNCHANGED <<data, start, pc, endIx, evt, recv>>

TakeSlot(e) ==
  /\ pc \in {"idle", "handle"} /\ filling = {}
  /\ ~Full
  /\ filling' = {[slot |-> end, event |-> e]}
  /\ end' = NextIndex(end)
  /\ UNCHANGED <<data, start, pc, endIx, evt, recv>>

FillSlot ==
  /\ \E f \in filling : data' = [data EXCEPT ![f.slot] = f.event]
  /\ filling' = {}
  /\ UNCHANGED <<start, end, pc, endIx, evt, recv>>

IsrPut(e) ==
  /\ ~Full
  /\ data' = [data EXCEPT ![end] = e]
  /\ end' = NextIndex(end)
  /\ UNCHANGED <<start, pc, endIx, evt, filling, recv>>

-----------------------------------------------------------------------------
(* tuya_sched_execute                                                      *)

ExecuteStart ==
  /\ pc = "idle" /\ filling = {}
  /\ pc' = "loop"
  /\ endIx' = end
  /\ UNCHANGED <<data, start, end, evt, filling, recv>>

\* Mutant: a pass serves what is queued until nothing is.
ExecuteTakeAll ==
  /\ pc = "loop"
  /\ IF start = end THEN pc' = "idle" /\ UNCHANGED evt
                    ELSE pc' = "handle" /\ evt' = data[start]
  /\ UNCHANGED <<data, start, end, endIx, filling, recv>>

ExecuteTake ==
  /\ pc = "loop"
  /\ IF start = endIx THEN pc' = "idle" /\ UNCHANGED evt
                      ELSE pc' = "handle" /\ evt' = data[start]
  /\ UNCHANGED <<data, start, end, endIx, filling, recv>>

\* The handler returns; only now may its slot be used again.
ExecuteNext ==
  /\ pc = "handle" /\ filling = {}
  /\ start' = NextIndex(start)
  /\ pc' = "loop"
  /\ recv' = evt
  /\ UNCHANGED <<data, end, endIx, evt, filling>>

-----------------------------------------------------------------------------
Execute == ExecuteTake \/ ExecuteNext

Next ==
  \/ \E e \in Events : TakeSlot(e) \/ IsrPut(e)
  \/ FillSlot
  \/ ExecuteStart
  \/ Execute

Spec == Init /\ [][Next]_vars

\* The main loop runs, and a handler returns.
FairSpec == Spec /\ WF_vars(ExecuteStart) /\ WF_vars(Execute) /\ WF_vars(FillSlot)

-----------------------------------------------------------------------------
(* Properties.                                                             *)

\* The queue as its reader will see it: its i-th event is in the slot At(i), or will be.
At(i) == IF start + i - 1 <= Size THEN start + i - 1 ELSE start + i - 2 - Size
Contents ==
  [i \in 1 .. Queued |->
     IF \E f \in filling : f.slot = At(i) THEN (CHOOSE f \in filling : f.slot = At(i)).event
     ELSE data[At(i)]]

\* tuya_ble_event.c:154: filling a slot outside the critical region is safe,
\* since the consumer is the main loop: the ring is a bounded FIFO.
Channel == INSTANCE KelChannel WITH chan <- Contents, Msgs <- Events, NoMsg <- NoEvent
ImplementsChannel == Channel!Spec

\* A pass ends even if every handler sends.
PassEnds == pc # "idle" ~> pc = "idle"
=============================================================================
