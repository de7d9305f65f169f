------------------------------- MODULE IoFilter -------------------------------
(***************************************************************************)
(* The debounced inputs of app/locdef_pin.c: the key switch (DOOR), the    *)
(* overspeed line (SPEED) and the one-key button (START).  An edge         *)
(* interrupts, the handler disables the pin's interrupt and sends the pin  *)
(* to the filter task, the task samples the pin three times, posts an      *)
(* event and enables the interrupt again.  The button goes through a       *)
(* 500 ms timer first.                                                     *)
(*                                                                         *)
(* Nothing guards what the handler and the main loop share.  The task      *)
(* takes a message with used-- and enables a pin with |= on the register   *)
(* of all the channels; an interrupt that comes between the load and the   *)
(* store of either is undone by the store.  The load and the store are     *)
(* steps of their own here.  The interrupts have one priority, so a        *)
(* handler is one step.                                                    *)
(*                                                                         *)
(* The levels are the outside world's.  The EXTI block (vendor hardware)   *)
(* is taken to raise the status bit of an enabled pin at an edge of the    *)
(* selected direction, and to miss the edges of a disabled pin.            *)
(***************************************************************************)
EXTENDS Integers, Sequences

CONSTANTS FilterQMax,   \* capacity of the filter task's queue (10)
          KeyMsgs,      \* bound of the model on button messages waiting: the
                        \* task takes them faster than a finger makes them
          MaxRaces      \* bound of the model on interrupts that come between
                        \* a load and a store of the main loop

ASSUME IoFilterAssumption == {FilterQMax, KeyMsgs, MaxRaces} \subseteq Nat

\* The program's ten places: the button and the races leave the other two pins
\* theirs.
ASSUME RoomForEveryPin == KeyMsgs + 2 + MaxRaces <= FilterQMax

VARIABLES
  high,        \* level of each pin
  irqOn,       \* its EXTI channel is enabled: the bits of ext_int_en
  onRise,      \* its channel is set to EXT_INT_TYPE_POS
  status,      \* channels whose status bit is raised
  ring,        \* the messages from rd_ptr to wr_ptr: pins sent and not taken
  used,        \* the queue's own count of them
  tokens,      \* os messages posted for the task
  task,        \* where the main loop is in the filter
  pin,         \* the pin it filters, DOOR when none
  seen,        \* the levels sampled so far by io_filter_handle
  samples,     \* read_cnt
  count,       \* used, as the main loop loaded it to decrease it
  saved,       \* ext_int_en, as the main loop loaded it to set a bit
  keyTimer,    \* s_one_start_key_timer: NULL, or created and idle or armed
  posted,      \* the event the last step posted, "none" if it posted none
  presses,     \* how many of the messages are the button's
  lost,        \* history: messages sent between load and store of used
  revived      \* history: pins disabled between load and store of ext_int_en

line    == <<high, irqOn, onRise, status>>
filterQ == <<ring, used, tokens, presses>>
filter  == <<task, pin, seen, samples, count, saved>>
races   == <<lost, revived>>
ioVars  == <<line, filterQ, filter, keyTimer, posted, races>>

Pins == {"DOOR", "SPEED", "START"}
IO_FILTER_READ_CNT == 3

\* Between a load and a store of the main loop.
Dequeuing == task = "take"
Enabling  == task \in {"enable", "other"}

NoPins == [p \in Pins |-> FALSE]

\* The button rests high and is sampled low when pressed; the key may be on.
IoInit ==
  /\ high \in {h \in [Pins -> BOOLEAN] : h["SPEED"] /\ h["START"]}
  /\ irqOn = [p \in Pins |-> TRUE]
  /\ onRise = [p \in Pins |-> p = "DOOR"]
  /\ status = {}
  /\ ring = <<>> /\ used = 0 /\ tokens = 0 /\ presses = 0
  /\ task = "idle" /\ pin = "DOOR" /\ seen = {} /\ samples = 0
  /\ count = 0 /\ saved = NoPins
  /\ keyTimer = "null"
  /\ posted = "none"
  /\ lost = 0 /\ revived = 0

-----------------------------------------------------------------------------
(* The outside world and the EXTI block.                                   *)

Edge(p) ==
  /\ high' = [high EXCEPT ![p] = ~@]
  /\ status' = IF irqOn[p] /\ onRise[p] = high'[p] THEN status \cup {p} ELSE status
  /\ posted' = "none"
  /\ UNCHANGED <<irqOn, onRise, filterQ, filter, keyTimer, races>>

\* Mutant: the channel is disabled and the task is not told.
NotifyNobody(p) ==
  /\ irqOn' = [irqOn EXCEPT ![p] = FALSE]
  /\ UNCHANGED filterQ

\* Mutant: the message is written and not counted.
NotifyUncounted(p) ==
  /\ irqOn' = [irqOn EXCEPT ![p] = FALSE]
  /\ ring' = Append(ring, p)
  /\ tokens' = tokens + 1
  /\ presses' = IF p = "START" THEN presses + 1 ELSE presses
  /\ UNCHANGED used

\* A pin's interrupt callback: disable the channel, locdef_io_filter_notify.
Notify(p) ==
  /\ irqOn' = [irqOn EXCEPT ![p] = FALSE]
  /\ \/ /\ used < FilterQMax
        /\ ring' = Append(ring, p)
        /\ used' = used + 1
        /\ tokens' = tokens + 1
        /\ presses' = IF p = "START" THEN presses + 1 ELSE presses
     \/ used >= FilterQMax /\ UNCHANGED filterQ

\* exti_isr_ram clears every status bit it read; ty_app_exti_isr serves the
\* first of them in the order of its tests, and only that one.
Served == CASE "DOOR"  \in status -> "DOOR"
            [] "START" \in status -> "START"
            [] OTHER -> "SPEED"

ExtiIsr ==
  /\ status # {}
  /\ Served = "START" => presses < KeyMsgs
  /\ Dequeuing \/ Enabling => lost + revived < MaxRaces
  /\ Notify(Served)
  /\ status' = {}
  /\ lost' = IF Dequeuing THEN lost + 1 ELSE lost
  /\ revived' = IF Enabling THEN revived + 1 ELSE revived
  /\ posted' = "none"
  /\ UNCHANGED <<high, onRise, filter, keyTimer>>

\* The vibration sensor's bit is tested before the overspeed line's, whose bit
\* is cleared with it: the edge is lost.
ExtiIsrVibration ==
  /\ status = {"SPEED"}
  /\ status' = {}
  /\ posted' = "none"
  /\ UNCHANGED <<high, irqOn, onRise, filterQ, filter, keyTimer, races>>

-----------------------------------------------------------------------------
(* The filter task, and the button's timer.                                *)

StartFilter(p) ==
  /\ pin' = p
  /\ seen' = {}
  /\ samples' = 0

\* tuya_ble_dequeue up to the load of used--.  An interrupt changes neither the
\* first message nor rd_ptr, nor the outcome of the test.
TakePin ==
  /\ task = "idle" /\ tokens > 0 /\ used > 0
  /\ tokens' = tokens - 1
  /\ ring' = Tail(ring)
  /\ presses' = IF Head(ring) = "START" THEN presses - 1 ELSE presses
  /\ count' = used
  /\ task' = "take"
  /\ StartFilter(Head(ring))
  /\ posted' = "none"
  /\ UNCHANGED <<line, used, saved, keyTimer, races>>

\* A token whose message was not counted: "tuya_kel_wait_msg failed".
WaitFails ==
  /\ task = "idle" /\ tokens > 0 /\ used = 0
  /\ tokens' = tokens - 1
  /\ posted' = "none"
  /\ UNCHANGED <<line, ring, used, presses, filter, keyTimer, races>>

\* The store of used--.
StoreUsed ==
  /\ task = "take"
  /\ used' = count - 1
  /\ count' = 0
  /\ UNCHANGED <<line, ring, tokens, presses, seen, samples, saved, races>>

\* The pin is to be sampled; the 500 ms the overspeed line is given to settle
\* are time only.
Read ==
  /\ StoreUsed
  /\ pin # "START"
  /\ task' = "sample"
  /\ posted' = "none"
  /\ UNCHANGED <<pin, keyTimer>>

\* The button: its timer is created on the first press and restarted later.
\* locdef_one_start_key_check then ends without a return statement: what its
\* caller reads may make it enable the interrupt.
Press ==
  /\ StoreUsed
  /\ pin = "START"
  /\ \/ keyTimer' = "armed" /\ task' = "load" /\ UNCHANGED pin
     \/ keyTimer' = "armed" /\ task' = "idle" /\ pin' = "DOOR"
     \/ keyTimer = "null" /\ keyTimer' = "null" /\ task' = "load" /\ UNCHANGED pin
  /\ posted' = "none"

KeyTimerFires ==
  /\ task = "idle"
  /\ keyTimer = "armed"
  /\ keyTimer' = "idle"
  /\ StartFilter("START")
  /\ task' = "sample"
  /\ posted' = "none"
  /\ UNCHANGED <<line, filterQ, count, saved, races>>

Sample ==
  /\ task = "sample"
  /\ samples < IO_FILTER_READ_CNT
  /\ seen' = seen \cup {high[pin]}
  /\ samples' = samples + 1
  /\ posted' = "none"
  /\ UNCHANGED <<line, filterQ, task, pin, count, saved, keyTimer, races>>

\* io_filter_handle: three equal samples make a valid level.
ValidHigh == seen = {TRUE}
ValidLow  == seen = {FALSE}

\* locdef_gpio_irq_filter_handle: a reading that is neither goes the way of a
\* low one, except for the button.
DoorHandle ==
  /\ posted' = IF ValidHigh THEN "ACCON" ELSE "ACCOFF"
  /\ onRise' = [onRise EXCEPT !["DOOR"] = ~ValidHigh]

SpeedHandle ==
  /\ posted' = IF ValidHigh THEN "SAFESPEED" ELSE "OVERSPEED"
  /\ onRise' = [onRise EXCEPT !["SPEED"] = ~ValidHigh]

StartHandle ==
  /\ posted' \in IF ValidLow THEN {"ACCON", "ACCOFF"} ELSE {"none"}
  /\ UNCHANGED onRise

\* The event of the pin that was sampled, and the edge it waits for next; the
\* samples are cleared.
HandleReading ==
  /\ task = "sample"
  /\ samples = IO_FILTER_READ_CNT
  /\ \/ pin = "DOOR"  /\ DoorHandle
     \/ pin = "SPEED" /\ SpeedHandle
     \/ pin = "START" /\ StartHandle
  /\ seen' = {} /\ samples' = 0
  /\ UNCHANGED <<high, irqOn, status, filterQ, pin, count, saved, keyTimer, races>>

\* Mutant: the interrupt of a reading that is not valid is left disabled.
HandlePinValidOnly ==
  /\ HandleReading
  /\ task' = IF ValidHigh \/ ValidLow THEN "load" ELSE "idle"

HandlePin ==
  /\ HandleReading
  /\ task' = "load"

\* ext_int_enable for the pin: ext_int_en |= its bit.
LoadEnabled ==
  /\ task = "load"
  /\ task' = "enable"
  /\ saved' = irqOn
  /\ posted' = "none"
  /\ UNCHANGED <<line, filterQ, pin, seen, samples, count, keyTimer, races>>

StoreEnabled ==
  /\ task = "enable"
  /\ irqOn' = [saved EXCEPT ![pin] = TRUE]
  /\ task' = "idle" /\ pin' = "DOOR"
  /\ saved' = NoPins
  /\ posted' = "none"
  /\ UNCHANGED <<high, onRise, status, filterQ, seen, samples, count, keyTimer, races>>

\* The main loop sets or clears the bit of another channel of the same register:
\* the rotation detector's, or the vibration sensor's.
EnableOther ==
  /\ task = "idle"
  /\ task' = "other"
  /\ saved' = irqOn
  /\ posted' = "none"
  /\ UNCHANGED <<line, filterQ, pin, seen, samples, count, keyTimer, races>>

StoreOther ==
  /\ task = "other"
  /\ irqOn' = saved
  /\ task' = "idle"
  /\ saved' = NoPins
  /\ posted' = "none"
  /\ UNCHANGED <<high, onRise, status, filterQ, pin, seen, samples, count, keyTimer, races>>

-----------------------------------------------------------------------------
FilterTask == TakePin \/ WaitFails

Filter ==
  \/ Read \/ Press \/ Sample \/ HandlePin
  \/ LoadEnabled \/ StoreEnabled \/ StoreOther

IoNext ==
  \/ \E p \in Pins : Edge(p)
  \/ ExtiIsr
  \/ ExtiIsrVibration
  \/ FilterTask
  \/ Filter
  \/ KeyTimerFires
  \/ EnableOther

IoSpec == IoInit /\ [][IoNext]_ioVars

\* The main loop ends what it has begun, and serves messages and expired timers
\* in turn: neither is passed over for ever while other work keeps coming.
IoFairSpec ==
  IoSpec /\ WF_ioVars(Filter) /\ SF_ioVars(FilterTask) /\ SF_ioVars(KeyTimerFires)

-----------------------------------------------------------------------------
(* Properties.                                                             *)

IoTypeOK ==
  /\ {high, irqOn, onRise, saved} \subseteq [Pins -> BOOLEAN]
  /\ status \subseteq Pins
  /\ ring \in Seq(Pins)
  /\ {used, tokens, lost, revived} \subseteq Nat /\ {count, presses} \subseteq Int
  /\ task \in {"idle", "take", "sample", "load", "enable", "other"}
  /\ pin \in Pins
  /\ seen \subseteq BOOLEAN /\ samples \in 0 .. IO_FILTER_READ_CNT
  /\ keyTimer \in {"null", "idle", "armed"}
  /\ posted \in {"none", "ACCON", "ACCOFF", "SAFESPEED", "OVERSPEED"}

\* The messages the task will still be given: the first of the ring.
Counted == IF Dequeuing THEN count - 1 ELSE used

InRing(p)    == \E i \in DOMAIN ring : ring[i] = p
Filtering(p) == task \notin {"idle", "other"} /\ pin = p
Waiting(p)   == p = "START" /\ keyTimer = "armed"

\* The pin's message is in the ring behind those that count.
Stranded(p) == \E i \in DOMAIN ring : i > Counted /\ ring[i] = p

\* A disabled pin has someone who holds it: its message was written, or it is
\* being filtered, or the button's timer runs.  The queue never refuses one,
\* and no store to the register of all the channels disables one that its own
\* handler enabled, however the races fall.
DisabledIsServed == \A p \in Pins : ~irqOn[p] => InRing(p) \/ Filtering(p) \/ Waiting(p)

\* Each interrupt that comes between the load and the store of used-- leaves
\* one message behind for good, and nothing else leaves one: the ring holds
\* what counts and what was lost, and never overtakes its reader.
OnlyRacesStrand == Len(ring) = Counted + lost /\ Len(ring) <= FilterQMax

\* No input stays disabled for ever, unless its message is one of those left
\* behind: the task reaches it only when other pins' messages push it on.
InputsComeBack == \A p \in Pins : []<>(irqOn[p] \/ Stranded(p))
=============================================================================
