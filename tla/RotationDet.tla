----------------------------- MODULE RotationDet -----------------------------
(***************************************************************************)
(* Wheel rotation: locdef_rotation_det_timer_cb on the main loop, which    *)
(* arms the detector once a second and reports a wheel at rest, and the    *)
(* interrupts of the pulse line (EXTI_7) and of the 500 ms counting window *)
(* (TIMER0), which preempt it between any two accesses to what they share. *)
(* The interrupts have one priority and do not preempt each other.  The    *)
(* enable bits of all lines are one register, which the main loop loads    *)
(* and stores in two steps.  The vehicle state machine is reduced to the   *)
(* transitions of its table (app/locdef_fsm.c), and the queue of its       *)
(* events to a sequence: what its count loses is KelQueue's subject.       *)
(***************************************************************************)
EXTENDS Naturals, Sequences

CONSTANTS AlarmRelease,   \* ALARM_ROTATION_RELEASE_TIMES / ROTATION_DET_PERIOD (10)
          TravelRelease,  \* TRAVEL_ROTATION_RELEASE_TIMES / ROTATION_DET_PERIOD (2)
          EventMax        \* bound of the model on rotation events waiting: they
                          \* come two a second and the main loop is faster

ASSUME RotationDetAssumption ==
  /\ AlarmRelease \in Nat /\ TravelRelease \in Nat /\ EventMax \in Nat
  /\ TravelRelease <= AlarmRelease

VARIABLES
  state,       \* vehicle state
  events,      \* rotation events posted and not processed
  turning,     \* the wheel turns
  tick,        \* where the timer callback is
  evenTick,    \* base_tick_cnt % (1000/period) = 0
  releaseCnt,  \* release_cnt
  irqEn,       \* rotation_irq_en
  cplt,        \* rotation_det_cplt
  speed,       \* run_param->speed is not 0
  exti,        \* EXTI_7 is enabled
  loaded,      \* its bit in the register as the main loop loaded it
  pending,     \* a pulse came and its interrupt has not run
  window,      \* g_hard_timer_en: TIMER0 runs
  pulses,      \* g_pulse_cnt; more than PulseMax count as PulseMax
  alarmCnt     \* rotation_alarm_cnt

callback == <<tick, loaded, evenTick, releaseCnt>>
detector == <<exti, pending, window, pulses, alarmCnt>>
rotVars == <<state, events, turning, callback, irqEn, cplt, speed, detector>>

RotStates == {"ACCOFF_UNDEF", "ACCOFF_DEF", "WARNING", "ACCON", "MOVING"}
AlarmStates == {"WARNING", "ACCOFF_DEF"}
ROTATION_PULSE_VALID_THR == 4
LOCDEF_ROTATION_ALARM_PULSE_CNT == 5
PulseMax == ROTATION_PULSE_VALID_THR + 1

RotInit ==
  /\ state \in RotStates \ {"WARNING", "MOVING"}
  /\ events = <<>>
  /\ turning = FALSE
  /\ tick = "idle" /\ loaded = FALSE /\ evenTick = TRUE /\ releaseCnt = 0
  /\ irqEn = FALSE /\ cplt = TRUE /\ speed = FALSE
  /\ exti = TRUE /\ pending = FALSE /\ window = FALSE /\ pulses = 0 /\ alarmCnt = 0

Post(e) == events' = Append(events, e)

\* The bound of the model: a place is kept for the event of a release under way.
RoomForEvents == Len(events) + 1 < EventMax

-----------------------------------------------------------------------------
(* locdef_dev_rotation_irq_ctrl, every ROTATION_DET_PERIOD.                *)

TickOdd ==
  /\ tick = "idle" /\ ~evenTick
  /\ evenTick' = TRUE
  /\ UNCHANGED <<state, events, turning, tick, loaded, releaseCnt, irqEn, cplt, speed, detector>>

ReleaseTime == IF state \in AlarmStates THEN AlarmRelease ELSE TravelRelease
Watching == state \in AlarmStates \cup {"MOVING"}

TickCheck ==
  /\ tick = "idle" /\ evenTick /\ RoomForEvents
  /\ evenTick' = FALSE
  /\ IF Watching /\ ~cplt
     THEN /\ releaseCnt' = releaseCnt + 1
          /\ tick' = "count"
     ELSE tick' = "arm" /\ UNCHANGED releaseCnt
  /\ UNCHANGED <<state, events, turning, loaded, irqEn, cplt, speed, detector>>

TickCount ==
  /\ tick = "count"
  /\ speed' = (speed /\ releaseCnt <= TravelRelease)
  /\ IF releaseCnt > ReleaseTime
     THEN releaseCnt' = 0 /\ tick' = "release"
     ELSE tick' = "arm" /\ UNCHANGED releaseCnt
  /\ UNCHANGED <<state, events, turning, loaded, evenTick, irqEn, cplt, detector>>

TickRelease ==
  /\ tick = "release"
  /\ tick' = "post"
  /\ cplt' = TRUE
  /\ UNCHANGED <<state, events, turning, loaded, evenTick, releaseCnt, irqEn, speed, detector>>

TickPost ==
  /\ tick = "post"
  /\ tick' = "arm"
  /\ Post("UNROTATION")
  /\ UNCHANGED <<state, turning, loaded, evenTick, releaseCnt, irqEn, cplt, speed, detector>>

\* Mutant: the line is enabled before the flag is set.
EnablesFirst == [arm   |-> "clear",
                 clear |-> "store",
                 store |-> "set",
                 set   |-> "idle"]

\* The order of the arming: test of the flag, flag set, detection begun, register
\* stored.
ArmOrder == [arm   |-> "set",
             set   |-> "clear",
             clear |-> "store",
             store |-> "idle"]

TickArm ==
  /\ tick = "arm"
  /\ tick' = IF state # "ACCOFF_UNDEF" /\ ~irqEn THEN ArmOrder.arm ELSE "idle"
  /\ UNCHANGED <<state, events, turning, loaded, evenTick, releaseCnt, irqEn, cplt, speed, detector>>

TickSet ==
  /\ tick = "set"
  /\ tick' = ArmOrder.set
  /\ irqEn' = TRUE
  /\ UNCHANGED <<state, events, turning, loaded, evenTick, releaseCnt, cplt, speed, detector>>

\* Mutant: the detection counts as complete when it is armed.
TickClearComplete ==
  /\ tick = "clear"
  /\ tick' = ArmOrder.clear
  /\ UNCHANGED <<state, events, turning, loaded, evenTick, releaseCnt, irqEn, cplt, speed, detector>>

TickClear ==
  /\ tick = "clear"
  /\ tick' = ArmOrder.clear
  /\ cplt' = FALSE
  /\ UNCHANGED <<state, events, turning, loaded, evenTick, releaseCnt, irqEn, speed, detector>>

\* tuya_pin_irq_enable stores ext_int_en | 1 << EXTI_7: what it loaded does not
\* matter to this line.
TickStore ==
  /\ tick = "store"
  /\ tick' = ArmOrder.store
  /\ exti' = TRUE
  /\ UNCHANGED <<state, events, turning, loaded, evenTick, releaseCnt, irqEn, cplt, speed, pending, window, pulses, alarmCnt>>

\* The main loop enables or disables another line (locdef_pin.c, locdef_service.c).
OtherLoad ==
  /\ tick = "idle"
  /\ tick' = "other"
  /\ loaded' = exti
  /\ UNCHANGED <<state, events, turning, evenTick, releaseCnt, irqEn, cplt, speed, detector>>

OtherStore ==
  /\ tick = "other"
  /\ tick' = "idle"
  /\ exti' = loaded
  /\ loaded' = FALSE
  /\ UNCHANGED <<state, events, turning, evenTick, releaseCnt, irqEn, cplt, speed, pending, window, pulses, alarmCnt>>

-----------------------------------------------------------------------------
(* The interrupts.                                                         *)

\* The line latches a pulse; its interrupt may have to wait for the other's end.
PulseArrives ==
  /\ turning /\ exti
  /\ pending' = TRUE
  /\ UNCHANGED <<state, events, turning, callback, irqEn, cplt, speed, exti, window, pulses, alarmCnt>>

\* locdef_rotation_det_irq_cb: the first pulse opens the window.
PulseIsr ==
  /\ pending
  /\ pending' = FALSE
  /\ window' = TRUE
  /\ LET before == IF window THEN pulses ELSE 0
     IN pulses' = IF before < PulseMax THEN before + 1 ELSE PulseMax
  /\ UNCHANGED <<state, events, turning, callback, irqEn, cplt, speed, exti, alarmCnt>>

\* Many pulses set the speed; more than 2 km/h, which depends on the wheel, is a
\* rotation.
ManyPulses ==
  /\ pulses > ROTATION_PULSE_VALID_THR
  /\ speed' = TRUE
  /\ cplt' = TRUE
  /\ \/ alarmCnt' = 0 /\ Post("ROTATION")
     \/ UNCHANGED <<alarmCnt, events>>

\* A few are added up while the vehicle is armed.
FewPulsesArmed ==
  /\ pulses <= ROTATION_PULSE_VALID_THR
  /\ state = "ACCOFF_DEF"
  /\ cplt' = TRUE
  /\ IF alarmCnt + pulses > LOCDEF_ROTATION_ALARM_PULSE_CNT
     THEN alarmCnt' = 0 /\ Post("ROTATION")
     ELSE alarmCnt' = alarmCnt + pulses /\ UNCHANGED events
  /\ UNCHANGED speed

FewPulses ==
  /\ pulses <= ROTATION_PULSE_VALID_THR
  /\ state # "ACCOFF_DEF"
  /\ UNCHANGED <<cplt, alarmCnt, events, speed>>

\* Mutant: the callback is not told that the line was disabled.
TimerIsrKeepsFlag ==
  /\ window /\ RoomForEvents
  /\ window' = FALSE
  /\ exti' = FALSE
  /\ ManyPulses \/ FewPulsesArmed \/ FewPulses
  /\ UNCHANGED <<state, turning, callback, irqEn, pending, pulses>>

\* pulse_cnt_timer_cb: the window closes.
TimerIsr ==
  /\ window /\ RoomForEvents
  /\ window' = FALSE
  /\ irqEn' = FALSE /\ exti' = FALSE
  /\ ManyPulses \/ FewPulsesArmed \/ FewPulses
  /\ UNCHANGED <<state, turning, callback, pending, pulses>>

-----------------------------------------------------------------------------
(* The vehicle.                                                            *)

After(e, s) == CASE e = "ROTATION" /\ s = "ACCOFF_DEF" -> "WARNING"
                 [] e = "ROTATION" /\ s = "ACCON"      -> "MOVING"
                 [] e = "UNROTATION" /\ s = "MOVING"   -> "ACCON"
                 [] OTHER -> s

ServeEvent ==
  /\ tick = "idle"
  /\ events # <<>>
  /\ state' = After(Head(events), state)
  /\ events' = Tail(events)
  /\ UNCHANGED <<turning, callback, irqEn, cplt, speed, detector>>

\* The other events of the table, and the recovery from an alarm, which a ride
\* does not cancel.
Reachable(s) == CASE s = "ACCOFF_UNDEF" -> {"ACCON", "ACCOFF_DEF"}
                  [] s = "ACCOFF_DEF"   -> {"WARNING", "ACCON", "ACCOFF_UNDEF"}
                  [] s = "WARNING"      -> {"ACCOFF_DEF", "ACCOFF_UNDEF"}
                  [] OTHER              -> {"ACCOFF_DEF"}

OtherEvent ==
  /\ tick = "idle"
  /\ state' \in Reachable(state)
  /\ UNCHANGED <<events, turning, callback, irqEn, cplt, speed, detector>>

Wheel ==
  /\ turning' = ~turning
  /\ UNCHANGED <<state, events, callback, irqEn, cplt, speed, detector>>

-----------------------------------------------------------------------------
Begin == TickOdd \/ TickCheck
Rest == \/ TickCount \/ TickRelease \/ TickPost
        \/ TickArm \/ TickSet \/ TickClear \/ TickStore
Tick == Begin \/ Rest

RotNext ==
  \/ Tick \/ OtherLoad \/ OtherStore
  \/ PulseArrives \/ PulseIsr \/ TimerIsr
  \/ ServeEvent \/ OtherEvent \/ Wheel

RotSpec == RotInit /\ [][RotNext]_rotVars

\* What the main loop has begun it ends, it serves the periodic timer and the
\* event queue again and again whatever else it does, and the window ends.
RotFairSpec ==
  /\ RotSpec
  /\ WF_rotVars(Rest \/ OtherStore) /\ SF_rotVars(Begin) /\ SF_rotVars(ServeEvent)
  /\ WF_rotVars(TimerIsr)

-----------------------------------------------------------------------------
(* Properties.                                                             *)

RotTypeOK ==
  /\ state \in RotStates
  /\ events \in Seq({"ROTATION", "UNROTATION"}) /\ Len(events) <= EventMax
  /\ turning \in BOOLEAN
  /\ tick \in {"idle", "count", "release", "post", "other"} \cup DOMAIN ArmOrder
  /\ loaded \in BOOLEAN /\ evenTick \in BOOLEAN
  /\ releaseCnt \in 0 .. AlarmRelease + 1 /\ (tick # "count" => releaseCnt <= AlarmRelease)
  /\ irqEn \in BOOLEAN /\ cplt \in BOOLEAN /\ speed \in BOOLEAN
  /\ exti \in BOOLEAN /\ pending \in BOOLEAN /\ window \in BOOLEAN
  /\ pulses \in 0 .. PulseMax
  /\ alarmCnt \in 0 .. LOCDEF_ROTATION_ALARM_PULSE_CNT

\* When the callback takes the line for enabled it is, or the callback is on its
\* way to enable it: a flag left set over a disabled line would never be tested
\* FALSE again, and the wheel would not be watched until a restart.
DetectorAlive == irqEn => (exti \/ tick \in {"clear", "store"})

\* A line that was disabled by a window is enabled again unless the vehicle is
\* disarmed.
LineComesBack == ~exti ~> (exti \/ state = "ACCOFF_UNDEF")

\* A vehicle that stands still is not taken for a moving one for ever.
StoppedIsNoticed == (state = "MOVING" /\ ~turning) ~> (state # "MOVING" \/ turning)
=============================================================================
