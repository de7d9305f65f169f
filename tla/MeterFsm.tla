------------------------------- MODULE MeterFsm -------------------------------
(***************************************************************************)
(* The state machine of the meter: ty_vfm_fsm_event_proc and its session   *)
(* callbacks (components/vfm/fsm/vfm_fsm.c), driven by the transition      *)
(* table and the user callbacks of app/locdef_fsm.c, with the event queue  *)
(* that feeds it, the alarm timer it takes from the ten-slot pool of       *)
(* tuya_kel_port_timer.c, and the outputs it drives (vibration alarm,      *)
(* motor lock, ACC switch, function of the one-key button).                *)
(*                                                                         *)
(* Tasks and soft timers run one at a time on the main loop; only          *)
(* interrupts preempt them.  The one handler that is long enough for an    *)
(* interrupt to matter is the disarm callback, which busy-waits 150 ms     *)
(* before it reads the key: it is two actions here, and between the two    *)
(* only IsrPost is enabled.                                                *)
(***************************************************************************)
EXTENDS Naturals, Sequences, FiniteSets

CONSTANTS QMax,      \* capacity of the event queue (10 in tuya_fsm_init)
          PoolSize   \* timer slots the alarm can get (TY_CORE_TIMER_MAX_NUM
                     \* less the ones other components hold)

ASSUME SizesAreNat == QMax \in Nat \ {0} /\ PoolSize \in Nat

VARIABLES
  nowState,     \* g_vfm_fsm_instance.now_state
  stateRecord,  \* g_state_record
  warnTimer,    \* g_warning_recovery_timer: NULL, or held and idle or armed
  poolFree,     \* free slots of s_ty_core_timer_pool
  queue,        \* messages of the task tuya_fsm_proc_task
  inUndefCb,    \* the main loop is in the 150 ms wait of the disarm callback
  alarmEnable,  \* g_run_para.alarm_enable; EXTI_5 is enabled with it
  motorLock,    \* EBIKE_MOTOR_LOCK_GPIO is high
  accCtrl,      \* EBIKE_ELECTRIC_DOOR_LOCK_CTRL_GPIO is high
  onekey        \* s_onekey_func

timerVars == <<stateRecord, warnTimer, poolFree>>
outputs   == <<alarmEnable, motorLock, accCtrl, onekey>>
vars == <<nowState, timerVars, queue, inUndefCb, outputs>>

States    == {"UNDEF", "DEF", "ACCON", "MOVING", "WARNING"}
NoState   == "0"     \* what g_state_record holds when nothing is recorded
MainEvents == {"UNROTATION", "DEFENCE", "UNDEFENCE", "ACCON", "ACCOFF",
               "REMOTE_ACCON", "SEARCH", "CUSHION", "OVERSPEED", "SAFESPEED"}
IsrEvents == {"SHAKE", "ROTATION"}
Events    == MainEvents \cup IsrEvents

-----------------------------------------------------------------------------
(* The transition table sg_vfm_fsm_table, one record per row.              *)

Row(e, from, to) == [event |-> e, from |-> from, next |-> to]

FsmTable ==
  { Row("SHAKE",        {"DEF"},                    "WARNING"),
    Row("ROTATION",     {"DEF"},                    "WARNING"),
    Row("ACCON",        {"DEF"},                    "WARNING"),
    Row("ROTATION",     {"ACCON"},                  "MOVING"),
    Row("UNROTATION",   {"MOVING"},                 "ACCON"),
    Row("REMOTE_ACCON", {"UNDEF", "DEF"},           "ACCON"),
    Row("ACCON",        {"UNDEF"},                  "ACCON"),
    Row("DEFENCE",      {"UNDEF"},                  "DEF"),
    Row("ACCOFF",       {"ACCON", "WARNING"},       "DEF"),
    Row("UNDEFENCE",    {"DEF", "WARNING"},         "UNDEF"),
    Row("UNROTATION",   {"DEF"},                    "HOLD"),
    Row("UNROTATION",   {"WARNING"},                "HOLD"),
    Row("SEARCH",       {"UNDEF", "DEF", "ACCON"},  "HOLD"),
    Row("CUSHION",      {"UNDEF", "DEF", "ACCON"},  "HOLD"),
    Row("OVERSPEED",    {"MOVING"},                 "HOLD"),
    Row("SAFESPEED",    {"MOVING"},                 "HOLD") }

Matches(e, s, n) == \E r \in FsmTable : r.event = e /\ s \in r.from /\ r.next = n
NoMatch(e, s)    == \A r \in FsmTable : ~(r.event = e /\ s \in r.from)

\* The scan takes the first row that matches: here at most one row does.
ASSUME TableDeterministic ==
  \A r1, r2 \in FsmTable :
     r1.event = r2.event /\ r1.from \cap r2.from # {} => r1 = r2

-----------------------------------------------------------------------------
(* Start-up: locdef_dev_power_on_handle reads the key, and both of its     *)
(* branches leave the vibration alarm on.                                  *)

Init ==
  /\ \E keyOn \in BOOLEAN :
       /\ nowState = IF keyOn THEN "ACCON" ELSE "DEF"
       /\ onekey   = IF keyOn THEN "KEY_ACC_OFF" ELSE "KEY_ACC_ON"
  /\ alarmEnable = TRUE
  /\ motorLock = FALSE
  /\ accCtrl = FALSE
  /\ stateRecord = NoState
  /\ warnTimer = "null"
  /\ poolFree = PoolSize
  /\ queue = <<>>
  /\ inUndefCb = FALSE

-----------------------------------------------------------------------------
(* tuya_vfm_base_event_post: the result of the send is not looked at, so   *)
(* an event that finds the queue full is lost.                             *)

EventPost(q, e) == IF Len(q) < QMax THEN Append(q, e) ELSE q

\* Another task, a BLE callback or a soft timer posts an event; the rotation
\* timer posts UNROTATION only in the states it looks at.
MainPost(e) ==
  /\ ~inUndefCb
  /\ e \in MainEvents
  /\ e = "UNROTATION" => nowState \in {"WARNING", "DEF", "MOVING"}
  /\ queue' = EventPost(queue, e)
  /\ UNCHANGED <<nowState, timerVars, inUndefCb, outputs>>

\* The EXTI or TIMER0 interrupt posts one: SHAKE only while EXTI_5 is enabled.
IsrPost(e) ==
  /\ e \in IsrEvents
  /\ e = "SHAKE" => alarmEnable
  /\ queue' = EventPost(queue, e)
  /\ UNCHANGED <<nowState, timerVars, inUndefCb, outputs>>

-----------------------------------------------------------------------------
(* The alarm timer.                                                        *)

\* Mutant: the null check is dropped and a slot never taken is given back.
StartRevertsUntaken(s) ==
  /\ warnTimer' = "armed"
  /\ poolFree' = poolFree + 1
  /\ stateRecord' = s

\* Mutant: the timer is created and never started.
StartForgotten(s) ==
  LET free == IF warnTimer = "null" THEN poolFree ELSE poolFree + 1
  IN /\ IF free > 0
        THEN warnTimer' = "idle" /\ poolFree' = free - 1
        ELSE warnTimer' = "null" /\ poolFree' = free
     /\ stateRecord' = s

\* vfm_start_warning_timeout: give back the slot still held, take another.
\* tuya_kel_timer_create does not touch the handle when the pool is empty.
StartWarningTimeout(s) ==
  LET free == IF warnTimer = "null" THEN poolFree ELSE poolFree + 1
  IN /\ IF free > 0
        THEN warnTimer' = "armed" /\ poolFree' = free - 1
        ELSE warnTimer' = "null"  /\ poolFree' = free
     /\ stateRecord' = s

\* Mutant: only the record is cleared, the timer keeps running.
StopRecordOnly ==
  /\ stateRecord' = NoState
  /\ UNCHANGED <<warnTimer, poolFree>>

\* vfm_stop_warning_timeout: stops the timer and forgets the handle; the
\* slot is not given back.
StopWarningTimeout ==
  /\ warnTimer' = "null"
  /\ stateRecord' = NoState
  /\ UNCHANGED poolFree

\* vfm_warning_recovery_cb: the handle is kept.
RecoveryTimeout ==
  /\ ~inUndefCb
  /\ warnTimer = "armed"
  /\ nowState' = stateRecord
  /\ warnTimer' = "idle"
  /\ UNCHANGED <<stateRecord, poolFree, queue, inUndefCb, outputs>>

-----------------------------------------------------------------------------
(* tuya_fsm_proc_task takes one message and runs ty_vfm_fsm_event_proc: one *)
(* action for each session callback, its user callback included.           *)

Receive(e) ==
  /\ ~inUndefCb
  /\ queue # <<>>
  /\ e = Head(queue)
  /\ queue' = Tail(queue)

Discard(e) ==
  /\ Receive(e)
  /\ NoMatch(e, nowState)
  /\ UNCHANGED <<nowState, timerVars, inUndefCb, outputs>>

EnterWarning(e) ==
  /\ Receive(e)
  /\ Matches(e, nowState, "WARNING")
  /\ StartWarningTimeout(nowState)
  /\ nowState' = "WARNING"
  /\ accCtrl'   = (accCtrl \/ e = "ROTATION")
  /\ motorLock' = (motorLock \/ e = "ROTATION")
  /\ UNCHANGED <<inUndefCb, alarmEnable, onekey>>

EnterMoving(e) ==
  /\ Receive(e)
  /\ Matches(e, nowState, "MOVING")
  /\ nowState' = "MOVING"
  /\ UNCHANGED <<timerVars, inUndefCb, outputs>>

\* Mutant: ignition switches the alarm off and leaves the motor lock.
EnterAccOnStillLocked(e) ==
  /\ Receive(e)
  /\ Matches(e, nowState, "ACCON")
  /\ nowState' = "ACCON"
  /\ alarmEnable' = FALSE
  /\ accCtrl' = TRUE
  /\ onekey' = "KEY_ACC_OFF"
  /\ UNCHANGED <<timerVars, inUndefCb, motorLock>>

\* Mutant: the user callback does not turn the one-key function over.
EnterAccOnSameKey(e) ==
  /\ Receive(e)
  /\ Matches(e, nowState, "ACCON")
  /\ nowState' = "ACCON"
  /\ alarmEnable' = FALSE
  /\ motorLock' = FALSE
  /\ accCtrl' = TRUE
  /\ UNCHANGED <<timerVars, inUndefCb, onekey>>

EnterAccOn(e) ==
  /\ Receive(e)
  /\ Matches(e, nowState, "ACCON")
  /\ nowState' = "ACCON"
  /\ IF e = "UNROTATION"
     THEN UNCHANGED outputs
     ELSE /\ alarmEnable' = FALSE
          /\ motorLock' = FALSE
          /\ accCtrl' = TRUE
          /\ onekey' = "KEY_ACC_OFF"
  /\ UNCHANGED <<timerVars, inUndefCb>>

EnterAccOffDef(e) ==
  /\ Receive(e)
  /\ Matches(e, nowState, "DEF")
  /\ nowState' = "DEF"
  /\ alarmEnable' = TRUE
  /\ motorLock' = FALSE
  /\ accCtrl' = FALSE
  /\ onekey' = "KEY_ACC_ON"
  /\ UNCHANGED <<timerVars, inUndefCb>>

\* Mutant: the disarm callback does not switch the controller off.
EnterAccOffUndefPowered(e) ==
  /\ Receive(e)
  /\ Matches(e, nowState, "UNDEF")
  /\ nowState' = "UNDEF"
  /\ alarmEnable' = FALSE
  /\ IF stateRecord = "DEF" THEN StopWarningTimeout ELSE UNCHANGED timerVars
  /\ inUndefCb' = TRUE
  /\ UNCHANGED <<motorLock, onekey, accCtrl>>

\* The callback up to its 150 ms wait.
EnterAccOffUndef(e) ==
  /\ Receive(e)
  /\ Matches(e, nowState, "UNDEF")
  /\ nowState' = "UNDEF"
  /\ alarmEnable' = FALSE
  /\ accCtrl' = FALSE
  /\ IF stateRecord = "DEF" THEN StopWarningTimeout ELSE UNCHANGED timerVars
  /\ inUndefCb' = TRUE
  /\ UNCHANGED <<motorLock, onekey>>

\* The rest of it: the key is read, and an ACCON posted when it is on.
UndefCbReadKey(keyOn) ==
  /\ inUndefCb
  /\ queue' = IF keyOn THEN EventPost(queue, "ACCON") ELSE queue
  /\ inUndefCb' = FALSE
  /\ UNCHANGED <<nowState, timerVars, outputs>>

\* Mutant: the wheel release cuts the power before the lock and stops there.
HoldKeepsLock(e) ==
  /\ Receive(e)
  /\ Matches(e, nowState, "HOLD")
  /\ IF e = "UNROTATION" THEN accCtrl' = FALSE ELSE UNCHANGED accCtrl
  /\ UNCHANGED <<nowState, timerVars, inUndefCb, alarmEnable, motorLock, onekey>>

Hold(e) ==
  /\ Receive(e)
  /\ Matches(e, nowState, "HOLD")
  /\ IF e = "UNROTATION"
     THEN accCtrl' = FALSE /\ motorLock' = FALSE
     ELSE UNCHANGED <<accCtrl, motorLock>>
  /\ UNCHANGED <<nowState, timerVars, inUndefCb, alarmEnable, onekey>>

ProcessEvent ==
  \E e \in Events :
     \/ Discard(e)
     \/ EnterWarning(e)
     \/ EnterMoving(e)
     \/ EnterAccOn(e)
     \/ EnterAccOffDef(e)
     \/ EnterAccOffUndef(e)
     \/ Hold(e)

UndefCbEnd == \E keyOn \in BOOLEAN : UndefCbReadKey(keyOn)

Next ==
  \/ \E e \in MainEvents : MainPost(e)
  \/ \E e \in IsrEvents : IsrPost(e)
  \/ ProcessEvent
  \/ UndefCbEnd
  \/ RecoveryTimeout

Spec == Init /\ [][Next]_vars

(* The main loop keeps running: a queued message is taken, a callback      *)
(* returns, and an expired os_timer is served.                             *)
Fairness == WF_vars(ProcessEvent) /\ WF_vars(UndefCbEnd) /\ WF_vars(RecoveryTimeout)
FairSpec == Spec /\ Fairness
-----------------------------------------------------------------------------
(* Safety.                                                                 *)

\* Every variable has its type; in particular the state never becomes the 0
\* that vfm_stop_warning_timeout leaves in g_state_record.
TypeOK ==
  /\ nowState \in States
  /\ stateRecord \in {NoState, "DEF"}
  /\ warnTimer \in {"null", "idle", "armed"}
  /\ poolFree \in 0..PoolSize
  /\ warnTimer # "null" => poolFree < PoolSize
  /\ queue \in Seq(Events)
  /\ Len(queue) <= QMax
  /\ inUndefCb \in BOOLEAN
  /\ alarmEnable \in BOOLEAN
  /\ motorLock \in BOOLEAN
  /\ accCtrl \in BOOLEAN
  /\ onekey \in {"KEY_ACC_ON", "KEY_ACC_OFF"}

\* The wheel is never locked while the vehicle is on or moving, whatever the
\* order of alarms, recoveries, remote and key events that led there.
RidingFreesMotor == nowState \in {"ACCON", "MOVING"} => ~motorLock

\* A disarmed vehicle does not arm itself: no recovery is pending in UNDEF,
\* and a pending one has a real state to go back to.
DisarmCancelsRecovery ==
  warnTimer = "armed" => stateRecord = "DEF" /\ nowState # "UNDEF"

\* The one-key button switches a running vehicle off: it never offers to
\* switch on what is already on.
OnekeyStopsWhenRiding == nowState \in {"ACCON", "MOVING"} => onekey = "KEY_ACC_OFF"

\* A locked wheel is held by a powered controller, or the vehicle was
\* disarmed in mid-alarm: the disarm callback cuts the power and does not
\* write the motor lock.
LockIsPowered == motorLock /\ ~accCtrl => nowState = "UNDEF"

\* A disarmed vehicle has its controller off and makes no alarm.
DisarmedIsQuiet == nowState = "UNDEF" => ~accCtrl /\ ~alarmEnable

-----------------------------------------------------------------------------
(* The timer and the alarm it ends.                                        *)

\* An alarm whose timer was obtained ends, by a command or by its timeout.  One
\* that found the pool empty may last for ever.
AlarmEnds == (nowState = "WARNING" /\ warnTimer # "null") ~> (nowState # "WARNING")

\* vfm_fsm.c:191 and 201: the alarm-state recovery timeout restores the state
\* from before the alarm, so it should change no other state than WARNING.
RecoveryFires == warnTimer = "armed" /\ warnTimer' = "idle"
RecoveryOnlyEndsAlarm ==
  [][RecoveryFires => nowState = "WARNING" \/ nowState' = nowState]_vars
=============================================================================
