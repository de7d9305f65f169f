----------------------------- MODULE MeterProofs -----------------------------
(***************************************************************************)
(* Invariance proofs for the vehicle: for MeterFsm and for MeterReport,    *)
(* the same vehicle with the phone that shows it, for every queue and pool *)
(* size; and for two sources of its events, RotationDet and IoFilter.      *)
(*                                                                         *)
(* The safety properties are inductive together: TypeOK needs              *)
(* DisarmCancelsRecovery (a recovery writes g_state_record into the        *)
(* state), LockIsPowered needs it too (a recovery must not leave UNDEF).   *)
(*                                                                         *)
(* What the phone shows is not inductive: between two states that are      *)
(* reported lies an alarm or a ride, in which uploads are served and tell  *)
(* nothing.  PhoneKnows says it of those too.                              *)
(***************************************************************************)
EXTENDS MeterReport, RotationDet, IoFilter, TLAPS

IInv == /\ TypeOK
        /\ RidingFreesMotor
        /\ DisarmCancelsRecovery
        /\ OnekeyStopsWhenRiding
        /\ LockIsPowered
        /\ DisarmedIsQuiet

-----------------------------------------------------------------------------
(* Facts about the queue and the transition table.                         *)

(* A post keeps the queue a sequence of events within its capacity. *)
LEMMA PostKeepsQueue ==
  ASSUME NEW q \in Seq(Events), Len(q) <= QMax, NEW e \in Events
  PROVE  EventPost(q, e) \in Seq(Events) /\ Len(EventPost(q, e)) <= QMax
  BY SizesAreNat DEF EventPost

(* Taking a message keeps it so, and the message is an event. *)
LEMMA TakeKeepsQueue ==
  ASSUME NEW q \in Seq(Events), Len(q) <= QMax, q # <<>>
  PROVE  /\ Head(q) \in Events
         /\ Tail(q) \in Seq(Events)
         /\ Len(Tail(q)) <= QMax
  BY SizesAreNat

(* Where each row of the table can start, and on which event. *)
LEMMA RowsOf ==
  ASSUME NEW e, NEW s
  PROVE  /\ Matches(e, s, "WARNING") => s = "DEF"
         /\ Matches(e, s, "MOVING")  => s = "ACCON"
         /\ Matches(e, s, "ACCON") /\ e = "UNROTATION" => s = "MOVING"
  BY DEF Matches, FsmTable, Row

-----------------------------------------------------------------------------
(* The inductive invariant.                                                *)

(* The start-up state satisfies the invariant. *)
LEMMA InitIInv == Init => IInv
<1> SUFFICES ASSUME Init PROVE IInv
  OBVIOUS
<1>1. \/ nowState = "ACCON" /\ onekey = "KEY_ACC_OFF"
      \/ nowState = "DEF" /\ onekey = "KEY_ACC_ON"
  BY DEF Init
<1>2. queue \in Seq(Events) /\ Len(queue) <= QMax
  BY SizesAreNat DEF Init
<1>3. TypeOK
  <2>1. poolFree \in 0..PoolSize /\ warnTimer = "null"
    BY SizesAreNat DEF Init
  <2>2. /\ inUndefCb \in BOOLEAN /\ alarmEnable \in BOOLEAN
        /\ motorLock \in BOOLEAN /\ accCtrl \in BOOLEAN
    BY DEF Init
  <2>3. stateRecord = NoState
    BY DEF Init
  <2> QED BY <1>1, <1>2, <2>1, <2>2, <2>3 DEF TypeOK, States
<1> QED
  BY <1>1, <1>3 DEF Init, IInv, RidingFreesMotor, DisarmCancelsRecovery,
                    OnekeyStopsWhenRiding, LockIsPowered, DisarmedIsQuiet

(* Every step keeps it: posts only touch the queue, each handler is a case. *)
LEMMA StepIInv == IInv /\ [Next]_vars => IInv'
<1> SUFFICES ASSUME IInv, [Next]_vars PROVE IInv'
  OBVIOUS
<1> USE DEF IInv, RidingFreesMotor, DisarmCancelsRecovery, OnekeyStopsWhenRiding,
            LockIsPowered, DisarmedIsQuiet
<1>post. ASSUME NEW e \in Events, queue' = EventPost(queue, e),
                UNCHANGED <<nowState, timerVars, outputs>>, inUndefCb' \in BOOLEAN
         PROVE  IInv'
  <2>1. queue' \in Seq(Events) /\ Len(queue') <= QMax
    BY <1>post, PostKeepsQueue DEF TypeOK
  <2> QED BY <1>post, <2>1 DEF TypeOK, timerVars, outputs
<1>1. ASSUME NEW e \in MainEvents, MainPost(e) PROVE IInv'
  BY <1>1, <1>post DEF MainPost, Events, TypeOK
<1>2. ASSUME NEW e \in IsrEvents, IsrPost(e) PROVE IInv'
  BY <1>2, <1>post DEF IsrPost, Events, TypeOK
<1>3. ASSUME NEW e \in Events,
             \/ Discard(e) \/ EnterWarning(e) \/ EnterMoving(e) \/ EnterAccOn(e)
             \/ EnterAccOffDef(e) \/ EnterAccOffUndef(e) \/ Hold(e)
      PROVE  IInv'
  <2>q. /\ queue' \in Seq(Events)
        /\ Len(queue') <= QMax
    <3>1. Receive(e)
      BY <1>3 DEF Discard, EnterWarning, EnterMoving, EnterAccOn, EnterAccOffDef,
                  EnterAccOffUndef, Hold
    <3> QED BY <3>1, TakeKeepsQueue DEF Receive, TypeOK
  <2>1. CASE Discard(e)
    BY <2>1, <2>q DEF Discard, TypeOK, timerVars, outputs
  <2>2. CASE EnterWarning(e)
    <3>1. nowState = "DEF"
      BY <2>2, RowsOf DEF EnterWarning
    <3>2. /\ stateRecord' = "DEF"
          /\ warnTimer' \in {"null", "armed"}
          /\ poolFree' \in 0..PoolSize
          /\ warnTimer' # "null" => poolFree' < PoolSize
      BY <2>2, <3>1, SizesAreNat DEF EnterWarning, StartWarningTimeout, TypeOK
    <3> QED BY <2>2, <2>q, <3>1, <3>2 DEF EnterWarning, TypeOK, States
  <2>3. CASE EnterMoving(e)
    BY <2>3, <2>q, RowsOf DEF EnterMoving, TypeOK, States, timerVars, outputs
  <2>4. CASE EnterAccOn(e)
    BY <2>4, <2>q, RowsOf DEF EnterAccOn, TypeOK, States, timerVars, outputs
  <2>5. CASE EnterAccOffDef(e)
    BY <2>5, <2>q DEF EnterAccOffDef, TypeOK, States, timerVars
  <2>6. CASE EnterAccOffUndef(e)
    BY <2>6, <2>q DEF EnterAccOffUndef, StopWarningTimeout, TypeOK, States, NoState, timerVars
  <2>7. CASE Hold(e)
    BY <2>7, <2>q DEF Hold, TypeOK, timerVars
  <2> QED BY <1>3, <2>1, <2>2, <2>3, <2>4, <2>5, <2>6, <2>7
<1>4. ASSUME NEW keyOn \in BOOLEAN, UndefCbReadKey(keyOn) PROVE IInv'
  <2>1. CASE keyOn
    <3>1. "ACCON" \in Events
      BY DEF Events, MainEvents
    <3> QED BY <1>4, <2>1, <3>1, <1>post DEF UndefCbReadKey
  <2>2. CASE ~keyOn
    BY <1>4, <2>2 DEF UndefCbReadKey, TypeOK, timerVars, outputs
  <2> QED BY <2>1, <2>2
<1>5. CASE RecoveryTimeout
  BY <1>5 DEF RecoveryTimeout, TypeOK, States, outputs
<1>6. CASE UNCHANGED vars
  BY <1>6 DEF vars, timerVars, outputs, TypeOK
<1> QED
  BY <1>1, <1>2, <1>3, <1>4, <1>5, <1>6 DEF Next, ProcessEvent, UndefCbEnd

(* The invariant holds throughout every behaviour of the state machine. *)
THEOREM Invariance == Spec => []IInv
  BY InitIInv, StepIInv, PTL DEF Spec

-----------------------------------------------------------------------------
(* What a reader should know of.                                           *)

(* Every variable keeps its type, and the state is never the 0 that a      *)
(* cancelled alarm leaves in g_state_record.                               *)
THEOREM TypeCorrect == Spec => []TypeOK
<1>1. IInv => TypeOK
  BY DEF IInv
<1> QED BY <1>1, Invariance, PTL

(* The wheel is never locked while the vehicle is on or moving. *)
THEOREM RidingSafe == Spec => []RidingFreesMotor
<1>1. IInv => RidingFreesMotor
  BY DEF IInv
<1> QED BY <1>1, Invariance, PTL

(* No recovery is pending on a disarmed vehicle, and a pending one knows    *)
(* the state it restores.                                                  *)
THEOREM DisarmIsFinal == Spec => []DisarmCancelsRecovery
<1>1. IInv => DisarmCancelsRecovery
  BY DEF IInv
<1> QED BY <1>1, Invariance, PTL

(* The one-key button of a running vehicle switches it off. *)
THEOREM OnekeyCorrect == Spec => []OnekeyStopsWhenRiding
<1>1. IInv => OnekeyStopsWhenRiding
  BY DEF IInv
<1> QED BY <1>1, Invariance, PTL

(* A wheel is locked without power only on a vehicle disarmed in mid-alarm. *)
THEOREM LockPowered == Spec => []LockIsPowered
<1>1. IInv => LockIsPowered
  BY DEF IInv
<1> QED BY <1>1, Invariance, PTL

(* A disarmed vehicle has neither power nor vibration alarm. *)
THEOREM DisarmedQuiet == Spec => []DisarmedIsQuiet
<1>1. IInv => DisarmedIsQuiet
  BY DEF IInv
<1> QED BY <1>1, Invariance, PTL

-----------------------------------------------------------------------------
(* The meter with its phone.                                               *)

Silent == {"WARNING", "MOVING"}

UploadsOK    == uploads \in 0..UMax
CbIsUndef    == inUndefCb => nowState = "UNDEF"
ShownIsPaired == ~paired => shown = "none"

PhoneKnows ==
  paired /\ (uploads = 0 \/ nowState \in Silent) /\ ~inUndefCb
    /\ shown # "none" /\ ~answered /\ ~overrun
      => shown = Lock

RInv == UploadsOK /\ CbIsUndef /\ ShownIsPaired /\ PhoneKnows

-----------------------------------------------------------------------------
(* The vehicle is that of MeterFsm.                                        *)

(* What the vehicle does with its phone is a step of MeterFsm. *)
LEMMA VehicleSteps == [RNext]_rvars => [Next]_vars
<1> SUFFICES ASSUME [RNext]_rvars PROVE [Next]_vars
  OBVIOUS
<1>1. CASE Vehicle
  BY <1>1 DEF Vehicle, Arrive, ArriveUndef, Leave, Stay, Next, ProcessEvent
<1>2. CASE Upload \/ Query \/ Pairs \/ Unpairs
  BY <1>2 DEF Upload, Query, Pairs, Unpairs
<1>3. CASE UNCHANGED rvars
  BY <1>3 DEF rvars
<1> QED BY <1>1, <1>2, <1>3 DEF RNext

(* The meter with its phone implements the vehicle alone: every property   *)
(* proved of MeterFsm holds of it (uploads and links never hold it up or   *)
(* change what it does).                                                   *)
THEOREM MeterIsVehicle == RSpec => Spec
<1>1. RInit => Init
  BY DEF RInit
<1> QED BY <1>1, VehicleSteps, PTL DEF RSpec, Spec

-----------------------------------------------------------------------------
(* What the phone shows.                                                   *)

(* The start-up state satisfies the invariant. *)
LEMMA InitRInv == RInit => RInv
  BY UMaxIsNat DEF RInit, Init, RInv, UploadsOK, CbIsUndef, ShownIsPaired, PhoneKnows

(* A message sent leaves at least one in the queue, and not too many. *)
LEMMA SendLeavesOne ==
  ASSUME UploadsOK, EventSend
  PROVE  UploadsOK' /\ uploads' # 0
  BY UMaxIsNat DEF UploadsOK, EventSend

(* The invariant is kept by each step of the meter. *)
LEMMA StepRInv == IInv /\ RInv /\ [RNext]_rvars => RInv'
<1> SUFFICES ASSUME IInv, RInv, [RNext]_rvars PROVE RInv'
  OBVIOUS
<1> USE DEF RInv
<1>1. CASE Vehicle /\ Arrive
  <2>1. PICK e \in Events : EnterAccOn(e) \/ EnterAccOffDef(e)
    BY <1>1 DEF Arrive
  <2>2. ~inUndefCb /\ ~inUndefCb' /\ nowState' \in {"ACCON", "DEF"}
    BY <2>1 DEF EnterAccOn, EnterAccOffDef, Receive
  <2>3. UploadsOK' /\ uploads' # 0
    BY <1>1, SendLeavesOne DEF Arrive
  <2> QED BY <1>1, <2>2, <2>3 DEF Vehicle, CbIsUndef, ShownIsPaired, PhoneKnows, Silent
<1>2. CASE Vehicle /\ ArriveUndef
  <2>1. nowState' = "UNDEF" /\ ~inUndefCb'
    BY <1>2 DEF ArriveUndef, UndefCbEnd, UndefCbReadKey, CbIsUndef
  <2>2. UploadsOK' /\ uploads' # 0
    BY <1>2, SendLeavesOne DEF ArriveUndef
  <2> QED BY <1>2, <2>1, <2>2 DEF Vehicle, CbIsUndef, ShownIsPaired, PhoneKnows, Silent
<1>3. CASE Vehicle /\ Leave
  <2>1. PICK e \in Events : EnterWarning(e) \/ EnterMoving(e)
    BY <1>3 DEF Leave
  <2>2. ~inUndefCb /\ ~inUndefCb' /\ alarmEnable' = alarmEnable
    BY <2>1 DEF EnterWarning, EnterMoving, Receive, outputs
  <2>3. UploadsOK' /\ uploads' # 0
    BY <1>3, SendLeavesOne DEF Leave
  <2>4. overrun' = (overrun \/ uploads > 0) /\ (uploads = 0 \/ uploads > 0)
    BY <1>3, UMaxIsNat DEF Leave, UploadsOK
  <2> QED BY <1>3, <2>2, <2>3, <2>4
          DEF Vehicle, CbIsUndef, ShownIsPaired, PhoneKnows, Lock
<1>4. CASE Vehicle /\ Stay
  <2>1. UploadsOK' /\ ShownIsPaired'
    BY <1>4 DEF Vehicle, Stay, UploadsOK, ShownIsPaired
  <2>2. ASSUME UNCHANGED <<nowState, alarmEnable, inUndefCb>>
        PROVE  CbIsUndef' /\ PhoneKnows'
    BY <1>4, <2>2 DEF Vehicle, Stay, CbIsUndef, PhoneKnows, Lock
  <2>3. CASE \E e \in Events : EnterAccOffUndef(e)
    BY <2>1, <2>3 DEF EnterAccOffUndef, CbIsUndef, PhoneKnows
  <2>4. CASE RecoveryTimeout
    <3>1. stateRecord = "DEF"
      BY <2>4 DEF IInv, DisarmCancelsRecovery, RecoveryTimeout
    <3> QED BY <1>4, <2>1, <2>4, <3>1
            DEF Vehicle, Stay, RecoveryTimeout, outputs, CbIsUndef, PhoneKnows, Lock, Silent
  <2>5. CASE \/ \E e \in MainEvents : MainPost(e)
             \/ \E e \in IsrEvents : IsrPost(e)
             \/ \E e \in Events : Discard(e) \/ Hold(e)
    <3>1. UNCHANGED <<nowState, alarmEnable, inUndefCb>>
      BY <2>5 DEF MainPost, IsrPost, Discard, Hold, outputs
    <3> QED BY <2>1, <2>2, <3>1
  <2> QED BY <1>4, <2>3, <2>4, <2>5 DEF Stay
<1>5. CASE Upload
  <2>1. UploadsOK'
    BY <1>5, UMaxIsNat DEF Upload, UploadsOK
  <2>2. CASE paired /\ nowState \in Told
    BY <1>5, <2>1, <2>2 DEF Upload, CbIsUndef, ShownIsPaired, PhoneKnows, Lock, vars, outputs
  <2>3. CASE paired /\ nowState \in Silent
    BY <1>5, <2>1, <2>3
    DEF Upload, CbIsUndef, ShownIsPaired, PhoneKnows, Lock, vars, outputs, Silent, Told
  <2>4. CASE ~paired
    BY <1>5, <2>1, <2>4 DEF Upload, CbIsUndef, ShownIsPaired, PhoneKnows, vars
  <2>5. nowState \in Told \cup Silent
    BY DEF IInv, TypeOK, States, Told, Silent
  <2> QED BY <2>2, <2>3, <2>4, <2>5
<1>6. CASE Query \/ Pairs \/ Unpairs
  BY <1>6
  DEF Query, Pairs, Unpairs, UploadsOK, CbIsUndef, ShownIsPaired, PhoneKnows, vars
<1>7. CASE UNCHANGED rvars
  BY <1>7 DEF rvars, report, vars, outputs, UploadsOK, CbIsUndef, ShownIsPaired, PhoneKnows, Lock
<1> QED BY <1>1, <1>2, <1>3, <1>4, <1>5, <1>6, <1>7 DEF RNext, Vehicle

(* The two invariants hold throughout. *)
THEOREM ReportInvariance == RSpec => [](IInv /\ RInv)
<1>1. RInit => Init
  BY DEF RInit
<1> QED BY <1>1, InitIInv, InitRInv, VehicleSteps, StepIInv, StepRInv, PTL DEF RSpec

(* When every upload has been served the phone shows the lock as it is,    *)
(* whatever was lost to a full queue or served late; what a query          *)
(* answered and what an alarm or a ride overran are the exceptions.        *)
THEOREM PhoneIsTold == RSpec => []PhoneShowsLock
<1>1. RInv => PhoneShowsLock
  BY DEF RInv, PhoneKnows, PhoneShowsLock
<1> QED BY <1>1, ReportInvariance, PTL

-----------------------------------------------------------------------------
(* RotationDet.  A release takes three steps, and the window may close in  *)
(* between: RoomForRelease says that its event still finds a place.        *)

RoomForRelease == tick \in {"count", "release", "post"} => Len(events) < EventMax

(* Before the flag is set it is clear or the line is enabled, whatever bit *)
(* the main loop is about to store for another line.                       *)
StaleBitIsHarmless == tick = "other" => (loaded \/ ~irqEn)

RotIInv == RotTypeOK /\ RoomForRelease /\ StaleBitIsHarmless /\ DetectorAlive

(* Taking an event leaves a shorter queue of events. *)
LEMMA EventsTail ==
  ASSUME NEW T, NEW q \in Seq(T), q # <<>>
  PROVE  Head(q) \in T /\ Tail(q) \in Seq(T) /\ Len(Tail(q)) = Len(q) - 1
  OBVIOUS

(* A post makes it longer by one. *)
LEMMA EventsAppend ==
  ASSUME NEW T, NEW q \in Seq(T), NEW e \in T
  PROVE  Append(q, e) \in Seq(T) /\ Len(Append(q, e)) = Len(q) + 1
  OBVIOUS

(* The detector as it is set up. *)
LEMMA RotInitIInv == RotInit => RotIInv
<1> SUFFICES ASSUME RotInit PROVE RotIInv
  OBVIOUS
<1>1. events \in Seq({"ROTATION", "UNROTATION"}) /\ Len(events) = 0
  BY DEF RotInit
<1>2. /\ releaseCnt \in 0 .. AlarmRelease + 1 /\ releaseCnt <= AlarmRelease
      /\ pulses \in 0 .. PulseMax
      /\ alarmCnt \in 0 .. LOCDEF_ROTATION_ALARM_PULSE_CNT /\ Len(events) <= EventMax
  BY <1>1, RotationDetAssumption
  DEF RotInit, PulseMax, ROTATION_PULSE_VALID_THR, LOCDEF_ROTATION_ALARM_PULSE_CNT
<1> QED
  BY <1>1, <1>2 DEF RotInit, RotIInv, RotTypeOK, RoomForRelease, StaleBitIsHarmless,
    DetectorAlive, ArmOrder, RotStates

(* A step of the callback, of an interrupt or of the vehicle keeps it. *)
LEMMA RotStepIInv == RotIInv /\ [RotNext]_rotVars => RotIInv'
<1> SUFFICES ASSUME RotIInv, [RotNext]_rotVars PROVE RotIInv'
  OBVIOUS
<1> DEFINE RotEvents == {"ROTATION", "UNROTATION"}
<1> USE DEF RotIInv, RotTypeOK, RoomForRelease, StaleBitIsHarmless, DetectorAlive, ArmOrder
<1>0. Len(events) \in Nat
  OBVIOUS
<1>1. CASE TickOdd
  BY <1>1 DEF TickOdd, detector
<1>2. CASE TickCheck
  <2>1. UNCHANGED <<state, events, turning, loaded, irqEn, cplt, speed, detector>> /\ evenTick' \in BOOLEAN
    BY <1>2 DEF TickCheck
  <2>2. /\ releaseCnt' \in 0 .. AlarmRelease + 1
        /\ tick' # "count" => releaseCnt' <= AlarmRelease
    BY <1>2, RotationDetAssumption DEF TickCheck
  <2>3. tick' \in {"count", "arm"} /\ Len(events) < EventMax
    BY <1>0, <1>2, RotationDetAssumption DEF TickCheck, RoomForEvents
  <2>4. irqEn => exti
    BY <1>2 DEF TickCheck
  <2> QED BY <2>1, <2>2, <2>3, <2>4 DEF detector
<1>3. CASE TickCount
  <2>1. /\ UNCHANGED <<state, events, turning, loaded, evenTick, irqEn, cplt, detector>>
        /\ tick = "count" /\ tick' \in {"release", "arm"} /\ speed' \in BOOLEAN
    BY <1>3 DEF TickCount
  <2>2. releaseCnt' \in 0 .. AlarmRelease
    BY <1>3, RotationDetAssumption DEF TickCount, ReleaseTime
  <2>3. releaseCnt' \in 0 .. AlarmRelease + 1 /\ releaseCnt' <= AlarmRelease
    BY <2>2, RotationDetAssumption
  <2> QED BY <2>1, <2>3 DEF detector
<1>4. CASE TickRelease
  BY <1>4 DEF TickRelease, detector
<1>5. CASE TickPost
  <2>1. events' \in Seq(RotEvents) /\ Len(events') = Len(events) + 1
    BY <1>5, EventsAppend DEF TickPost, Post
  <2> QED BY <1>0, <1>5, <2>1, RotationDetAssumption DEF TickPost, detector
<1>6. CASE TickArm
  BY <1>6 DEF TickArm, detector
<1>7. CASE TickSet
  BY <1>7 DEF TickSet, detector
<1>8. CASE TickClear
  BY <1>8 DEF TickClear, detector
<1>9. CASE TickStore
  BY <1>9 DEF TickStore
<1>10. CASE OtherLoad
  BY <1>10 DEF OtherLoad, detector
<1>11. CASE OtherStore
  BY <1>11 DEF OtherStore
<1>14. CASE PulseArrives
  BY <1>14 DEF PulseArrives, callback
<1>12. CASE PulseIsr
  <2>1. pulses' \in 0 .. PulseMax
    BY <1>12 DEF PulseIsr, PulseMax, ROTATION_PULSE_VALID_THR
  <2> QED BY <1>12, <2>1, ZenonT(20) DEF PulseIsr, callback
<1>13. CASE TimerIsr
  <2>1. /\ Len(events) + 1 < EventMax
        /\ UNCHANGED <<state, turning, callback, pending, pulses>>
        /\ irqEn' = FALSE /\ exti' = FALSE /\ window' = FALSE
    BY <1>13 DEF TimerIsr, RoomForEvents
  <2>2. \/ events' = events
        \/ events' = Append(events, "ROTATION")
    BY <1>13 DEF TimerIsr, ManyPulses, FewPulsesArmed, FewPulses, Post
  <2>3. events' \in Seq(RotEvents) /\ Len(events') <= Len(events) + 1
    BY <1>0, <2>2, EventsAppend
  <2>4. speed' \in BOOLEAN /\ cplt' \in BOOLEAN
    BY <1>13 DEF TimerIsr, ManyPulses, FewPulsesArmed, FewPulses
  <2>5. alarmCnt' \in 0 .. LOCDEF_ROTATION_ALARM_PULSE_CNT
    <3> USE DEF PulseMax, ROTATION_PULSE_VALID_THR, LOCDEF_ROTATION_ALARM_PULSE_CNT
    <3>1. CASE ManyPulses
      BY <3>1 DEF ManyPulses
    <3>2. CASE FewPulsesArmed
      BY <3>2 DEF FewPulsesArmed
    <3>3. CASE FewPulses
      BY <3>3 DEF FewPulses
    <3> QED BY <1>13, <3>1, <3>2, <3>3 DEF TimerIsr
  <2>6. /\ Len(events') <= EventMax
        /\ tick' \in {"count", "release", "post"} => Len(events') < EventMax
    BY <1>0, <2>1, <2>3, RotationDetAssumption
  <2> QED BY <2>1, <2>3, <2>4, <2>5, <2>6 DEF callback
<1>15. CASE ServeEvent
  <2>1. events' \in Seq(RotEvents) /\ Len(events') = Len(events) - 1
    BY <1>15, EventsTail DEF ServeEvent
  <2>2. state' \in RotStates
    BY <1>15 DEF ServeEvent, After, RotStates
  <2> QED BY <1>0, <1>15, <2>1, <2>2, RotationDetAssumption DEF ServeEvent, callback, detector
<1>16. CASE OtherEvent
  BY <1>16 DEF OtherEvent, Reachable, RotStates, callback, detector
<1>17. CASE Wheel
  BY <1>17 DEF Wheel, callback, detector
<1>18. CASE UNCHANGED rotVars
  BY <1>18 DEF rotVars, callback, detector
<1> QED
  BY <1>1, <1>2, <1>3, <1>4, <1>5, <1>6, <1>7, <1>8, <1>9, <1>10, <1>11, <1>12, <1>13,
    <1>14, <1>15, <1>16, <1>17, <1>18 DEF RotNext, Tick, Begin, Rest

(* The invariant holds in every behaviour of the detector. *)
THEOREM RotInvariance == RotSpec => []RotIInv
  BY RotInitIInv, RotStepIInv, PTL DEF RotSpec

(* The flag is never left set over a disabled line: it is set before the   *)
(* line is enabled, and a window that closes between any two steps of the  *)
(* arming clears the flag and leaves a line that is armed again, or is     *)
(* enabled already by the store that follows.  A line enabled first would  *)
(* be lost for ever.                                                       *)
THEOREM DetectorStaysAlive == RotSpec => []DetectorAlive
<1>1. RotIInv => DetectorAlive
  BY DEF RotIInv
<1> QED BY <1>1, RotInvariance, PTL

-----------------------------------------------------------------------------
(* IoFilter: the invariants.  A status bit is raised only for an enabled   *)
(* pin, and what the main loop has loaded of ext_int_en lacks no pin that  *)
(* is enabled.  PlacesTaken counts the places the queue may come to need:  *)
(* its messages, the pins that are enabled or will be by the store that    *)
(* follows, and the pin the task holds.  Only a store that enables a pin   *)
(* whose message waits makes them more than one for each pin, so that the  *)
(* queue refuses nothing; hence a disabled pin is served.                  *)

B(b) == IF b THEN 1 ELSE 0

\* The pin is enabled, or by the store that follows.
Enabled(p) == irqOn[p] \/ (Enabling /\ saved[p])

PlacesOf(p) == B(Enabled(p)) + B(Filtering(p))

PlacesTaken == Len(ring) - presses + PlacesOf("DOOR") + PlacesOf("SPEED")

StatusIsEnabled == \A p \in status : irqOn[p]

LoadedCovers == Enabling => \A p \in Pins : irqOn[p] => saved[p]

RacesAreFew == presses <= KeyMsgs /\ lost + revived <= MaxRaces

UsedIsBounded == Dequeuing => used <= Len(ring) + 1

CountIsRight ==
  /\ Counted \in Nat
  /\ Len(ring) = Counted + lost
  /\ UsedIsBounded

RoomLeft == PlacesTaken <= 2 + revived

PinIInv ==
  IoTypeOK /\ StatusIsEnabled /\ LoadedCovers /\ RacesAreFew /\ CountIsRight /\ RoomLeft

(* A message behind the others. *)
LEMMA SentBehind ==
  ASSUME NEW q \in Seq(Pins), NEW p \in Pins
  PROVE  /\ Append(q, p) \in Seq(Pins)
         /\ Len(Append(q, p)) = Len(q) + 1
         /\ \A i \in DOMAIN q : i \in DOMAIN Append(q, p) /\ Append(q, p)[i] = q[i]
         /\ Len(q) + 1 \in DOMAIN Append(q, p) /\ Append(q, p)[Len(q) + 1] = p
  OBVIOUS

(* The first message taken: every other moves up by one. *)
LEMMA TakenOff ==
  ASSUME NEW q \in Seq(Pins), Len(q) > 0
  PROVE  /\ Head(q) \in Pins /\ Tail(q) \in Seq(Pins)
         /\ Len(Tail(q)) = Len(q) - 1
         /\ \A i \in DOMAIN q : i # 1 => i - 1 \in DOMAIN Tail(q) /\ Tail(q)[i - 1] = q[i]
         /\ q[1] = Head(q)
<1>1. q # <<>>
  OBVIOUS
<1> QED BY <1>1

(* The places are natural numbers. *)
LEMMA PlacesAreNat ==
  ASSUME NEW p
  PROVE  /\ PlacesOf(p) \in Nat
         /\ Enabled(p) => PlacesOf(p) >= 1
  BY DEF PlacesOf, B

(* A step that changes neither the messages nor the races, and gives no    *)
(* pin a place more, leaves the room.                                      *)
LEMMA RoomStays ==
  ASSUME IoTypeOK, RoomLeft, UNCHANGED <<ring, presses, revived>>,
         PlacesOf("DOOR")' <= PlacesOf("DOOR"), PlacesOf("SPEED")' <= PlacesOf("SPEED")
  PROVE  RoomLeft'
<1> PICK d, s : d = PlacesOf("DOOR")' /\ s = PlacesOf("SPEED")'
  OBVIOUS
<1>1. d \in Nat /\ s \in Nat
  BY DEF PlacesOf, B
<1>2. PlacesOf("DOOR") \in Nat /\ PlacesOf("SPEED") \in Nat
  BY PlacesAreNat
<1>3. Len(ring) \in Nat /\ presses \in Int /\ revived \in Nat
  BY DEF IoTypeOK
<1> QED BY <1>1, <1>2, <1>3 DEF RoomLeft, PlacesTaken

(* The pins at start-up: two are enabled, nothing else takes a place. *)
LEMMA PinInit == IoInit => PinIInv
<1> SUFFICES ASSUME IoInit PROVE PinIInv
  OBVIOUS
<1>1. IoTypeOK
  BY DEF IoInit, IoTypeOK, Pins, NoPins, IO_FILTER_READ_CNT
<1>2. StatusIsEnabled /\ LoadedCovers
  BY DEF IoInit, StatusIsEnabled, LoadedCovers, Enabling
<1>3. RacesAreFew
  BY IoFilterAssumption DEF IoInit, RacesAreFew
<1>4. CountIsRight
  BY DEF IoInit, CountIsRight, Counted, UsedIsBounded, Dequeuing
<1>5. PlacesOf("DOOR") = 1 /\ PlacesOf("SPEED") = 1
  BY DEF IoInit, PlacesOf, Enabled, Enabling, Filtering, B, Pins
<1>6. RoomLeft
  BY <1>5 DEF IoInit, RoomLeft, PlacesTaken
<1> QED BY <1>1, <1>2, <1>3, <1>4, <1>6 DEF PinIInv

(* An interrupt finds room in the queue: the pin it serves is enabled, so  *)
(* of the places one is its own, or the button has not had its.            *)
LEMMA ExtiFindsRoom ==
  ASSUME PinIInv, ExtiIsr
  PROVE  /\ Served \in Pins /\ irqOn[Served]
         /\ irqOn' = [irqOn EXCEPT ![Served] = FALSE]
         /\ ring' = Append(ring, Served) /\ used' = used + 1 /\ tokens' = tokens + 1
         /\ presses' = IF Served = "START" THEN presses + 1 ELSE presses
         /\ Len(ring) < FilterQMax
<1>1. Served \in Pins /\ irqOn[Served]
  BY DEF PinIInv, IoTypeOK, ExtiIsr, StatusIsEnabled, Served, Pins
<1>2. /\ Len(ring) \in Nat /\ used \in Nat /\ presses \in Int
      /\ lost \in Nat /\ revived \in Nat
      /\ FilterQMax \in Nat /\ KeyMsgs \in Nat /\ MaxRaces \in Nat
  BY IoFilterAssumption DEF PinIInv, IoTypeOK
<1>3. Len(ring) <= KeyMsgs + 1 + revived
  <2>1. PlacesOf("DOOR") \in Nat /\ PlacesOf("SPEED") \in Nat
    BY PlacesAreNat
  <2>2. Len(ring) - presses + PlacesOf("DOOR") + PlacesOf("SPEED") <= 2 + revived
    BY DEF PinIInv, RoomLeft, PlacesTaken
  <2>3. presses <= KeyMsgs
    BY DEF PinIInv, RacesAreFew
  <2>4. CASE Served = "START"
    <3>1. presses < KeyMsgs
      BY <2>4 DEF ExtiIsr
    <3> QED BY <1>2, <2>1, <2>2, <3>1
  <2>5. CASE Served # "START"
    <3>1. PlacesOf("DOOR") >= 1 \/ PlacesOf("SPEED") >= 1
      BY <1>1, <2>5, PlacesAreNat DEF Enabled, Pins
    <3> QED BY <1>2, <2>1, <2>2, <2>3, <3>1
  <2> QED BY <2>4, <2>5
<1>4. lost + revived <= MaxRaces /\ (Dequeuing => lost + revived < MaxRaces)
  BY DEF PinIInv, RacesAreFew, ExtiIsr
<1>5. used < FilterQMax
  <2>1. CASE Dequeuing
    <3>1. used <= Len(ring) + 1
      BY <2>1 DEF PinIInv, CountIsRight, UsedIsBounded
    <3> QED BY <1>2, <1>3, <1>4, <2>1, <3>1, RoomForEveryPin
  <2>2. CASE ~Dequeuing
    <3>1. Len(ring) = used + lost
      BY <2>2 DEF PinIInv, CountIsRight, Counted
    <3> QED BY <1>2, <1>3, <1>4, <3>1, RoomForEveryPin
  <2> QED BY <2>1, <2>2
<1>6. Len(ring) < FilterQMax
  BY <1>2, <1>3, <1>4, RoomForEveryPin
<1>7. ~(used >= FilterQMax)
  BY <1>2, <1>5
<1> QED BY <1>1, <1>6, <1>7 DEF ExtiIsr, Notify

(* The steps that leave the queue and the enabled pins alone. *)
LEMMA QuietStep ==
  ASSUME PinIInv, IoTypeOK', StatusIsEnabled',
         UNCHANGED <<irqOn, ring, used, presses, races>>,
         \/ UNCHANGED <<task, pin, count, saved>>
         \/ /\ KeyTimerFires \/ HandlePin \/ LoadEnabled \/ EnableOther
            /\ count' = count
  PROVE  PinIInv'
<1>1. ~Dequeuing \/ UNCHANGED <<task, count>>
  BY DEF Dequeuing, KeyTimerFires, HandlePin, HandleReading, LoadEnabled, EnableOther
<1>2. Dequeuing' = Dequeuing
  BY DEF Dequeuing, KeyTimerFires, HandlePin, HandleReading, LoadEnabled, EnableOther
<1>3. CountIsRight'
  BY <1>1, <1>2 DEF PinIInv, CountIsRight, Counted, UsedIsBounded, races
<1>4. RacesAreFew'
  BY DEF PinIInv, RacesAreFew, races
<1>5. LoadedCovers'
  BY DEF PinIInv, LoadedCovers, Enabling, KeyTimerFires, HandlePin, HandleReading, LoadEnabled,
         EnableOther
<1>6. \A p \in {"DOOR", "SPEED"} : Enabled(p)' = Enabled(p)
  BY DEF Enabled, Enabling, KeyTimerFires, HandlePin, HandleReading, LoadEnabled, EnableOther
<1>7. \A p \in {"DOOR", "SPEED"} : Filtering(p)' = Filtering(p)
  BY DEF Filtering, KeyTimerFires, StartFilter, HandlePin, HandleReading, LoadEnabled, EnableOther
<1>8. PlacesOf("DOOR")' = PlacesOf("DOOR") /\ PlacesOf("SPEED")' = PlacesOf("SPEED")
  BY <1>6, <1>7 DEF PlacesOf, B
<1>9. RoomLeft'
  <2>1. PlacesOf("DOOR") \in Nat /\ PlacesOf("SPEED") \in Nat
    BY PlacesAreNat
  <2>2. PlacesOf("DOOR")' <= PlacesOf("DOOR") /\ PlacesOf("SPEED")' <= PlacesOf("SPEED")
    BY <1>8, <2>1
  <2> QED BY <2>2, RoomStays DEF PinIInv, races
<1> QED BY <1>3, <1>4, <1>5, <1>9 DEF PinIInv

(* An interrupt: the pin's own place becomes its message's, except when    *)
(* the store that follows enables it all the same.                         *)
LEMMA ExtiStep == PinIInv /\ ExtiIsr => PinIInv'
<1> SUFFICES ASSUME PinIInv, ExtiIsr PROVE PinIInv'
  OBVIOUS
<1>1. /\ UNCHANGED <<high, onRise, filter, keyTimer>> /\ status' = {} /\ posted' = "none"
      /\ lost' = IF Dequeuing THEN lost + 1 ELSE lost
      /\ revived' = IF Enabling THEN revived + 1 ELSE revived
      /\ Dequeuing \/ Enabling => lost + revived < MaxRaces
      /\ Served = "START" => presses < KeyMsgs
  BY DEF ExtiIsr
<1>2. /\ Served \in Pins /\ irqOn[Served]
      /\ irqOn' = [irqOn EXCEPT ![Served] = FALSE]
      /\ ring' = Append(ring, Served) /\ used' = used + 1 /\ tokens' = tokens + 1
      /\ presses' = IF Served = "START" THEN presses + 1 ELSE presses
  BY ExtiFindsRoom
<1>3. /\ irqOn \in [Pins -> BOOLEAN] /\ ring \in Seq(Pins) /\ Len(ring) \in Nat
      /\ used \in Nat /\ tokens \in Nat /\ lost \in Nat /\ revived \in Nat
      /\ count \in Int /\ presses \in Int
      /\ KeyMsgs \in Nat /\ MaxRaces \in Nat
  BY IoFilterAssumption DEF PinIInv, IoTypeOK
<1>4. ring' \in Seq(Pins) /\ Len(ring') = Len(ring) + 1
  BY <1>2, <1>3, SentBehind
<1>5. IoTypeOK'
  <2>1. irqOn' \in [Pins -> BOOLEAN]
    BY <1>2, <1>3
  <2>2. used' \in Nat /\ tokens' \in Nat /\ lost' \in Nat /\ revived' \in Nat /\ presses' \in Int
    BY <1>1, <1>2, <1>3
  <2> QED BY <1>1, <1>4, <2>1, <2>2 DEF PinIInv, IoTypeOK, filter
<1>6. StatusIsEnabled'
  BY <1>1 DEF StatusIsEnabled
<1>7. LoadedCovers'
  BY <1>1, <1>2, <1>3 DEF PinIInv, LoadedCovers, Enabling, filter
<1>8. RacesAreFew'
  <2>1. presses <= KeyMsgs /\ lost + revived <= MaxRaces
    BY DEF PinIInv, RacesAreFew
  <2>2. presses' <= KeyMsgs
    BY <1>1, <1>2, <1>3, <2>1
  <2>3. ~(Dequeuing /\ Enabling)
    BY DEF Dequeuing, Enabling
  <2>4. lost' + revived' <= MaxRaces
    BY <1>1, <1>3, <2>1, <2>3
  <2> QED BY <2>2, <2>4 DEF RacesAreFew
<1>9. CountIsRight'
  <2>1. UNCHANGED <<task, count>> /\ Dequeuing' = Dequeuing
    BY <1>1 DEF filter, Dequeuing
  <2>2. Counted' = (IF Dequeuing THEN Counted ELSE Counted + 1)
    BY <1>2, <2>1 DEF Counted
  <2>3. /\ Counted \in Nat /\ Len(ring) = Counted + lost
        /\ Dequeuing => used <= Len(ring) + 1
    BY DEF PinIInv, CountIsRight, UsedIsBounded
  <2>4. Counted' \in Nat /\ Len(ring') = Counted' + lost'
    BY <1>1, <1>3, <1>4, <2>2, <2>3
  <2>5. Dequeuing => used' <= Len(ring') + 1
    BY <1>2, <1>3, <1>4, <2>3
  <2> QED BY <2>1, <2>4, <2>5 DEF CountIsRight, UsedIsBounded
<1>10. RoomLeft'
  <2> PICK q : q = Served
    OBVIOUS
  <2>n. PICK n, m : n = Len(ring) /\ m = Len(ring')
    OBVIOUS
  <2>p. PICK a, b, d, s : /\ a = PlacesOf("DOOR") /\ b = PlacesOf("SPEED")
                          /\ d = PlacesOf("DOOR")' /\ s = PlacesOf("SPEED")'
    OBVIOUS
  <2>1. UNCHANGED <<task, pin, saved>>
    BY <1>1 DEF filter
  <2>2. \A p \in Pins : Filtering(p)' = Filtering(p)
    BY <2>1 DEF Filtering
  <2>3. \A p \in Pins : p # q => Enabled(p)' = Enabled(p)
    BY <1>2, <1>3, <2>1 DEF Enabled, Enabling
  <2>4. Enabled(q) /\ Enabled(q)' = Enabling
    BY <1>2, <1>3, <2>1 DEF Enabled, Enabling, PinIInv, LoadedCovers
  <2>5. a \in Nat /\ b \in Nat /\ d \in Nat /\ s \in Nat
    BY <2>p DEF PlacesOf, B
  <2>6. q # "DOOR" => d = a
    BY <2>2, <2>3, <2>p DEF PlacesOf, Pins
  <2>7. q # "SPEED" => s = b
    BY <2>2, <2>3, <2>p DEF PlacesOf, Pins
  <2>8. q = "DOOR" => d = IF Enabling THEN a ELSE a - 1
    BY <2>2, <2>4, <2>p DEF PlacesOf, B, Pins
  <2>9. q = "SPEED" => s = IF Enabling THEN b ELSE b - 1
    BY <2>2, <2>4, <2>p DEF PlacesOf, B, Pins
  <2>10. /\ n \in Nat /\ m = n + 1 /\ revived \in Nat /\ presses \in Int
         /\ revived' = IF Enabling THEN revived + 1 ELSE revived
    BY <1>1, <1>3, <1>4, <2>n
  <2>11. n - presses + a + b <= 2 + revived
    BY <2>n, <2>p DEF PinIInv, RoomLeft, PlacesTaken
  <2>12. m - presses' + d + s <= 2 + revived'
    <3>1. CASE q = "START"
      <4>1. d = a /\ s = b /\ presses' = presses + 1 /\ revived' >= revived /\ revived' \in Nat
        BY <1>2, <2>6, <2>7, <2>10, <3>1
      <4> QED BY <2>5, <2>10, <2>11, <4>1
    <3>2. CASE q \in {"DOOR", "SPEED"} /\ Enabling
      <4>1. d = a /\ s = b /\ presses' = presses /\ revived' = revived + 1
        BY <1>2, <2>6, <2>7, <2>8, <2>9, <2>10, <3>2
      <4>2. n + 1 - presses + a + b <= 2 + (revived + 1)
        BY <2>5, <2>10, <2>11
      <4> QED BY <2>10, <4>1, <4>2
    <3>3. CASE q \in {"DOOR", "SPEED"} /\ ~Enabling
      <4>1. d + s = a + b - 1 /\ presses' = presses /\ revived' = revived
        BY <1>2, <2>5, <2>6, <2>7, <2>8, <2>9, <2>10, <3>3
      <4>2. n + 1 - presses + d + s <= 2 + revived
        <5>1. d + s = a + b - 1
          BY <4>1
        <5> QED BY <2>5, <2>10, <2>11, <5>1
      <4> QED BY <2>10, <4>1, <4>2
    <3> QED BY <1>2, <3>1, <3>2, <3>3 DEF Pins
  <2> QED BY <2>12, <2>n, <2>p DEF RoomLeft, PlacesTaken
<1> QED BY <1>5, <1>6, <1>7, <1>8, <1>9, <1>10 DEF PinIInv

(* The task takes the first message: the place of the message becomes the  *)
(* pin's own, and the count is in the main loop's hands.                   *)
LEMMA TakeStep == PinIInv /\ TakePin => PinIInv'
<1> SUFFICES ASSUME PinIInv, TakePin PROVE PinIInv'
  OBVIOUS
<1>1. /\ task = "idle" /\ task' = "take" /\ tokens > 0 /\ used > 0 /\ tokens' = tokens - 1
      /\ ring' = Tail(ring)
      /\ presses' = IF Head(ring) = "START" THEN presses - 1 ELSE presses
      /\ count' = used /\ pin' = Head(ring) /\ seen' = {} /\ samples' = 0
      /\ posted' = "none"
      /\ UNCHANGED <<high, irqOn, onRise, status, used, saved, keyTimer, lost, revived>>
  BY DEF TakePin, StartFilter, line, races
<1>2. /\ ring \in Seq(Pins) /\ Len(ring) \in Nat
      /\ used \in Nat /\ tokens \in Nat /\ lost \in Nat /\ revived \in Nat
      /\ presses \in Int /\ KeyMsgs \in Nat /\ MaxRaces \in Nat
  BY IoFilterAssumption DEF PinIInv, IoTypeOK
<1>3. Len(ring) = used + lost
  BY <1>1 DEF PinIInv, CountIsRight, Counted, Dequeuing
<1>4. Head(ring) \in Pins /\ ring' \in Seq(Pins) /\ Len(ring') = Len(ring) - 1
  BY <1>1, <1>2, <1>3, TakenOff
<1>5. IoTypeOK'
  <2>1. tokens' \in Nat /\ presses' \in Int /\ count' \in Int
    BY <1>1, <1>2
  <2> QED BY <1>1, <1>4, <2>1 DEF PinIInv, IoTypeOK, IO_FILTER_READ_CNT
<1>6. StatusIsEnabled' /\ LoadedCovers'
  BY <1>1 DEF PinIInv, StatusIsEnabled, LoadedCovers, Enabling
<1>7. RacesAreFew'
  BY <1>1, <1>2 DEF PinIInv, RacesAreFew
<1>8. CountIsRight'
  <2>1. Counted' = used - 1 /\ Dequeuing'
    BY <1>1 DEF Counted, Dequeuing
  <2> QED BY <1>1, <1>2, <1>3, <1>4, <2>1 DEF CountIsRight, UsedIsBounded
<1>9. RoomLeft'
  <2> PICK q : q = Head(ring)
    OBVIOUS
  <2>n. PICK n, m : n = Len(ring) /\ m = Len(ring')
    OBVIOUS
  <2>p. PICK a, b, d, s : /\ a = PlacesOf("DOOR") /\ b = PlacesOf("SPEED")
                          /\ d = PlacesOf("DOOR")' /\ s = PlacesOf("SPEED")'
    OBVIOUS
  <2>1. \A p \in Pins : Enabled(p)' = Enabled(p) /\ ~Filtering(p) /\ (Filtering(p)' <=> p = q)
    BY <1>1 DEF Enabled, Enabling, Filtering
  <2>2. a \in Nat /\ b \in Nat /\ d \in Nat /\ s \in Nat
    BY <2>p DEF PlacesOf, B
  <2>3. d = (IF q = "DOOR" THEN a + 1 ELSE a) /\ s = (IF q = "SPEED" THEN b + 1 ELSE b)
    BY <2>1, <2>p DEF PlacesOf, B, Pins
  <2>4. n \in Nat /\ m = n - 1 /\ revived \in Nat /\ presses \in Int /\ revived' = revived
    BY <1>1, <1>2, <1>4, <2>n
  <2>5. n - presses + a + b <= 2 + revived
    BY <2>n, <2>p DEF PinIInv, RoomLeft, PlacesTaken
  <2>6. m - presses' + d + s <= 2 + revived'
    <3>1. CASE q = "START"
      <4>1. presses' = presses - 1 /\ d = a /\ s = b
        BY <1>1, <2>3, <3>1
      <4> QED BY <2>2, <2>4, <2>5, <4>1
    <3>2. CASE q \in {"DOOR", "SPEED"}
      <4>1. presses' = presses /\ d + s = a + b + 1
        BY <1>1, <2>2, <2>3, <3>2
      <4>2. n - 1 - presses + d + s <= 2 + revived
        <5>1. d + s = a + b + 1
          BY <4>1
        <5> QED BY <2>2, <2>4, <2>5, <5>1
      <4> QED BY <2>4, <4>1, <4>2
    <3> QED BY <1>4, <3>1, <3>2 DEF Pins
  <2> QED BY <2>6, <2>n, <2>p DEF RoomLeft, PlacesTaken
<1> QED BY <1>5, <1>6, <1>7, <1>8, <1>9 DEF PinIInv

(* The store of the count drops what was sent since the load.              *)
LEMMA StoreStep == PinIInv /\ (Read \/ Press) => PinIInv'
<1> SUFFICES ASSUME PinIInv, Read \/ Press PROVE PinIInv'
  OBVIOUS
<1>1. /\ task = "take" /\ used' = count - 1 /\ count' = 0 /\ posted' = "none"
      /\ task' \in {"idle", "sample", "load"}
      /\ pin' \in Pins /\ keyTimer' \in {"null", "idle", "armed"}
      /\ UNCHANGED <<high, irqOn, onRise, status, ring, tokens, presses, seen, samples, saved,
                     lost, revived>>
      /\ pin # "START" => pin' = pin /\ task' = "sample"
      /\ pin = "START" => pin' = pin \/ task' = "idle"
  BY DEF Read, Press, StoreUsed, line, races, PinIInv, IoTypeOK, Pins
<1>2. count - 1 \in Nat /\ Len(ring) = count - 1 + lost /\ lost \in Nat /\ Len(ring) \in Nat
  BY <1>1 DEF PinIInv, CountIsRight, Counted, Dequeuing, IoTypeOK
<1>3. IoTypeOK'
  BY <1>1, <1>2 DEF PinIInv, IoTypeOK
<1>4. StatusIsEnabled' /\ LoadedCovers' /\ RacesAreFew'
  BY <1>1 DEF PinIInv, StatusIsEnabled, LoadedCovers, Enabling, RacesAreFew
<1>5. CountIsRight'
  <2>1. ~Dequeuing' /\ Counted' = count - 1
    BY <1>1 DEF Counted, Dequeuing
  <2> QED BY <1>1, <1>2, <2>1 DEF CountIsRight, UsedIsBounded
<1>6. RoomLeft'
  <2>1. \A p \in {"DOOR", "SPEED"} : Enabled(p)' = Enabled(p) /\ (Filtering(p)' <=> Filtering(p))
    BY <1>1 DEF Enabled, Enabling, Filtering
  <2>2. PlacesOf("DOOR")' = PlacesOf("DOOR") /\ PlacesOf("SPEED")' = PlacesOf("SPEED")
    BY <2>1 DEF PlacesOf, B
  <2>3. PlacesOf("DOOR") \in Nat /\ PlacesOf("SPEED") \in Nat
    BY PlacesAreNat
  <2>4. PlacesOf("DOOR")' <= PlacesOf("DOOR") /\ PlacesOf("SPEED")' <= PlacesOf("SPEED")
    BY <2>2, <2>3
  <2> QED BY <1>1, <2>4, RoomStays DEF PinIInv
<1> QED BY <1>3, <1>4, <1>5, <1>6 DEF PinIInv

(* The store of the register enables every pin that was, and the pin the   *)
(* task held.                                                              *)
LEMMA EnableStep == PinIInv /\ (StoreEnabled \/ StoreOther) => PinIInv'
<1> SUFFICES ASSUME PinIInv, StoreEnabled \/ StoreOther PROVE PinIInv'
  OBVIOUS
<1>1. /\ task \in {"enable", "other"} /\ task' = "idle" /\ posted' = "none" /\ saved' = NoPins
      /\ \/ task = "enable" /\ irqOn' = [saved EXCEPT ![pin] = TRUE]
         \/ task = "other" /\ irqOn' = saved
      /\ pin' \in Pins
      /\ UNCHANGED <<high, onRise, status, ring, used, tokens, presses, seen, samples, count,
                     keyTimer, lost, revived>>
  BY DEF StoreEnabled, StoreOther, filterQ, races, PinIInv, IoTypeOK, Pins
<1>2. saved \in [Pins -> BOOLEAN] /\ irqOn \in [Pins -> BOOLEAN] /\ pin \in Pins
  BY DEF PinIInv, IoTypeOK
<1>3. Enabling /\ ~Dequeuing /\ ~Enabling' /\ ~Dequeuing'
  BY <1>1 DEF Enabling, Dequeuing
<1>4. \A p \in Pins : irqOn[p] => saved[p]
  BY <1>3 DEF PinIInv, LoadedCovers
<1>5. IoTypeOK'
  <2>1. irqOn' \in [Pins -> BOOLEAN] /\ NoPins \in [Pins -> BOOLEAN]
    BY <1>1, <1>2 DEF NoPins
  <2> QED BY <1>1, <2>1 DEF PinIInv, IoTypeOK
<1>6. StatusIsEnabled'
  <2>1. \A p \in Pins : irqOn[p] => irqOn'[p]
    BY <1>1, <1>2, <1>4
  <2> QED BY <1>1, <2>1 DEF PinIInv, IoTypeOK, StatusIsEnabled
<1>7. LoadedCovers' /\ RacesAreFew'
  BY <1>1, <1>3 DEF PinIInv, LoadedCovers, RacesAreFew
<1>8. CountIsRight'
  BY <1>1, <1>3 DEF PinIInv, CountIsRight, Counted, UsedIsBounded
<1>9. RoomLeft'
  <2>1. \A p \in Pins : ~Filtering(p)'
    BY <1>1 DEF Filtering
  <2>2. \A p \in Pins : p # pin \/ task = "other" => (Enabled(p)' => Enabled(p))
    BY <1>1, <1>2, <1>3 DEF Enabled
  <2>3. \A p \in Pins : p = pin /\ task = "enable" => Filtering(p)
    BY DEF Filtering
  <2>4. \A p \in Pins : Enabled(p)' => Enabled(p) \/ Filtering(p)
    BY <1>1, <2>2, <2>3
  <2>5. "DOOR" \in Pins /\ "SPEED" \in Pins
    BY DEF Pins
  <2>6. PlacesOf("DOOR")' <= PlacesOf("DOOR")
    BY <2>1, <2>4, <2>5 DEF PlacesOf, B
  <2>7. PlacesOf("SPEED")' <= PlacesOf("SPEED")
    BY <2>1, <2>4, <2>5 DEF PlacesOf, B
  <2> QED BY <1>1, <2>6, <2>7, RoomStays DEF PinIInv
<1> QED BY <1>5, <1>6, <1>7, <1>8, <1>9 DEF PinIInv

(* Every step keeps the invariant. *)
LEMMA PinStep == PinIInv /\ [IoNext]_ioVars => PinIInv'
<1> SUFFICES ASSUME PinIInv, [IoNext]_ioVars PROVE PinIInv'
  OBVIOUS
<1> USE DEF line, filterQ, filter, races
<1>t. IoTypeOK /\ StatusIsEnabled
  BY DEF PinIInv
<1>1. ASSUME NEW p \in Pins, Edge(p)
      PROVE  PinIInv'
  <2>1. high' \in [Pins -> BOOLEAN] /\ status' \subseteq Pins
    BY <1>t, <1>1 DEF Edge, IoTypeOK
  <2>2. IoTypeOK' /\ StatusIsEnabled'
    BY <1>t, <1>1, <2>1 DEF Edge, IoTypeOK, StatusIsEnabled
  <2> QED BY <1>1, <2>2, QuietStep DEF Edge
<1>2. CASE ExtiIsrVibration
  <2>1. IoTypeOK' /\ StatusIsEnabled'
    BY <1>t, <1>2 DEF ExtiIsrVibration, IoTypeOK, StatusIsEnabled
  <2> QED BY <1>2, <2>1, QuietStep DEF ExtiIsrVibration
<1>3. CASE WaitFails
  <2>1. tokens' \in Nat
    BY <1>t, <1>3 DEF WaitFails, IoTypeOK
  <2>2. IoTypeOK' /\ StatusIsEnabled'
    BY <1>t, <1>3, <2>1 DEF WaitFails, IoTypeOK, StatusIsEnabled
  <2> QED BY <1>3, <2>2, QuietStep DEF WaitFails
<1>4. CASE KeyTimerFires
  <2>1. IoTypeOK' /\ StatusIsEnabled'
    BY <1>t, <1>4 DEF KeyTimerFires, StartFilter, IoTypeOK, StatusIsEnabled, Pins,
                      IO_FILTER_READ_CNT
  <2> QED BY <1>4, <2>1, QuietStep DEF KeyTimerFires
<1>5. CASE Sample
  <2>1. seen' \subseteq BOOLEAN /\ samples' \in 0 .. IO_FILTER_READ_CNT
    BY <1>t, <1>5 DEF Sample, IoTypeOK, IO_FILTER_READ_CNT
  <2>2. IoTypeOK' /\ StatusIsEnabled'
    BY <1>t, <1>5, <2>1 DEF Sample, IoTypeOK, StatusIsEnabled
  <2> QED BY <1>5, <2>2, QuietStep DEF Sample
<1>6. CASE HandlePin
  <2>1. onRise' \in [Pins -> BOOLEAN]
    BY <1>t, <1>6 DEF IoTypeOK, HandlePin, HandleReading, DoorHandle, SpeedHandle, StartHandle
  <2>2. posted' \in {"none", "ACCON", "ACCOFF", "SAFESPEED", "OVERSPEED"}
    BY <1>6 DEF HandlePin, HandleReading, DoorHandle, SpeedHandle, StartHandle
  <2>3. IoTypeOK' /\ StatusIsEnabled'
    BY <1>t, <1>6, <2>1, <2>2 DEF HandlePin, HandleReading, IoTypeOK, StatusIsEnabled,
                                  IO_FILTER_READ_CNT
  <2> QED BY <1>6, <2>3, QuietStep DEF HandlePin, HandleReading
<1>7. CASE LoadEnabled \/ EnableOther
  <2>1. IoTypeOK' /\ StatusIsEnabled'
    BY <1>t, <1>7 DEF LoadEnabled, EnableOther, IoTypeOK, StatusIsEnabled
  <2> QED BY <1>7, <2>1, QuietStep DEF LoadEnabled, EnableOther
<1>8. CASE UNCHANGED ioVars
  <2>1. IoTypeOK' /\ StatusIsEnabled'
    BY <1>t, <1>8 DEF ioVars, IoTypeOK, StatusIsEnabled
  <2> QED BY <1>8, <2>1, QuietStep DEF ioVars
<1> QED
  BY <1>1, <1>2, <1>3, <1>4, <1>5, <1>6, <1>7, <1>8, ExtiStep, TakeStep, StoreStep, EnableStep
  DEF IoNext, FilterTask, Filter

(* The invariant holds in every behaviour of the inputs. *)
THEOREM PinInvariance == IoSpec => []PinIInv
  BY PinInit, PinStep, PTL DEF IoSpec

(* An interrupt between the load and the store of used-- leaves a message  *)
(* behind, and nothing else does; and the ring never overtakes its reader, *)
(* with any number of such interrupts the queue has room for.              *)
THEOREM OnlyDequeuesStrand == IoSpec => []OnlyRacesStrand
<1>1. ASSUME PinIInv PROVE OnlyRacesStrand
  <2>1. /\ Len(ring) \in Nat /\ presses \in Int /\ lost \in Nat /\ revived \in Nat
        /\ FilterQMax \in Nat /\ KeyMsgs \in Nat /\ MaxRaces \in Nat
    BY <1>1, IoFilterAssumption DEF PinIInv, IoTypeOK
  <2>2. PlacesOf("DOOR") \in Nat /\ PlacesOf("SPEED") \in Nat
    BY PlacesAreNat
  <2>3. Len(ring) - presses + PlacesOf("DOOR") + PlacesOf("SPEED") <= 2 + revived
    BY <1>1 DEF PinIInv, RoomLeft, PlacesTaken
  <2>4. presses <= KeyMsgs /\ lost + revived <= MaxRaces
    BY <1>1 DEF PinIInv, RacesAreFew
  <2>5. Len(ring) <= FilterQMax
    BY <2>1, <2>2, <2>3, <2>4, RoomForEveryPin
  <2> QED BY <1>1, <2>5 DEF OnlyRacesStrand, PinIInv, CountIsRight
<1> QED BY <1>1, PinInvariance, PTL

(* A pin that is disabled, or held by someone, is held by someone after    *)
(* each step, or enabled.                                                  *)
LEMMA ServedStep == PinIInv /\ DisabledIsServed /\ [IoNext]_ioVars => DisabledIsServed'
<1> SUFFICES ASSUME PinIInv, DisabledIsServed, [IoNext]_ioVars,
                    NEW p \in Pins, ~irqOn'[p]
             PROVE  InRing(p)' \/ Filtering(p)' \/ Waiting(p)'
  BY DEF DisabledIsServed
<1>t. /\ irqOn \in [Pins -> BOOLEAN] /\ saved \in [Pins -> BOOLEAN]
      /\ ring \in Seq(Pins) /\ pin \in Pins
  BY DEF PinIInv, IoTypeOK
<1>s. ~irqOn[p] => InRing(p) \/ Filtering(p) \/ Waiting(p)
  BY DEF DisabledIsServed
<1>1. CASE UNCHANGED <<irqOn, ring, task, pin, keyTimer>>
  BY <1>1, <1>s DEF InRing, Filtering, Waiting
<1>2. CASE ExtiIsr
  <2> PICK q : q = Served
    OBVIOUS
  <2>1. /\ UNCHANGED <<task, pin, keyTimer>> /\ q \in Pins
        /\ irqOn' = [irqOn EXCEPT ![q] = FALSE] /\ ring' = Append(ring, q)
    BY <1>2, ExtiFindsRoom DEF ExtiIsr, filter
  <2>2. InRing(q)' /\ (InRing(p) => InRing(p)')
    BY <1>t, <2>1, SentBehind DEF InRing
  <2> QED BY <1>s, <1>t, <2>1, <2>2 DEF Filtering, Waiting
<1>3. CASE TakePin
  <2>1. /\ task = "idle" /\ task' = "take" /\ pin' = Head(ring) /\ used > 0
        /\ ring' = Tail(ring) /\ UNCHANGED <<irqOn, keyTimer>>
    BY <1>3 DEF TakePin, StartFilter, line
  <2>2. Len(ring) > 0
    <3>1. Len(ring) = used + lost /\ used \in Nat /\ lost \in Nat
      BY <2>1 DEF PinIInv, CountIsRight, Counted, Dequeuing, IoTypeOK
    <3> QED BY <2>1, <3>1
  <2>3. InRing(p) => InRing(p)' \/ p = Head(ring)
    BY <1>t, <2>1, <2>2, TakenOff DEF InRing
  <2> QED BY <1>s, <2>1, <2>3 DEF Filtering, Waiting
<1>4. CASE Read \/ KeyTimerFires \/ HandlePin \/ LoadEnabled \/ EnableOther
  BY <1>4, <1>s DEF Read, StoreUsed, KeyTimerFires, StartFilter, HandlePin, HandleReading,
                    LoadEnabled, EnableOther, line, filterQ, InRing, Filtering, Waiting
<1>5. CASE Press
  BY <1>5, <1>s DEF Press, StoreUsed, line, InRing, Filtering, Waiting
<1>6. CASE StoreEnabled \/ StoreOther
  <2>1. UNCHANGED <<ring, keyTimer>>
    BY <1>6 DEF StoreEnabled, StoreOther, filterQ
  <2>2. ~saved[p] /\ ~Filtering(p)
    BY <1>6, <1>t DEF StoreEnabled, StoreOther, Filtering
  <2>3. ~irqOn[p]
    BY <1>6, <2>2 DEF PinIInv, LoadedCovers, Enabling, StoreEnabled, StoreOther
  <2> QED BY <1>s, <2>1, <2>2, <2>3 DEF InRing, Waiting
<1>7. (\E q \in Pins : Edge(q)) \/ ExtiIsrVibration \/ WaitFails \/ Sample \/ UNCHANGED ioVars
      => UNCHANGED <<irqOn, ring, task, pin, keyTimer>>
  BY DEF Edge, ExtiIsrVibration, WaitFails, Sample, ioVars, line, filterQ, filter
<1> QED
  BY <1>1, <1>2, <1>3, <1>4, <1>5, <1>6, <1>7 DEF IoNext, FilterTask, Filter

(* No input is left without anyone who holds it: whatever the order of     *)
(* edges, interrupts and messages, and wherever an interrupt falls between *)
(* a load and a store of the main loop, a disabled pin's message is in the *)
(* ring, or the pin is filtered, or waits for the timer of the button.     *)
THEOREM DisabledPinsAreServed == IoSpec => []DisabledIsServed
<1>1. IoInit => DisabledIsServed
  BY DEF IoInit, DisabledIsServed
<1> QED BY <1>1, PinInvariance, ServedStep, PTL DEF IoSpec
=============================================================================
