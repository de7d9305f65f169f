------------------------------ MODULE MeterReport ------------------------------
(***************************************************************************)
(* The meter and the phone that shows it: MeterFsm with the upload of the  *)
(* data points (components/vfm/upload/vfm_upload.c, app/locdef_dp.c).  A   *)
(* transition ends with a message to the task of the upload, which reads   *)
(* the state and the lock when it comes to serve it: that may be another   *)
(* state than the one the message was sent for, and WARNING and MOVING     *)
(* report nothing of the lock.                                             *)
(***************************************************************************)
EXTENDS MeterFsm

CONSTANT UMax   \* capacity of the upload's queue (10 in ty_vfm_evt_upload_init)

ASSUME UMaxIsNat == UMax \in Nat \ {0}

VARIABLES
  uploads,  \* how many messages the task of the upload has
  paired,   \* the SDK's status is BONDING_CONN
  shown,    \* DPID_DEF_CTRL as the phone has it from this link, or "none"
  answered, \* history: a query has been answered since the last report
  overrun   \* history: an alarm or a ride began before a report was made of the
            \* transition that came before it, and none has been made since

report == <<uploads, paired, shown, answered, overrun>>
rvars == <<vars, report>>

RInit ==
  /\ Init
  /\ uploads = 0
  /\ paired = FALSE /\ shown = "none"
  /\ answered = FALSE /\ overrun = FALSE

-----------------------------------------------------------------------------
(* The vehicle                                                             *)

\* ty_vfm_upload_event_send: what finds the queue full is lost.
EventSend == uploads' = IF uploads < UMax THEN uploads + 1 ELSE uploads

Arrive ==
  /\ \E e \in Events : EnterAccOn(e) \/ EnterAccOffDef(e)
  /\ EventSend
  /\ UNCHANGED overrun

\* The disarm callback sends its message when it has read the key.
ArriveUndef ==
  /\ UndefCbEnd
  /\ EventSend
  /\ UNCHANGED overrun

Leave ==
  /\ \E e \in Events : EnterWarning(e) \/ EnterMoving(e)
  /\ EventSend
  /\ overrun' = (overrun \/ uploads > 0)

\* What sends no message.
Stay ==
  /\ \/ \E e \in MainEvents : MainPost(e)
     \/ \E e \in IsrEvents : IsrPost(e)
     \/ \E e \in Events : Discard(e) \/ EnterAccOffUndef(e) \/ Hold(e)
     \/ RecoveryTimeout
  /\ UNCHANGED <<uploads, overrun>>

Vehicle == (Arrive \/ ArriveUndef \/ Leave \/ Stay) /\ UNCHANGED <<paired, shown, answered>>

-----------------------------------------------------------------------------
(* The upload and the link                                                 *)

\* device_lock_read, as the protocol has it: 0 is locked.
Lock == IF alarmEnable THEN "locked" ELSE "unlocked"

\* Mutant: the row of the other table, s_vfm_dc_evt_table.
ToldOfEvents == {"UNDEF", "DEF"}

\* s_vfm_dc_multi_evt_table: the states in which the lock is reported.
Told == {"UNDEF", "DEF", "ACCON"}

\* vfm_evt_upload_proc_task_adapt; ty_dp_report sends to a phone that is paired.
Upload ==
  /\ ~inUndefCb
  /\ uploads > 0 /\ uploads' = uploads - 1
  /\ IF paired /\ nowState \in Told
     THEN shown' = Lock /\ answered' = FALSE /\ overrun' = FALSE
     ELSE UNCHANGED <<shown, answered, overrun>>
  /\ UNCHANGED <<vars, paired>>

\* ty_dp_query_req: it hands the number of the data point to ty_vfm_lock_read, which
\* takes it for another lock and reads nothing, so the answer is always 0.
Query ==
  /\ ~inUndefCb /\ paired
  /\ shown' = "locked" /\ answered' = TRUE
  /\ UNCHANGED <<vars, uploads, paired, overrun>>

\* The phone pairs; what it was told on an earlier link is not looked at.
Pairs ==
  /\ ~inUndefCb /\ ~paired
  /\ paired' = TRUE
  /\ UNCHANGED <<vars, uploads, shown, answered, overrun>>

Unpairs ==
  /\ ~inUndefCb /\ paired
  /\ paired' = FALSE /\ shown' = "none"
  /\ answered' = FALSE /\ overrun' = FALSE
  /\ UNCHANGED <<vars, uploads>>

-----------------------------------------------------------------------------
RNext == Vehicle \/ Upload \/ Query \/ Pairs \/ Unpairs

RSpec == RInit /\ [][RNext]_rvars

\* The main loop serves the vehicle as it does alone; of the phone nothing is asked.
RFairSpec == RSpec /\ Fairness

-----------------------------------------------------------------------------
(* Properties.                                                             *)

\* locdef_dp.h:34, locdef_dp.c:630: when every upload has been served the phone
\* shows the lock of the vehicle as it is, although messages were lost to a full
\* queue and each was served in a state other than its own; but not what a
\* query answered, nor a transition whose report an alarm or a ride overran.
PhoneShowsLock ==
  paired /\ uploads = 0 /\ ~inUndefCb /\ shown # "none" /\ ~answered /\ ~overrun
    => shown = Lock
=============================================================================
