------------------------------ MODULE HidUnlock ------------------------------
(***************************************************************************)
(* Proximity unlocking (app/locdef_hid.c with its callers in peripheral.c  *)
(* and app/locdef_dp.c): the table of bonded phones and its copy in flash, *)
(* the settings of the phone in use, and the window of signal strengths    *)
(* that unlocks the vehicle near the phone and locks it far from it.       *)
(*                                                                         *)
(* A phone reaches the program twice: by the encryption of its link, which *)
(* yields its key, and by the application on it, which authenticates to    *)
(* the Tuya SDK (BONDING_CONN) and sets data points.                       *)
(***************************************************************************)
EXTENDS Integers, Sequences, FiniteSets, FiniteSetsExt, SequencesExt

CONSTANTS Phones,            \* keys of the phones
          ZeroKey,           \* the key of a cleared record: 16 bytes 0
          ErasedKey,         \* the key of an erased one: 16 bytes 0xFF
          NoPeer,            \* no link
          BondNum,           \* TUYA_BLE_MAX_PEER_BOND_NUM (8)
          Readings,          \* signal strengths a link may report
          Levels             \* sensitivities the application may set

ASSUME HidUnlockAssumption ==
  /\ BondNum \in Nat \ {0}
  /\ Readings \subseteq -95 .. -15
  /\ Levels \subseteq {-55, -65, -75}
  /\ {ZeroKey, ErasedKey, NoPeer} \cap Phones = {} /\ ZeroKey # ErasedKey

VARIABLES
  table, nv,   \* s_dev_bond_arrary and its copy in flash
  dev,         \* run_param->dev_hid
  bonded,      \* hid_dev_bond = TY_HID_DEV_BONDED
  verified,    \* s_hid_key_verify
  window,      \* s_hid_rssi_sample up to s_hid_rssi_count
  once,        \* s_hid_unlock_once
  peer,        \* the phone on the link
  encrypted,   \* the link is encrypted
  app,         \* tuya_ble_connect_status_get() = BONDING_CONN
  paired,      \* phones the vendor's bond manager knows
  pairing,     \* ble_peripheral_bond_init(1): pairing is allowed
  poll, delay, \* os_timer_for_get_rssi and os_timer_start_rssi_timer_delay run
  posted       \* the event the last step posted, "none" if it posted none

bonds   == <<table, nv, dev, bonded>>
meter   == <<verified, window, once>>
link    == <<peer, encrypted, app, paired, pairing>>
timers  == <<poll, delay>>
hidVars    == <<bonds, meter, link, timers, posted>>

Slots == 1 .. BondNum
RSSI_OPEN_MIDDLE == -65
RSSI_OPEN_HIGH   == -75
RSSI_CLOSE_NORMAL == -87
DEV_HID_RSSI_FILTER_DEBOUNCE == 5
RSSI_SAMPLE_MAX == 3

\* ty_dev_hid_t: active is false in dev_hid and true in a slot in use.
HidRecord == [key : Phones \cup {ZeroKey, ErasedKey}, near : BOOLEAN, far : BOOLEAN,
              sens : Levels \cup {0, -1, RSSI_OPEN_MIDDLE}, active : BOOLEAN]
Cleared == [key |-> ZeroKey, near |-> FALSE, far |-> FALSE, sens |-> 0, active |-> FALSE]
EmptyTable == [i \in Slots |-> Cleared]

\* The flash reads 0xFF where it is erased: there every slot is in use.
Erased == [key |-> ErasedKey, near |-> TRUE, far |-> TRUE, sens |-> -1, active |-> TRUE]
ErasedTable == [i \in Slots |-> Erased]

\* hid_dev_bond as the program is loaded.
BondAtLoad == FALSE

HidInit ==
  /\ table = EmptyTable /\ nv = ErasedTable
  /\ dev = Cleared
  /\ bonded = BondAtLoad
  /\ verified = FALSE /\ window = <<>> /\ once = FALSE
  /\ peer = NoPeer /\ encrypted = FALSE /\ app = FALSE
  /\ paired = {} /\ pairing = FALSE
  /\ poll = FALSE /\ delay = FALSE
  /\ posted = "none"

-----------------------------------------------------------------------------
(* The bond table.                                                         *)

\* ty_hid_bond_info_check
Holds(t, k) == \E i \in Slots : t[i].active /\ t[i].key = k
SlotOf(t, k) == Min({i \in Slots : t[i].active /\ t[i].key = k})

\* ty_hid_bond_info_save: the slot of the key, or a free one, or the last.
BondInfoSave(t, k, d) ==
  LET fit  == {i \in Slots : t[i].key = k \/ ~t[i].active}
      slot == IF fit = {} THEN BondNum ELSE Min(fit)
  IN [t EXCEPT ![slot] = [d EXCEPT !.key = k, !.active = TRUE]]

\* ty_hid_config_info_save: the slot with the key, used or not, takes the whole
\* record d, its key included.
ConfigInfoSave(t, k, d) ==
  LET fit == {i \in Slots : t[i].key = k}
  IN IF fit = {} THEN t ELSE [t EXCEPT ![Min(fit)] = [d EXCEPT !.active = TRUE]]

\* Mutant: a new key gets no slot.
RefreshedKnownOnly(k, d) == IF ~app THEN nv ELSE ConfigInfoSave(nv, k, d)

\* The table after ty_hid_bond_refresh(k) with the settings d: read from flash,
\* and saved there when the application is authenticated.
Refreshed(k, d) == IF ~app THEN nv
                   ELSE IF Holds(nv, k) THEN ConfigInfoSave(nv, k, d)
                   ELSE BondInfoSave(nv, k, d)

Usable(sens) == IF sens >= 0 \/ sens < RSSI_OPEN_HIGH THEN RSSI_OPEN_MIDDLE ELSE sens

\* ty_hid_bond_refresh(k) when the settings are d.
BondRefresh(k, d) ==
  LET t == Refreshed(k, d)
  IN /\ table' = t /\ nv' = t
     /\ IF Holds(t, k)
        THEN LET r == t[SlotOf(t, k)]
             IN /\ dev' = [d EXCEPT !.key = k, !.near = r.near, !.far = r.far,
                                    !.sens = Usable(r.sens)]
                /\ bonded' = TRUE
        ELSE dev' = d /\ UNCHANGED bonded

-----------------------------------------------------------------------------
(* The link (app_gap_evt_cb) and the SDK's connection status.              *)

\* A phone connects once the SDK has served the end of the link before.
Connect(k) ==
  /\ peer = NoPeer /\ ~app
  /\ peer' = k
  /\ encrypted' = FALSE
  /\ posted' = "none"
  /\ UNCHANGED <<bonds, meter, app, paired, pairing, timers>>

AppAuthenticates ==
  /\ peer # NoPeer /\ ~app
  /\ app' = TRUE
  /\ posted' = "none"
  /\ UNCHANGED <<bonds, meter, peer, encrypted, paired, pairing, timers>>

\* GAP_SEC_EVT_SLAVE_ENCRYPT; the readings start 2 s after a refresh that found
\* the key.
SlaveEncrypt ==
  /\ peer # NoPeer
  /\ (peer \in paired /\ ~encrypted) \/ pairing
  /\ encrypted' = TRUE
  /\ paired' = paired \cup {peer}
  /\ BondRefresh(peer, dev)
  /\ delay' = (delay \/ Holds(Refreshed(peer, dev), peer))
  /\ posted' = "none"
  /\ UNCHANGED <<meter, peer, app, pairing, poll>>

\* os_timer_for_start_rssi_delay_handler
StartPolling ==
  /\ delay
  /\ delay' = FALSE /\ poll' = TRUE
  /\ posted' = "none"
  /\ UNCHANGED <<bonds, meter, link>>

\* GAP_SEC_EVT_BOND_FAIL: ty_hid_bond_refresh(NULL)
BondFail ==
  /\ peer # NoPeer /\ pairing
  /\ dev' = [dev EXCEPT !.near = FALSE, !.far = FALSE]
  /\ posted' = "none"
  /\ UNCHANGED <<table, nv, bonded, meter, link, timers>>

\* Mutant: the table is saved for a phone that has no bond, too.
DisconnectSaves ==
  /\ peer # NoPeer
  /\ table' = ConfigInfoSave(table, dev.key, dev)
  /\ nv' = IF \E i \in Slots : table[i].key = dev.key THEN table' ELSE nv
  /\ posted' = IF dev.far THEN "DEFENCE" ELSE "none"
  /\ dev' = [dev EXCEPT !.near = FALSE, !.far = FALSE]
  /\ bonded' = FALSE
  /\ verified' = FALSE /\ window' = <<>> /\ once' = FALSE
  /\ peer' = NoPeer /\ encrypted' = FALSE /\ pairing' = FALSE
  /\ poll' = FALSE
  /\ UNCHANGED <<app, paired, delay>>

\* GAP_EVT_DISCONNECT: ty_hid_bond_info_disconnect, and the timer stops.  The
\* SDK serves its own event of it later.
Disconnect ==
  /\ peer # NoPeer
  /\ IF bonded /\ \E i \in Slots : table[i].key = dev.key
     THEN table' = ConfigInfoSave(table, dev.key, dev) /\ nv' = table'
     ELSE UNCHANGED <<table, nv>>
  /\ posted' = IF dev.far THEN "DEFENCE" ELSE "none"
  /\ dev' = [dev EXCEPT !.near = FALSE, !.far = FALSE]
  /\ bonded' = FALSE
  /\ verified' = FALSE /\ window' = <<>> /\ once' = FALSE
  /\ peer' = NoPeer /\ encrypted' = FALSE /\ pairing' = FALSE
  /\ poll' = FALSE
  /\ UNCHANGED <<app, paired, delay>>

AppDisconnected ==
  /\ peer = NoPeer /\ app
  /\ app' = FALSE
  /\ posted' = "none"
  /\ UNCHANGED <<bonds, meter, peer, encrypted, paired, pairing, timers>>

-----------------------------------------------------------------------------
(* The data points the application sets, and the end of its binding.       *)

\* evt_dp_rssi_sensitivity_set_cb
SetSensitivity(s) ==
  /\ app
  /\ BondRefresh(dev.key, [dev EXCEPT !.sens = s])
  /\ posted' = "none"
  /\ UNCHANGED <<meter, link, timers>>

\* evt_dp_near_unlock_open_switch_cb and evt_dp_far_lock_close_switch_cb, d
\* being the settings with the switch set: one turned on without a bond asks the
\* phone to pair.
SetSwitch(d, on) ==
  /\ app
  /\ IF on /\ ~bonded
     THEN pairing' = TRUE /\ dev' = d /\ UNCHANGED <<table, nv, bonded>>
     ELSE BondRefresh(dev.key, d) /\ UNCHANGED pairing
  /\ posted' = "none"
  /\ UNCHANGED <<meter, peer, encrypted, app, paired, timers>>

SetNear(on) == SetSwitch([dev EXCEPT !.near = on], on)
SetFar(on)  == SetSwitch([dev EXCEPT !.far = on], on)

\* Mutant: the bond flag is not reset.
BondInfoResetKeepsFlag ==
  /\ table' = EmptyTable /\ nv' = ErasedTable
  /\ app' = FALSE
  /\ posted' = "none"
  /\ UNCHANGED <<dev, bonded, meter, peer, encrypted, paired, pairing, timers>>

\* ty_hid_bond_info_reset, from the SDK's unbind callbacks: the sector is erased
\* and the table in RAM cleared.  The SDK takes the binding down first.
BondInfoReset ==
  /\ table' = EmptyTable /\ nv' = ErasedTable
  /\ bonded' = FALSE
  /\ app' = FALSE
  /\ posted' = "none"
  /\ UNCHANGED <<dev, meter, peer, encrypted, paired, pairing, timers>>

-----------------------------------------------------------------------------
(* ty_hid_check_rssi                                                       *)

\* C division truncates towards zero.
Average(w) == -((-FoldLeft(+, 0, w)) \div RSSI_SAMPLE_MAX)

IsNear(w) == Average(w) > dev.sens + DEV_HID_RSSI_FILTER_DEBOUNCE
IsFar(w)  == Average(w) < RSSI_CLOSE_NORMAL

\* The third reading: no average is both near and far.
WindowFull(w) ==
  /\ window' = <<>>
  /\ posted' = IF dev.far /\ IsFar(w) THEN "DEFENCE"
               ELSE IF dev.near /\ ~once /\ IsNear(w) THEN "UNDEFENCE" ELSE "none"
  /\ once' = ((once \/ (dev.near /\ IsNear(w))) /\ ~(dev.far /\ IsFar(w)))

CheckRssi(r) ==
  /\ poll /\ peer # NoPeer
  /\ IF dev.near \/ dev.far
     THEN LET first == ~verified /\ Holds(table, dev.key)
              w     == Append(IF first THEN <<>> ELSE window, r)
          IN /\ verified' = (verified \/ first)
             /\ IF ~verified' THEN posted' = "none" /\ UNCHANGED <<window, once>>
                ELSE IF Len(w) < RSSI_SAMPLE_MAX
                THEN window' = w /\ posted' = "none" /\ UNCHANGED once
                ELSE WindowFull(w)
     ELSE verified' = FALSE /\ window' = <<>> /\ once' = FALSE /\ posted' = "none"
  /\ UNCHANGED <<bonds, link, timers>>

-----------------------------------------------------------------------------
\* Power is lost: what is in RAM is as loaded.
Reboot ==
  /\ table' = EmptyTable
  /\ dev' = Cleared
  /\ bonded' = BondAtLoad
  /\ verified' = FALSE /\ window' = <<>> /\ once' = FALSE
  /\ peer' = NoPeer /\ encrypted' = FALSE /\ app' = FALSE /\ pairing' = FALSE
  /\ poll' = FALSE /\ delay' = FALSE
  /\ posted' = "none"
  /\ UNCHANGED <<nv, paired>>

HidNext ==
  \/ \E k \in Phones : Connect(k)
  \/ AppAuthenticates \/ SlaveEncrypt \/ StartPolling \/ BondFail
  \/ Disconnect \/ AppDisconnected
  \/ \E s \in Levels : SetSensitivity(s)
  \/ \E on \in BOOLEAN : SetNear(on) \/ SetFar(on)
  \/ BondInfoReset
  \/ \E r \in Readings : CheckRssi(r)
  \/ Reboot

HidSpec == HidInit /\ [][HidNext]_hidVars

-----------------------------------------------------------------------------
(* Properties.                                                             *)

HidTypeOK ==
  /\ table \in [Slots -> HidRecord] /\ nv \in [Slots -> HidRecord]
  /\ dev \in HidRecord /\ ~dev.active
  /\ bonded \in BOOLEAN /\ verified \in BOOLEAN /\ once \in BOOLEAN
  /\ window \in BoundedSeq(Readings, RSSI_SAMPLE_MAX - 1)
  /\ peer \in Phones \cup {NoPeer} /\ encrypted \in BOOLEAN /\ app \in BOOLEAN
  /\ paired \subseteq Phones /\ pairing \in BOOLEAN
  /\ poll \in BOOLEAN /\ delay \in BOOLEAN
  /\ posted \in {"none", "UNDEFENCE", "DEFENCE"}

\* While there is a bond, its key is in the table, and the table that readings
\* are verified against is the one in flash.
BondedIsKnown == bonded => table = nv /\ Holds(table, dev.key)

\* No key has come since the device started, nor was one in use before.
NoKeyYet == dev.key = ZeroKey

\* A bonded phone stays known, through disconnections, reboots and the data points
\* of other phones: its key leaves the flash only by an unbind, for the key of the
\* phone on the link, or when an authenticated application is served before any
\* key has come (the record it saves then has none).
BondsSurvive ==
  [][\A k \in Phones : Holds(nv, k) /\ ~Holds(nv', k) =>
       \/ nv' = ErasedTable /\ ~app'
       \/ app /\ ~Holds(nv, peer) /\ Holds(nv', peer)
       \/ app /\ NoKeyYet]_hidVars

\* locdef_hid.c:268: a key that comes when the application is authenticated is
\* saved, unless it is there already and no key has come since the start: then the
\* settings in use, which have no key, are saved over its record.
KeyIsSaved ==
  [][/\ encrypted' /\ ~encrypted /\ app
     /\ ~(Holds(nv, peer) /\ NoKeyYet)
     => Holds(nv', peer)]_hidVars
=============================================================================
