-------------------------------- MODULE BleLink --------------------------------
(***************************************************************************)
(* What the Tuya BLE SDK knows of its link.  The stack's callbacks queue   *)
(* an event for each connection, disconnection and frame; a pass of the    *)
(* scheduler, each 20 ms, serves what was queued when it began.  A frame   *)
(* that passes the checks becomes a command, queued again behind whatever  *)
(* came meanwhile.  So the link a handler acts on may be another than the  *)
(* one its event came from, and a full queue loses events.                 *)
(*                                                                         *)
(* Links are numbered; a phone asks for the information of the device,     *)
(* then pairs, then sends what needs pairing.  Callbacks, timers and the   *)
(* pass are served by one task, one after the other.                       *)
(***************************************************************************)
EXTENDS Naturals, Sequences

CONSTANTS
  QMax,      \* TUYA_BLE_EVT_MAX_NUM, the event being handled included
  MaxLinks,  \* bound: how many connections are made
  Sent       \* bound: the commands that the phones send

VARIABLES
  link,     \* the number of the link that is up, or 0
  links,    \* how many there have been
  closing,  \* the device has asked the stack to end the link
  queue,    \* the SDK's events, the one being handled first
  batch,    \* how many of them the pass under way still serves
  status,   \* tuya_ble_connect_status
  bound,    \* sys_settings.bound_flag, in RAM and in flash
  rand,     \* tuya_ble_pair_rand: the link it was made for, or 0
  monitor,  \* tuya_ble_xtimer_connect_monitor runs
  ota,      \* s_ota_state is not UNKNOWN
  paired,   \* history: the links that have paired
  known,    \* history: the monitor was stopped on this link, with nobody paired on
            \* it, and not started since
  confused  \* history: the links whose events were refused, or in whose time
            \* a command took effect that came from an earlier link

history == <<paired, confused>>
vars == <<link, links, closing, queue, batch, status, bound, rand, monitor, known, ota,
          history>>

\* "unbind" is also FRM_DEVICE_RESET; "ota" stands for all else that needs
\* pairing, the application's data points among it.
Open == {"info", "pair", "anomaly"}
Protected == {"unbind", "ota"}
Commands == Open \cup Protected

ASSUME BleLinkAssumption ==
  QMax \in Nat \ {0} /\ MaxLinks \in Nat /\ Sent \subseteq Commands

Unconn == {"UNBONDING_UNCONN", "BONDING_UNCONN"}
Unauth == {"UNBONDING_UNAUTH_CONN", "BONDING_UNAUTH_CONN"}
Statuses == Unconn \cup Unauth \cup {"BONDING_CONN"}
UnconnStatus == IF bound THEN "BONDING_UNCONN" ELSE "UNBONDING_UNCONN"
UnauthStatus == IF bound THEN "BONDING_UNAUTH_CONN" ELSE "UNBONDING_UNAUTH_CONN"

LinkEvent(kind) == [kind |-> kind, link |-> link, cmd |-> "none"]
CmdEvent(kind, n, c) == [kind |-> kind, link |-> n, cmd |-> c]
Events == [kind : {"conn", "disc", "data", "cmd"}, link : Nat \ {0},
           cmd : Commands \cup {"none"}]

\* tuya_ble_sdk_init
Init ==
  /\ link = 0 /\ links = 0 /\ closing = FALSE
  /\ queue = <<>> /\ batch = 0
  /\ bound \in BOOLEAN /\ status = UnconnStatus
  /\ rand = 0 /\ monitor = FALSE /\ ota = FALSE
  /\ paired = {} /\ confused = {} /\ known = FALSE

\* Power fails, or the device resets.
Reboot ==
  /\ batch = 0
  /\ link' = 0 /\ closing' = FALSE /\ known' = FALSE
  /\ queue' = <<>>
  /\ status' = UnconnStatus
  /\ rand' = 0 /\ monitor' = FALSE /\ ota' = FALSE
  /\ UNCHANGED <<links, batch, bound, history>>

-----------------------------------------------------------------------------
(* The callbacks of the stack and of the timer                             *)

Idle == batch = 0
Full == Len(queue) >= QMax

\* tuya_ble_connected_handler
Connect ==
  /\ Idle /\ link = 0 /\ links < MaxLinks
  /\ link' = links + 1 /\ links' = links + 1
  /\ IF Full THEN /\ confused' = confused \cup {links + 1}
                  /\ UNCHANGED queue
     ELSE /\ queue' = Append(queue, [LinkEvent("conn") EXCEPT !.link = links + 1])
          /\ UNCHANGED confused
  /\ UNCHANGED <<closing, batch, status, bound, rand, monitor, known, ota, paired>>

\* ty_ble_disconnect_handler: the update is told at once, the SDK by an event.
Disconnect ==
  /\ Idle /\ link # 0
  /\ link' = 0 /\ closing' = FALSE /\ known' = FALSE /\ ota' = FALSE
  /\ IF Full THEN /\ confused' = confused \cup {links}
                  /\ UNCHANGED queue
     ELSE /\ queue' = Append(queue, LinkEvent("disc"))
          /\ UNCHANGED confused
  /\ UNCHANGED <<links, batch, status, bound, rand, monitor, paired>>

\* tuya_ble_gatt_receive_data: a whole frame.
PhoneSends(c) ==
  /\ Idle /\ link # 0
  /\ ~Full
  /\ queue' = Append(queue, CmdEvent("data", link, c))
  /\ UNCHANGED <<link, links, closing, batch, status, bound, rand, monitor, known, ota, history>>

\* tuya_ble_gap_disconnect
GapDisconnect == closing' = (link # 0)

\* Mutant: the timer looks at a device that is not bound only.
MonitorFiresUnbonded ==
  /\ Idle /\ monitor
  /\ monitor' = FALSE
  /\ IF status = "UNBONDING_UNAUTH_CONN" THEN GapDisconnect ELSE UNCHANGED closing
  /\ UNCHANGED <<link, links, queue, batch, status, bound, rand, known, ota, history>>

\* tuya_ble_vtimer_conncet_monitor_callback
MonitorFires ==
  /\ Idle /\ monitor
  /\ monitor' = FALSE
  /\ IF status \in Unauth THEN GapDisconnect ELSE UNCHANGED closing
  /\ UNCHANGED <<link, links, queue, batch, status, bound, rand, known, ota, history>>

\* ty_hid_bond_refresh, when the link is encrypted with a key of the table of bonded
\* phones: the link is kept, and nobody need pair on it.  The first command of a
\* factory test over the link does the same (tuya_ble_app_production_test.c:1428).
BondRefresh ==
  /\ Idle /\ link # 0
  /\ monitor
  /\ monitor' = FALSE
  /\ known' = (link \notin paired)
  /\ UNCHANGED <<link, links, closing, queue, batch, status, bound, rand, ota, paired, confused>>

\* tuya_sched_execute
Pass ==
  /\ Idle /\ queue # <<>>
  /\ batch' = Len(queue)
  /\ UNCHANGED <<link, links, closing, queue, status, bound, rand, monitor, known, ota, history>>

-----------------------------------------------------------------------------
(* The handlers of the events                                              *)

ev == Head(queue)
Serving(kind) == batch > 0 /\ ev.kind = kind
Served == queue' = Tail(queue) /\ batch' = batch - 1

\* Mutant: a device that is bound takes its phone for authenticated.
HandleConnTrusting ==
  /\ Serving("conn") /\ Served
  /\ status' = IF bound THEN "BONDING_CONN" ELSE UnauthStatus
  /\ monitor' = TRUE /\ known' = FALSE
  /\ UNCHANGED <<link, links, closing, bound, rand, ota, history>>

\* tuya_ble_handle_connect_change_evt
HandleConn ==
  /\ Serving("conn") /\ Served
  /\ status' = UnauthStatus
  /\ monitor' = TRUE /\ known' = FALSE
  /\ UNCHANGED <<link, links, closing, bound, rand, ota, history>>

HandleDisc ==
  /\ Serving("disc") /\ Served
  /\ status' = UnconnStatus
  /\ rand' = 0
  /\ UNCHANGED <<link, links, closing, bound, monitor, known, ota, history>>

\* The phone encrypts with the random number the device sent it on this link,
\* but for the requests that come before it has one.
Decrypts(e) == e.cmd \in {"info", "anomaly"} \/ rand = e.link

\* tuya_ble_commonData_rx_proc
HandleData ==
  /\ Serving("data")
  /\ batch' = batch - 1
  /\ IF /\ Decrypts(ev)
        /\ status = "BONDING_CONN" \/ ev.cmd \in Open
        /\ ~Full
     THEN queue' = Append(Tail(queue), [ev EXCEPT !.kind = "cmd"])
     ELSE queue' = Tail(queue)
  /\ UNCHANGED <<link, links, closing, status, bound, rand, monitor, known, ota, history>>

\* tuya_ble_evt_process
Executes(cs) == Serving("cmd") /\ ev.cmd \in cs /\ Served

\* Mutant: the number stays although the answer could not be sent.
InfoKept ==
  /\ Executes({"info"})
  /\ rand' = ev.link
  /\ UNCHANGED <<link, links, closing, status, bound, monitor, known, ota, history>>

\* tuya_ble_handle_dev_info_req
Info ==
  /\ Executes({"info"})
  /\ rand' = IF status \in Unconn THEN 0 ELSE ev.link
  /\ UNCHANGED <<link, links, closing, status, bound, monitor, known, ota, history>>

\* The command may come from a link before the one it takes effect on.
Late == confused' = confused \cup (ev.link + 1 .. links) \cup (IF link = 0 THEN {links} ELSE {})

\* tuya_ble_handle_pair_req
Pair ==
  /\ Executes({"pair"})
  /\ monitor' = FALSE
  /\ bound' = TRUE /\ status' = "BONDING_CONN"
  /\ paired' = paired \cup {ev.link}
  /\ Late
  /\ UNCHANGED <<link, links, closing, rand, known, ota>>

\* A question of the wrong length, or a pairing with another device's identity.
Reject ==
  /\ Executes({"info", "pair"})
  /\ GapDisconnect
  /\ UNCHANGED <<link, links, status, bound, rand, monitor, known, ota, history>>

\* Mutant: the link is left to the phone.
UnbindQuietly ==
  /\ Executes({"unbind", "anomaly"})
  /\ bound' = FALSE /\ status' = "UNBONDING_UNCONN"
  /\ UNCHANGED <<link, links, closing, rand, monitor, known, ota, history>>

\* tuya_ble_handle_unbond_req, tuya_ble_handle_device_reset_req and
\* tuya_ble_handle_anomaly_unbond_req
Unbind ==
  /\ Executes({"unbind", "anomaly"})
  /\ GapDisconnect
  /\ bound' = FALSE /\ status' = "UNBONDING_UNCONN"
  /\ UNCHANGED <<link, links, rand, monitor, known, ota, history>>

\* tuya_ble_handle_ota_req, tuya_ble_ota_req_handler
Ota ==
  /\ Executes({"ota"})
  /\ ota' = TRUE
  /\ Late
  /\ UNCHANGED <<link, links, closing, status, bound, rand, monitor, known, paired>>

\* The data points that set proximity unlocking refresh the bond, too.
DataPoint ==
  /\ Executes({"ota"})
  /\ monitor' = FALSE
  /\ Late
  /\ UNCHANGED <<link, links, closing, status, bound, rand, known, ota, paired>>

-----------------------------------------------------------------------------
Handle == HandleConn \/ HandleDisc \/ HandleData \/ Info \/ Pair \/ Reject \/ Unbind \/ Ota \/ DataPoint

Next ==
  \/ Reboot
  \/ Connect \/ Disconnect \/ MonitorFires \/ BondRefresh \/ Pass
  \/ \E c \in Sent : PhoneSends(c)
  \/ Handle

Spec == Init /\ [][Next]_vars

\* The passes are repeated and a pass runs to its end.  The task that serves
\* the timers and the stack is not kept busy for ever: the monitor's timer runs
\* out between two passes, and the stack ends a link it was asked to end.
FairSpec ==
  /\ Spec
  /\ WF_vars(Pass) /\ WF_vars(Handle)
  /\ SF_vars(MonitorFires) /\ SF_vars(closing /\ Disconnect)

-----------------------------------------------------------------------------
(* Properties.                                                             *)

TypeOK ==
  /\ link \in 0 .. links /\ links \in Nat
  /\ closing \in BOOLEAN /\ bound \in BOOLEAN
  /\ monitor \in BOOLEAN /\ known \in BOOLEAN /\ ota \in BOOLEAN
  /\ queue \in Seq(Events) /\ Len(queue) <= QMax /\ batch \in 0 .. Len(queue)
  /\ \A i \in DOMAIN queue : queue[i].link <= links
  /\ status \in Statuses
  /\ rand \in 0 .. links
  /\ paired \subseteq 1 .. links /\ confused \subseteq 1 .. links

Settled == queue = <<>> /\ links \notin confused

\* tuya_ble_type.h:691: when no event waits, the status tells whether there is
\* a link, unless an event of it was lost or a command came too late for its own.
StatusFollowsLink ==
  Settled =>
    /\ link = 0 => status \in Unconn
    /\ link # 0 /\ ~closing => status \notin Unconn

\* A disconnection leaves no random number and no update behind it: neither a
\* frame nor an update goes on with the next phone.
NothingOutlivesLink == Settled /\ link = 0 => rand = 0 /\ ~ota

\* tuya_ble_data_handler.c:430: what needs pairing is taken from a link that has paired.
ProtectedIsPaired ==
  \A i \in DOMAIN queue :
    queue[i].kind = "cmd" /\ queue[i].cmd \in Protected
      => queue[i].link \in paired \cup confused

\* tuya_ble_main.c:86: a link on which nobody pairs is ended, unless its phone is
\* known (locdef_hid.c:302) and the monitor was stopped for it.
UnpairedLinkEnds ==
  \A n \in 1 .. MaxLinks :
    link = n ~> link # n \/ status = "BONDING_CONN" \/ known \/ n \in confused
=============================================================================
