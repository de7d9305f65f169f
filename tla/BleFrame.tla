-------------------------------- MODULE BleFrame --------------------------------
(***************************************************************************)
(* The frames of the Tuya BLE protocol.  A frame is cut into fragments of  *)
(* the length of a packet, each headed by its number and the first by the  *)
(* length of the frame; the fragments are events of the SDK's queue, which *)
(* refuses them when it is full without the phone knowing.  The decoder    *)
(* keeps its state from one link to the next and compares numbers of       *)
(* fragments, never those of frames: what it puts together may come from   *)
(* two frames, and is only known for it by its checksum.                   *)
(*                                                                         *)
(* A byte is known by its frame and its place, so a payload is a piece     *)
(* [frame, from, size].  Encryption is left out: a frame that is not whole *)
(* fails to decrypt or fails its checksum, which is one to the device.     *)
(***************************************************************************)
EXTENDS Integers, Sequences

CONSTANTS
  PacketLen,  \* send_packet_data_len
  FrameMax,   \* TUYA_BLE_AIR_FRAME_MAX
  QMax,       \* TUYA_BLE_EVT_MAX_NUM, the event being handled included
  MaxLinks,   \* bound: how many connections are made
  MaxFrames,  \* bound: how many frames are sent
  FrameLens   \* bound: the lengths of the frames

Base == 128         \* a header's digit has seven bits
NumLimit == 268435456

ASSUME BleFrameAssumption ==
  /\ PacketLen \in 10 .. 244 /\ FrameMax \in Nat /\ QMax \in Nat \ {0}
  /\ MaxLinks \in Nat /\ MaxFrames \in Nat
  /\ \A len \in FrameLens : len \in Nat \ {0} /\ len < NumLimit

VARIABLES
  link,     \* the number of the link that is up, or 0
  links,    \* how many there have been
  closing,  \* the device has asked the stack to end the link
  frames,   \* the frames the phones have begun: their lengths, and their sn
  out,      \* the last fragment the phone wrote on this link, or Nothing
  queue,    \* the SDK's events, the one being handled first
  batch,    \* how many of them the pass under way still serves
  dec,      \* ty_trsmitr_proc
  air,      \* air_recv_packet, and the offset of ble_data_unpack
  rxsn,     \* tuya_ble_receive_sn
  got,      \* history: the frames that became commands; 0 for what is none
  intact,   \* history: the last fragment that was handled, if those before it
            \* in its frame were handled just before; or Nothing
  turned,   \* history: the frames that were turned away: for want of memory or of
            \* room in the queue, or by a device whose state does not take them
  deaf      \* history: the links whose connection was never told to the SDK

radio == <<link, links, closing, frames, out>>
vars == <<radio, queue, batch, dec, air, rxsn, got, intact, turned, deaf>>

-----------------------------------------------------------------------------
(* The encoder                                                             *)

Weight == <<1, Base, Base * Base, Base * Base * Base>>
VarLen(n) == IF n < Weight[2] THEN 1 ELSE IF n < Weight[3] THEN 2
             ELSE IF n < Weight[4] THEN 3 ELSE 4

\* trsmitr_send_pkg_encode_with_packet_length: seven bits at a time, the lowest
\* first; the eighth bit tells that more follow.
Varint(n) ==
  [i \in 1 .. VarLen(n) |->
     ((n \div Weight[i]) % Base) + (IF i < VarLen(n) THEN Base ELSE 0)]

\* trsmitr_recv_pkg_decode
Value(s) ==
  LET more(i) == s[i] >= Base
      part(i) == (s[i] % Base) * Weight[i]
  IN part(1) + (IF ~more(1) THEN 0
     ELSE part(2) + (IF ~more(2) THEN 0
     ELSE part(3) + (IF ~more(3) THEN 0
     ELSE part(4))))

Header(len, k) == VarLen(k) + (IF k = 0 THEN VarLen(len) + 1 ELSE 0)

\* The payload takes what the header leaves of the packet.
Encode(f, len, num, cnt) ==
  LET room == PacketLen - Header(len, num)
  IN [frame |-> f, num |-> num, from |-> cnt,
      size |-> IF len - cnt < room THEN len - cnt ELSE room]

Nothing == [frame |-> 0, num |-> 0, from |-> 0, size |-> 0]

-----------------------------------------------------------------------------
(* The stack's callbacks, and the phone                                    *)

Empty(max, off) == [held |-> FALSE, max |-> max, off |-> off, mem |-> <<>>]

\* tuya_ble_air_recv_packet_free
Free(a) == IF a.held THEN Empty(0, a.off) ELSE a

Init ==
  /\ link = 0 /\ links = 0 /\ closing = FALSE
  /\ frames = <<>> /\ out = Nothing
  /\ queue = <<>> /\ batch = 0
  /\ dec = [num |-> 0, total |-> 0, cnt |-> 0, first |-> FALSE, load |-> Nothing]
  /\ air = Empty(0, 0)
  /\ rxsn = 0
  /\ got = <<>> /\ intact = Nothing /\ turned = {} /\ deaf = {}

Idle == batch = 0
Full == Len(queue) >= QMax
Event(k, p) == [kind |-> k, load |-> p]
Post(e) == queue' = IF Full THEN queue ELSE Append(queue, e)

\* tuya_ble_connected_handler
Connect ==
  /\ Idle /\ link = 0 /\ links < MaxLinks
  /\ link' = links + 1 /\ links' = links + 1
  /\ Post(Event("conn", Nothing))
  /\ deaf' = IF Full THEN deaf \cup {links + 1} ELSE deaf
  /\ UNCHANGED <<closing, frames, out, batch, dec, air, rxsn, got, intact, turned>>

\* tuya_ble_disconnected_handler: the phone leaves its frame where it is.
Disconnect ==
  /\ Idle /\ link # 0
  /\ link' = 0 /\ closing' = FALSE /\ out' = Nothing
  /\ Post(Event("disc", Nothing))
  /\ UNCHANGED <<links, frames, batch, dec, air, rxsn, got, intact, turned, deaf>>

\* tuya_ble_gatt_receive_data: a fragment is lost for want of room, or of memory.
Write(p) == Post(Event("data", p)) \/ UNCHANGED queue

Ended(p) == p.from + p.size = frames[p.frame].len
AllSent == IF out = Nothing THEN TRUE ELSE Ended(out)

\* The phone begins a frame; it counts its frames on each link from one.
BeginFrame(len) ==
  /\ Idle /\ link # 0 /\ Len(frames) < MaxFrames
  /\ AllSent
  /\ frames' = Append(frames,
       [len |-> len, link |-> link,
        sn |-> 1 + (IF out = Nothing THEN 0 ELSE frames[Len(frames)].sn)])
  /\ out' = Encode(Len(frames) + 1, len, 0, 0)
  /\ Write(out')
  /\ UNCHANGED <<link, links, closing, batch, dec, air, rxsn, got, intact, turned, deaf>>

\* The phone goes on with its frame.
SendFragment ==
  /\ Idle /\ ~AllSent
  /\ out' = Encode(out.frame, frames[out.frame].len, out.num + 1, out.from + out.size)
  /\ Write(out')
  /\ UNCHANGED <<link, links, closing, frames, batch, dec, air, rxsn, got, intact, turned, deaf>>

\* The phone writes a fragment a second time.
RepeatFragment ==
  /\ Idle /\ out # Nothing
  /\ ~Full
  /\ queue' = Append(queue, Event("data", out))
  /\ UNCHANGED <<radio, batch, dec, air, rxsn, got, intact, turned, deaf>>

\* tuya_sched_execute
Pass ==
  /\ Idle /\ queue # <<>>
  /\ batch' = Len(queue)
  /\ UNCHANGED <<radio, queue, dec, air, rxsn, got, intact, turned, deaf>>

-----------------------------------------------------------------------------
(* The handlers                                                            *)

ev == Head(queue)
Serving(kind) == batch > 0 /\ ev.kind = kind
Served == queue' = Tail(queue) /\ batch' = batch - 1

\* tuya_ble_handle_connect_change_evt
HandleConn ==
  /\ Serving("conn") /\ Served
  /\ rxsn' = 0
  /\ UNCHANGED <<radio, dec, air, got, intact, turned, deaf>>

HandleDisc ==
  /\ Serving("disc") /\ Served
  /\ rxsn' = 0 /\ air' = Free(air)
  /\ UNCHANGED <<radio, dec, got, intact, turned, deaf>>

HandleCmd == Serving("cmd") /\ Served /\ UNCHANGED <<radio, dec, air, rxsn, got, intact, turned, deaf>>

piece == ev.load

\* A fragment goes on with those before it, whole as far as they go.
Continues == piece.num = 0 \/ (intact.frame = piece.frame /\ intact.num = piece.num - 1)
Note(room) ==
  /\ intact' = IF Continues THEN piece ELSE Nothing
  /\ turned' = IF room THEN turned ELSE turned \cup {piece.frame}

number == Value(Varint(piece.num))
length == Value(Varint(frames[piece.frame].len))
OutOfOrder == number # 0 /\ (number < dec.num \/ number - dec.num > 1)
Repeated == number # 0 /\ number = dec.num

Cut(all, done) ==
  LET left == all - done
      size == IF left < piece.size THEN left ELSE piece.size
  IN [num |-> number, total |-> all, cnt |-> done + size, first |-> (number = 0),
      load |-> [piece EXCEPT !.size = size]]

\* Mutant: the count of the frame before goes on.
DecodedKept == IF number = 0 THEN Cut(length, dec.cnt) ELSE Cut(dec.total, dec.cnt)

\* trsmitr_recv_pkg_decode, of a fragment in its place
Decoded == IF number = 0 THEN Cut(length, 0) ELSE Cut(dec.total, dec.cnt)

\* ble_data_unpack: a first fragment makes room for its frame, if there is any.
Opened(d, memory) ==
  IF ~d.first THEN air
  ELSE IF d.total \notin 1 .. FrameMax THEN Empty(0, air.off)
  ELSE IF ~memory THEN Empty(d.total, air.off)
  ELSE [held |-> TRUE, max |-> d.total, off |-> 0, mem |-> <<>>]
Refuses(d, memory) == d.first /\ (d.total \notin 1 .. FrameMax \/ ~memory)

\* ble_data_unpack: the payload is written behind the others.
Stored(a, l) ==
  IF a.off + l.size > a.max THEN Free(a)
  ELSE IF ~a.held THEN Empty(0, a.off)
  ELSE [held |-> TRUE, max |-> a.max, off |-> a.off + l.size, mem |-> Append(a.mem, l)]

Complete(d, a) == d.cnt >= d.total /\ a.off + d.load.size <= a.max /\ a.held

\* The pieces are all those of one frame.
IsFrame(f, mem) ==
  /\ \A i \in DOMAIN mem :
       /\ mem[i].frame = f
       /\ mem[i].from = IF i = 1 THEN 0 ELSE mem[i - 1].from + mem[i - 1].size
  /\ mem[Len(mem)].from + mem[Len(mem)].size = frames[f].len

\* Mutant: the checksum is not looked at.
ChecksumIgnored(mem) == TRUE

\* ble_cmd_data_crc_check
Checksum(mem) == IsFrame(mem[1].frame, mem)

\* The fragment is refused by the decoder.
RefuseFragment ==
  /\ Serving("data") /\ OutOfOrder
  /\ Served /\ Note(TRUE)
  /\ dec' = [dec EXCEPT !.first = FALSE]
  /\ air' = Empty(0, air.off)
  /\ UNCHANGED <<radio, rxsn, got, deaf>>

\* It was handled before: what the decoder holds is written once more.
TakeAgain ==
  /\ Serving("data") /\ Repeated
  /\ Served /\ Note(TRUE)
  /\ dec' = [dec EXCEPT !.first = FALSE]
  /\ air' = Stored(air, dec.load)
  /\ UNCHANGED <<radio, rxsn, got, deaf>>

\* It is put behind the others, and more are to come or no memory was left.
TakeFragment(memory) ==
  /\ Serving("data") /\ ~OutOfOrder /\ ~Repeated
  /\ Served /\ Note(memory)
  /\ dec' = Decoded
  /\ LET opened == Opened(Decoded, memory)
     IN IF Refuses(Decoded, memory) THEN air' = opened
        ELSE ~Complete(Decoded, opened) /\ air' = Stored(opened, Decoded.load)
  /\ UNCHANGED <<radio, rxsn, got, deaf>>

\* tuya_ble_commonData_rx_proc, of a frame that was put together
Execute(f, mem, taken) ==
  IF Full \/ ~taken THEN queue' = Tail(queue) /\ UNCHANGED got
  ELSE /\ queue' = Append(Tail(queue), Event("cmd", Nothing))
       /\ got' = Append(got, IF IsFrame(f, mem) THEN f ELSE 0)

\* Which frames the device takes depends on the version they name, on how they are
\* encrypted, on their command and on the state the device is in.  The frame is
\* refused before its number is looked at (the version; not encrypted, to a bound
\* device), or after (a test command encrypted otherwise, a device that is not
\* paired, one that is being updated), or it is not.
Refusals == {"early", "late", "none"}

TakeFrame(memory, refusal) ==
  LET opened == Opened(Decoded, TRUE)
      mem == Stored(opened, Decoded.load).mem
      f == mem[1].frame
      taken == memory /\ refusal = "none"
  IN
  /\ Serving("data") /\ ~OutOfOrder /\ ~Repeated
  /\ ~Refuses(Decoded, TRUE) /\ Complete(Decoded, opened)
  /\ batch' = batch - 1 /\ Note(taken /\ ~Full)
  /\ dec' = Decoded
  /\ air' = Empty(0, 0)
  /\ \/ /\ refusal = "early" \/ ~memory \/ ~Checksum(mem)
        /\ queue' = Tail(queue)
        /\ UNCHANGED <<closing, rxsn, got>>
     \/ /\ refusal # "early" /\ Checksum(mem) /\ frames[f].sn <= rxsn
        /\ queue' = Tail(queue)
        /\ closing' = (link # 0)
        /\ UNCHANGED <<rxsn, got>>
     \/ /\ refusal # "early" /\ Checksum(mem) /\ frames[f].sn > rxsn
        /\ rxsn' = frames[f].sn
        /\ Execute(f, mem, taken)
        /\ UNCHANGED closing
  /\ UNCHANGED <<link, links, frames, out, deaf>>

-----------------------------------------------------------------------------
Phone == (\E len \in FrameLens : BeginFrame(len)) \/ SendFragment \/ RepeatFragment
Handle ==
  \/ HandleConn \/ HandleDisc \/ HandleCmd
  \/ RefuseFragment \/ TakeAgain
  \/ \E memory \in BOOLEAN : TakeFragment(memory)
  \/ \E memory \in BOOLEAN, refusal \in Refusals : TakeFrame(memory, refusal)

Next == Connect \/ Disconnect \/ Phone \/ Pass \/ Handle

Spec == Init /\ [][Next]_vars

-----------------------------------------------------------------------------
(* Properties.                                                             *)

Frame == [len : Nat \ {0}, sn : Nat \ {0}, link : Nat]
Load == [frame : Nat, num : Nat, from : Int, size : Int]
EventType == [kind : {"conn", "disc", "data", "cmd"}, load : Load]
DecType == [num : Int, total : Int, cnt : Int, first : BOOLEAN, load : Load]
AirType == [held : BOOLEAN, max : Int, off : Int, mem : Seq(Load)]

PhoneOK ==
  /\ links \in Nat /\ link \in Nat /\ closing \in BOOLEAN
  /\ frames \in Seq(Frame)
  /\ out \in Load /\ (out # Nothing => out.frame = Len(frames) /\ out.frame > 0)
  /\ deaf \subseteq 1 .. links
QueueOK ==
  /\ queue \in Seq(EventType) /\ Len(queue) <= QMax /\ batch \in 0 .. Len(queue)
  /\ \A i \in 1 .. Len(queue) :
       queue[i].kind = "data" => queue[i].load.frame \in 1 .. Len(frames)
DeviceOK ==
  /\ dec \in DecType /\ air \in AirType
  /\ rxsn \in Nat
  /\ got \in Seq(1 .. Len(frames))
  /\ intact \in Load
  /\ turned \subseteq 1 .. Len(frames)
TypeOK == PhoneOK /\ QueueOK /\ DeviceOK

\* tuya_ble_data_handler.c:297: whatever is lost or written twice, a command is a
\* frame that a phone sent, taken once and in the order of sending.
Channel == INSTANCE FrameChannel WITH sent <- Len(frames)
ImplementsChannel == Channel!Spec

\* tuya_ble_mutli_tsf_protocol.c:399: what was left of the frames before does not
\* cost the next one: when all of its fragments came, one after the other, it is
\* taken, but for want of memory or of room in the queue, and unless it is a frame
\* that the device does not take in its state.
WholeIsTaken ==
  [][LET f == intact'.frame IN
     /\ intact' # intact /\ intact' # Nothing
     /\ Ended(intact')
     /\ frames[f].len <= FrameMax /\ frames[f].link \notin deaf
     /\ f \notin turned'
     => f \in {got'[i] : i \in DOMAIN got'}]_vars
=============================================================================
