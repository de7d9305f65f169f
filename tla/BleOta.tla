-------------------------------- MODULE BleOta --------------------------------
(***************************************************************************)
(* The firmware update of the port (tuya_ble_ota.c).  The flash holds two  *)
(* slots for an image: the one that runs and the one an update fills.  The *)
(* phone announces a file, asks where to go on, and sends the file packet  *)
(* by packet; each time the data complete a sector, the place reached is   *)
(* recorded in flash, so that a later attempt may go on from there.  The   *)
(* first packet is kept in that record, and not in the slot, until the     *)
(* whole has been verified: the slot cannot be booted before.              *)
(*                                                                         *)
(* A packet has TUYA_BLE_OTA_PKG_LEN bytes, and lengths and addresses      *)
(* count packets.  The phone sends the packets of the file it announced;   *)
(* it may stop, start again or send anything out of order.  A CRC tells    *)
(* any two data apart.  A handler runs to its end, its operations on the   *)
(* flash one by one: the power may fail between any two.                   *)
(***************************************************************************)
EXTENDS Naturals, Sequences

CONSTANTS
  Files,      \* the images a phone may announce
  Length,     \* of each, in packets
  Version,    \* of each, and of Factory
  Factory,    \* the image the device is made with
  SlotPkgs,   \* TUYA_BLE_OTA_FILE_MAX_LEN, in packets
  SectorPkgs, \* TUYA_NV_ERASE_MIN_SIZE, in packets
  Blank,      \* what erased flash reads as
  Other       \* data of no file: an older image, or one file written over another

ASSUME BleOtaAssumption ==
  /\ SectorPkgs \in Nat \ {0, 1} /\ SlotPkgs \in Nat \ {0}
  /\ SlotPkgs % SectorPkgs = 0
  /\ Length \in [Files -> Nat \ {0, 1}]
  /\ Version \in [Files \cup {Factory} -> Nat]
  /\ Blank # Other /\ {Blank, Other, Factory} \cap Files = {}

VARIABLES
  state,  \* s_ota_state
  pkgs,   \* s_pkg_id + 1
  len,    \* s_data_len
  crc,    \* s_data_crc: the data it was computed from
  file,   \* s_file_len, s_file_crc, s_file_md5
  old,    \* s_old_file
  info,   \* the copy of it in flash
  store,  \* the slot that is filled, and the sector that follows it
  runs,   \* the image in the other slot
  todo,   \* what the handler under way has still to do to the flash
  due     \* s_disconnect_timer runs: the device resets when it fires

vars == <<state, pkgs, len, crc, file, old, info, store, runs, todo, due>>
ram == <<state, pkgs, len, crc, file, old, due>>

Packet == Files \cup {Blank, Other}
Units == 0 .. SlotPkgs + SectorPkgs - 1
SectorOf(u) == {v \in Units : v \div SectorPkgs = u \div SectorPkgs}

\* tuya_ble_ota_file_info_storage_t.  No md5 of a file reads as Blank or Other,
\* and an erased len is more than any slot holds.
BlankLen == SlotPkgs + 1
InfoRecord == [len : 0 .. BlankLen, crc : Seq(Packet), md5 : Packet, page : Packet]
BlankInfo == [len |-> BlankLen, crc |-> <<Blank>>, md5 |-> Blank, page |-> Blank]
ZeroInfo == [len |-> 0, crc |-> <<>>, md5 |-> Other, page |-> Other]

FileCrc(f) == [i \in 1 .. Length[f] |-> f]

\* A new device: no update has been tried, the slot holds nothing of use.
Init ==
  /\ state = "UNKNOWN" /\ pkgs = 1 /\ len = 0 /\ crc = <<>> /\ file = Other
  /\ old = BlankInfo /\ info = BlankInfo
  /\ store = [u \in Units |-> Other]
  /\ runs = Factory /\ todo = <<>> /\ due = FALSE

-----------------------------------------------------------------------------
(* The flash                                                               *)

\* Writing clears bits: what is not erased first is spoilt.
Programmed(before, data) == IF before \in {Blank, data} THEN data ELSE Other

Erase(us) == [op |-> "erase", units |-> us]
Write(u, data) == [op |-> "write", units |-> {u}, data |-> data]
EraseInfo == [op |-> "eraseInfo"]
WriteInfo(i) == [op |-> "writeInfo", record |-> i]
InfoSave(i) == <<EraseInfo, WriteInfo(i)>>

FlashStep ==
  /\ todo # <<>>
  /\ LET o == Head(todo)
     IN /\ store' = CASE o.op = "erase" ->
                           [u \in Units |-> IF u \in o.units THEN Blank ELSE store[u]]
                      [] o.op = "write" ->
                           [u \in Units |-> IF u \in o.units
                                            THEN Programmed(store[u], o.data) ELSE store[u]]
                      [] OTHER -> store
        /\ info' = CASE o.op = "eraseInfo" -> BlankInfo
                     [] o.op = "writeInfo" -> o.record
                     [] OTHER -> info
  /\ todo' = Tail(todo)
  /\ UNCHANGED <<ram, runs>>

\* tuya_ble_ota_get_crc32_in_flash: packet 0 from s_old_file, the others from the slot.
FlashCrc(n) == [i \in 1 .. n |-> IF i = 1 THEN old.page ELSE store[i - 1]]

-----------------------------------------------------------------------------
(* The handlers                                                            *)

Idle == todo = <<>>

\* Mutant: the packets are numbered on from the last attempt.
EnterNumbersOn ==
  /\ UNCHANGED pkgs /\ len' = 0 /\ crc' = <<>> /\ file' = Other

\* tuya_ble_ota_enter
Enter ==
  /\ pkgs' = 0 /\ len' = 0 /\ crc' = <<>> /\ file' = Other

\* tuya_ble_ota_exit
Exit ==
  /\ state' = "UNKNOWN"
  /\ due' = TRUE

\* tuya_ble_ota_req_handler
Req ==
  /\ Idle /\ state = "UNKNOWN"
  /\ Enter
  /\ state' = "FILE_INFO"
  /\ UNCHANGED <<old, info, store, runs, todo, due>>

\* A command that comes in the wrong state or whose parameters are wrong, and
\* a packet with a wrong number, length or CRC.
Refuse ==
  /\ Idle
  /\ Exit
  /\ UNCHANGED <<pkgs, len, crc, file, old, info, store, runs, todo>>

\* tuya_ble_ota_disconn_handler
Disconnected ==
  /\ Idle /\ state # "UNKNOWN"
  /\ Exit
  /\ UNCHANGED <<pkgs, len, crc, file, old, info, store, runs, todo>>

\* Mutant: the length is not looked at.
FitsAlways(f) == f \in Files

Fits(f) == Length[f] <= SlotPkgs

\* tuya_ble_ota_file_info_handler
FileInfo(f) ==
  /\ Idle /\ state = "FILE_INFO"
  /\ file' = f
  /\ IF Version[f] > Version[runs] /\ Fits(f)
     THEN state' = "FILE_OFFSET_REQ" /\ UNCHANGED due
     ELSE Exit
  /\ UNCHANGED <<pkgs, len, crc, old, info, store, runs, todo>>

\* The phone proposes the place w of its file; what is stored of the same file
\* is kept.
Resumes(w) ==
  /\ w > 0
  /\ old.md5 = file
  /\ old.len <= SlotPkgs /\ FlashCrc(old.len) = old.crc
  /\ w >= old.len

\* tuya_ble_ota_file_offset_handler
FileOffset(w) ==
  /\ Idle /\ state = "FILE_OFFSET_REQ" /\ w <= Length[file]
  /\ len' = IF Resumes(w) THEN old.len ELSE 0
  /\ crc' = IF Resumes(w) THEN old.crc ELSE <<>>
  /\ old' = [old EXCEPT !.md5 = file]
  /\ todo' = InfoSave(old')
  /\ state' = "DATA"
  /\ UNCHANGED <<pkgs, file, info, store, runs, due>>

\* A packet of number s_pkg_id + 1, by tuya_ble_ota_data_handler.
TakePacket ==
  /\ Idle /\ state = "DATA" /\ len < Length[file]
  /\ len' = len + 1 /\ pkgs' = pkgs + 1
  /\ crc' = Append(crc, file)
  /\ UNCHANGED <<file, info, store, runs, due>>

\* Mutant: nothing is erased for the first packet.
FirstDataUnerased ==
  /\ TakePacket /\ len = 0
  /\ old' = [old EXCEPT !.page = file]
  /\ todo' = InfoSave(old')
  /\ UNCHANGED state

\* The first packet goes to the record.  The rest of its sector is erased,
\* page by page; the first page of the slot stays.
FirstData ==
  /\ TakePacket /\ len = 0
  /\ old' = [old EXCEPT !.page = file]
  /\ todo' = <<Erase(SectorOf(0) \ {0})>> \o InfoSave(old')
  /\ UNCHANGED state

\* Mutant: the first packet of a sector, not the last.
BeginsSector == len % SectorPkgs = 0

CompletesSector == len + 1 >= (len \div SectorPkgs + 1) * SectorPkgs

NextSector == SectorOf((len \div SectorPkgs + 1) * SectorPkgs)

\* Mutant: the length before the packet is compared.
StateAfterLate == IF len = Length[file] THEN "END" ELSE "DATA"

StateAfter == IF len + 1 = Length[file] THEN "END" ELSE "DATA"

NextData ==
  /\ TakePacket /\ len > 0
  /\ state' = StateAfter
  /\ IF CompletesSector
     THEN /\ old' = [old EXCEPT !.len = len', !.crc = crc']
          /\ todo' = <<Erase(NextSector), Write(len, file)>> \o InfoSave(old')
     ELSE /\ todo' = <<Write(len, file)>>
          /\ UNCHANGED old

Verified == FlashCrc(len) = FileCrc(file)

\* Mutant: the length is enough.
EndOkUnverified ==
  /\ Idle /\ state = "END" /\ len = Length[file]
  /\ old' = ZeroInfo
  /\ todo' = <<Erase({0}), Write(0, old.page)>> \o InfoSave(ZeroInfo)
  /\ Exit
  /\ UNCHANGED <<pkgs, len, crc, file, info, store, runs>>

\* tuya_ble_ota_end_handler.  The page written now has a version above that of
\* the image that runs: the next start boots the slot.
EndOk ==
  /\ Idle /\ state = "END" /\ len = Length[file] /\ Verified
  /\ old' = ZeroInfo
  /\ todo' = <<Erase({0}), Write(0, old.page)>> \o InfoSave(ZeroInfo)
  /\ Exit
  /\ UNCHANGED <<pkgs, len, crc, file, info, store, runs>>

EndWrong ==
  /\ Idle /\ state = "END" /\ ~(len = Length[file] /\ Verified)
  /\ Exit
  /\ UNCHANGED <<pkgs, len, crc, file, old, info, store, runs, todo>>

-----------------------------------------------------------------------------
(* Starting again.  The boot loader takes the slot with the newer first    *)
(* page; the other one is filled from then on.  tuya_ble_ota_init reads    *)
(* the record.                                                             *)

Boot ==
  IF store[0] \in Files
  THEN runs' = store[0] /\ store' = [u \in Units |-> Other]
  ELSE UNCHANGED <<runs, store>>

Restart ==
  /\ Boot
  /\ old' = info
  /\ state' = "UNKNOWN" /\ pkgs' = 1 /\ len' = 0 /\ crc' = <<>> /\ file' = Other
  /\ todo' = <<>> /\ due' = FALSE
  /\ UNCHANGED info

\* tuya_ble_disconnect_and_reset_timer_cb
ResetTimer == due /\ Idle /\ Restart

PowerLoss == Restart

Next ==
  \/ FlashStep
  \/ Req \/ Refuse \/ Disconnected
  \/ \E f \in Files : FileInfo(f)
  \/ \E w \in 0 .. SlotPkgs : FileOffset(w)
  \/ FirstData \/ NextData
  \/ EndOk \/ EndWrong
  \/ ResetTimer \/ PowerLoss

Spec == Init /\ [][Next]_vars

-----------------------------------------------------------------------------
(* Properties                                                              *)

\* Types, and that an update that takes data has a file.
TypeOK ==
  /\ state \in {"UNKNOWN", "FILE_INFO", "FILE_OFFSET_REQ", "DATA", "END"}
  /\ pkgs \in 0 .. SlotPkgs /\ len \in 0 .. SlotPkgs
  /\ DOMAIN crc = 1 .. len
  /\ file \in Files \cup {Other}
  /\ state \in {"FILE_OFFSET_REQ", "DATA", "END"} => file \in Files
  /\ \A r \in {old, info} :
       r.len \in 0 .. BlankLen /\ r.md5 \in Packet /\ r.page \in Packet
  /\ store \in [Units -> Packet]
  /\ runs \in Files \cup {Factory}
  /\ due \in BOOLEAN

\* What can be booted is whole when it becomes so: whatever attempts, for which
\* files, have been begun, cut and resumed, the first page is written last and
\* after the image of one file.
OnlyWholeIsBootable ==
  [][store[0] \notin Files /\ store'[0] \in Files =>
       \A u \in 1 .. Length[store'[0]] - 1 : store[u] = store'[0]]_vars

\* An update that was not resumed, and whose packets were all accepted, is
\* not refused at its end: every packet was written to erased flash, whatever
\* earlier attempts left there.
FreshIsWhole ==
  Idle /\ state = "END" /\ len = pkgs =>
    old.page = file /\ \A u \in 1 .. Length[file] - 1 : store[u] = file

\* A loss of the link or of power costs the packets of one sector at most.
ProgressIsKept ==
  Idle /\ state \in {"DATA", "END"} /\ len >= SectorPkgs =>
    info.md5 = file /\ info.len = len - (len % SectorPkgs)

\* While data are awaited there are data to send, so the update can end, with
\* the exception of a file whose last packet completes a sector: resumed at its
\* end, it waits for a packet there is not, and refuses the end.
DataIsLeft ==
  state = "DATA" => len < Length[file] \/ Length[file] % SectorPkgs = 0

\* The sector after the slot, the running image's if the slot is the first one,
\* is erased by no file but one that fills the slot.
NextSlotIsKept ==
  [][\A u \in SlotPkgs .. SlotPkgs + SectorPkgs - 1 :
       store'[u] # store[u] => runs' # runs \/ Length[file] = SlotPkgs]_vars
=============================================================================
