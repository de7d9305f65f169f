------------------------------- MODULE BleStore -------------------------------
(***************************************************************************)
(* The settings of the Tuya BLE SDK in flash (tuya_ble_storage.c): an      *)
(* authorization area and a system area, each with a copy and a backup in  *)
(* sectors of their own.  A save erases and writes the copy, then the      *)
(* backup; power may be lost between any two of these and in the middle of *)
(* one.  A boot takes the copy whose CRC is right, the backup otherwise,   *)
(* and saves what it took if a copy is in the format of an older firmware. *)
(*                                                                         *)
(* The flash of this port reports no errors (ty_flash_FR801xH.c), and the  *)
(* allocations at boot do not fail.                                        *)
(***************************************************************************)
EXTENDS Naturals

CONSTANTS Keys,   \* login keys a binding may set
          Ids,    \* device ids production may write
          HIds,   \* and its h_ids
          Zero,   \* what a cleared field reads as
          NoCopy  \* a sector whose CRC is wrong: erased, or half written

VARIABLES
  flash,  \* the sectors
  ram,    \* tuya_ble_current_para.auth_settings and .sys_settings
  pc,     \* what runs: nothing, the load of an area, the save of one, the SDK
  step,   \* the step of the save under way
  after   \* what the save returns to

vars == <<flash, ram, pc, step, after>>

Areas == {"auth", "sys"}
Copies == {"main", "backup"}

\* bound_flag, the virtual id and the beacon key are set and cleared with the
\* login key: one value stands for them.
Value(a) == IF a = "sys" THEN Keys \cup {Zero}
            ELSE [id : Ids \cup {Zero}, hid : HIds \cup {Zero}]
Blank(a) == IF a = "sys" THEN Zero ELSE [id |-> Zero, hid |-> Zero]

Record(a) == [value : Value(a), old : BOOLEAN]

ASSUME BleStoreAssumption ==
  /\ Zero \notin Keys \cup Ids \cup HIds
  /\ NoCopy \notin Record("auth") \cup Record("sys")

Fresh(v) == [value |-> v, old |-> FALSE]

\* What an older firmware leaves of an area, its last save cut or not: each sector
\* without a copy or with one in its format.
Left(a) == [Copies -> {NoCopy} \cup {[value |-> v, old |-> TRUE] : v \in Value(a)}]

\* A new device, or one that an older firmware has used.
Init ==
  /\ \E f \in Left("auth"), g \in Left("sys") :
       flash = [a \in Areas |-> IF a = "sys" THEN g ELSE f]
  /\ ram = [a \in Areas |-> Blank(a)]
  /\ pc = "off" /\ step = "none" /\ after = "off"

-----------------------------------------------------------------------------
(* tuya_ble_storage_save_auth_settings and _save_sys_settings.             *)

\* The save of area a begins; it goes on to p.
StartSave(a, p) == pc' = a /\ step' = "eraseMain" /\ after' = p

\* Mutant: the erasure takes the sector that follows too.
EraseMainBoth ==
  /\ pc \in Areas /\ step = "eraseMain"
  /\ flash' = [flash EXCEPT ![pc] = [c \in Copies |-> NoCopy]]
  /\ step' = "writeMain"
  /\ UNCHANGED <<ram, pc, after>>

EraseMain ==
  /\ pc \in Areas /\ step = "eraseMain"
  /\ flash' = [flash EXCEPT ![pc]["main"] = NoCopy]
  /\ step' = "writeMain"
  /\ UNCHANGED <<ram, pc, after>>

WriteMain ==
  /\ pc \in Areas /\ step = "writeMain"
  /\ flash' = [flash EXCEPT ![pc]["main"] = Fresh(ram[pc])]
  /\ step' = "eraseBackup"
  /\ UNCHANGED <<ram, pc, after>>

EraseBackup ==
  /\ pc \in Areas /\ step = "eraseBackup"
  /\ flash' = [flash EXCEPT ![pc]["backup"] = NoCopy]
  /\ step' = "writeBackup"
  /\ UNCHANGED <<ram, pc, after>>

\* Mutant: the backup is written from the other area's settings.
WriteBackupWrongArea ==
  /\ pc \in Areas /\ step = "writeBackup"
  /\ flash' = [flash EXCEPT ![pc]["backup"] = Fresh(ram["sys"])]
  /\ pc' = after
  /\ step' = "none" /\ after' = "off"
  /\ UNCHANGED ram

WriteBackup ==
  /\ pc \in Areas /\ step = "writeBackup"
  /\ flash' = [flash EXCEPT ![pc]["backup"] = Fresh(ram[pc])]
  /\ pc' = after
  /\ step' = "none" /\ after' = "off"
  /\ UNCHANGED ram

-----------------------------------------------------------------------------
(* tuya_ble_storage_load_settings                                          *)

Valid(f, a, c) == f[a][c] # NoCopy

\* What a boot makes of the sectors f of area a.
Loaded(f, a) == IF Valid(f, a, "main") THEN f[a]["main"].value
                ELSE IF Valid(f, a, "backup") THEN f[a]["backup"].value
                ELSE Blank(a)

\* Mutant: only the format of the copy that is used counts.
OutdatedUsed(f, a) ==
  LET c == IF Valid(f, a, "main") THEN "main" ELSE "backup"
  IN Valid(f, a, c) /\ f[a][c].old

Outdated(f, a) == \E c \in Copies : Valid(f, a, c) /\ f[a][c].old

Load(a, p) ==
  /\ ram' = [ram EXCEPT ![a] = Loaded(flash, a)]
  /\ IF Outdated(flash, a) THEN StartSave(a, p) ELSE pc' = p /\ UNCHANGED <<step, after>>
  /\ UNCHANGED flash

PowerOn ==
  /\ pc = "off"
  /\ pc' = "loadAuth"
  /\ UNCHANGED <<flash, ram, step, after>>

LoadAuth == pc = "loadAuth" /\ Load("auth", "loadSys")
LoadSys  == pc = "loadSys" /\ Load("sys", "run")

PowerLoss ==
  /\ pc # "off"
  /\ pc' = "off" /\ step' = "none" /\ after' = "off"
  /\ ram' = [a \in Areas |-> Blank(a)]
  /\ UNCHANGED flash

-----------------------------------------------------------------------------
(* What sets the settings: the protocol's commands and production.         *)

\* tuya_ble_handle_pair_req: a device that is bound stays so.
PairReq(k) ==
  /\ pc = "run" /\ ram["sys"] = Zero
  /\ ram' = [ram EXCEPT !["sys"] = k]
  /\ StartSave("sys", "run")
  /\ UNCHANGED flash

\* Mutant: the binding ends and is not saved.
DeviceUnbondUnsaved ==
  /\ pc = "run"
  /\ ram' = [ram EXCEPT !["sys"] = Zero]
  /\ UNCHANGED <<flash, pc, step, after>>

\* tuya_ble_device_unbond
DeviceUnbond ==
  /\ pc = "run"
  /\ ram' = [ram EXCEPT !["sys"] = Zero]
  /\ StartSave("sys", "run")
  /\ UNCHANGED flash

\* tuya_ble_storage_write_hid
WriteHid(h) ==
  /\ pc = "run" /\ ram["auth"].hid # h
  /\ ram' = [ram EXCEPT !["auth"].hid = h]
  /\ StartSave("auth", "run")
  /\ UNCHANGED flash

\* tuya_ble_storage_write_auth_key_device_id_mac: a new identity is saved, and
\* then the binding is cleared and saved.
WriteAuth(i) ==
  /\ pc = "run" /\ ram["auth"].id # i
  /\ ram' = [ram EXCEPT !["auth"].id = i]
  /\ StartSave("auth", "clearSys")
  /\ UNCHANGED flash

ClearSys ==
  /\ pc = "clearSys"
  /\ ram' = [ram EXCEPT !["sys"] = Zero]
  /\ StartSave("sys", "run")
  /\ UNCHANGED flash

-----------------------------------------------------------------------------
Save == EraseMain \/ WriteMain \/ EraseBackup \/ WriteBackup

Next ==
  \/ PowerOn \/ LoadAuth \/ LoadSys \/ PowerLoss
  \/ Save
  \/ \E k \in Keys : PairReq(k)
  \/ \E h \in HIds : WriteHid(h)
  \/ \E i \in Ids : WriteAuth(i)
  \/ DeviceUnbond \/ ClearSys

Spec == Init /\ [][Next]_vars

-----------------------------------------------------------------------------
(* Properties.                                                             *)

TypeOK ==
  /\ flash \in [Areas -> [Copies -> Record("auth") \cup Record("sys") \cup {NoCopy}]]
  /\ \A a \in Areas, c \in Copies : Valid(flash, a, c) => flash[a][c] \in Record(a)
  /\ ram \in [Areas -> Value("auth") \cup Value("sys")]
  /\ \A a \in Areas : ram[a] \in Value(a)
  /\ pc \in Areas \cup {"off", "loadAuth", "loadSys", "run", "clearSys"}
  /\ pc \in Areas <=> step # "none"
  /\ step \in {"none", "eraseMain", "writeMain", "eraseBackup", "writeBackup"}
  /\ after \in {"off", "loadSys", "run", "clearSys"}

\* The copies of an area differ when power was lost between their writes.  A boot
\* takes one and does not mend the other: the next save erases the newer value
\* first, and if it is interrupted the backup's older one comes back, or none.
Unmended(a) == flash[a]["main"] # flash[a]["backup"]

\* A save is atomic for a loss of power, what the next boot would load changes
\* only to the value being saved, unless it began with copies that differ.
SaveIsAtomic ==
  [][\A a \in Areas :
       Loaded(flash', a) # Loaded(flash, a) => Loaded(flash', a) = ram[a] \/ Unmended(a)]_vars

\* The settings in use are those a boot would load.
RunningIsSaved == pc = "run" => \A a \in Areas : ram[a] = Loaded(flash, a)

\* A device that runs has no settings left in the old format, whenever power was
\* lost during their conversion.
ConversionEnds ==
  pc = "run" => \A a \in Areas, c \in Copies : Valid(flash, a, c) => ~flash[a][c].old
=============================================================================
