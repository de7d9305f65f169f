----------------------------- MODULE FlashProofs -----------------------------
(***************************************************************************)
(* Proofs for what has a copy in flash: the SDK's settings (BleStore), for *)
(* all sets of keys, device ids and h_ids, and the bonded phones           *)
(* (HidUnlock), for all sets of phones and sizes of their table.           *)
(*                                                                         *)
(* That the settings in use are saved when nothing runs follows from two   *)
(* facts about the rest of the time: how far a save has come               *)
(* (SaveProgress), and which areas are done at each point of a boot or of  *)
(* a command (LoadProgress).                                               *)
(*                                                                         *)
(* That a bond survives is about where its key is: the flash reads as in   *)
(* use where it is erased, so that a key is only ever in the last slot     *)
(* (LastOnly), and the settings in use are that key's if they have one     *)
(* (SettingsOfBond).                                                       *)
(***************************************************************************)
EXTENDS BleStore, HidUnlock, WellFoundedInduction, TLAPS

\* Area a is saved, and in the format of this firmware.
Done(a) == ram[a] = Loaded(flash, a) /\ ~Outdated(flash, a)

SaveProgress ==
  pc \in Areas /\ step \in {"eraseBackup", "writeBackup"} => flash[pc]["main"] = Fresh(ram[pc])

LoadProgress ==
  /\ pc \in {"loadSys", "clearSys", "sys", "run"} => Done("auth")
  /\ pc = "run" => Done("sys")
  /\ pc = "sys" => after = "run"
  /\ pc = "auth" => after \in {"loadSys", "clearSys", "run"} /\ (after = "run" => Done("sys"))

IInv == TypeOK /\ SaveProgress /\ LoadProgress

-----------------------------------------------------------------------------
(* Facts about records and sectors.                                        *)

(* What a save writes is a valid copy in the new format. *)
LEMMA FreshIsCopy ==
  ASSUME NEW a \in Areas, NEW v \in Value(a)
  PROVE  /\ Fresh(v) \in Record(a) /\ Fresh(v) # NoCopy
         /\ Fresh(v).value = v /\ Fresh(v).old = FALSE
<1>1. Fresh(v) \in Record(a)
  BY DEF Fresh, Record
<1>2. NoCopy \notin Record(a)
  BY BleStoreAssumption DEF Areas
<1> QED
  BY <1>1, <1>2 DEF Fresh

(* A cleared field is a value of its area. *)
LEMMA BlankIsValue ==
  ASSUME NEW a \in Areas
  PROVE  Blank(a) \in Value(a)
  BY DEF Areas, Blank, Value

(* What a boot loads from well-typed sectors is a value of the area. *)
LEMMA LoadedIsValue ==
  ASSUME TypeOK, NEW a \in Areas
  PROVE  Loaded(flash, a) \in Value(a)
<1>1. \A c \in Copies : Valid(flash, a, c) => flash[a][c].value \in Value(a)
  BY DEF TypeOK, Record
<1> QED
  BY <1>1, BlankIsValue DEF Loaded, Copies

(* An area whose copy was written and whose backup is that or none is done. *)
LEMMA SavedIsDone ==
  ASSUME NEW f, NEW a \in Areas, NEW v \in Value(a),
         f[a]["main"] = Fresh(v), f[a]["backup"] \in {NoCopy, Fresh(v)}
  PROVE  v = Loaded(f, a) /\ ~Outdated(f, a)
  BY FreshIsCopy DEF Loaded, Outdated, Valid, Copies

(* What a boot makes of an area depends on its two sectors alone. *)
LEMMA SameSectors ==
  ASSUME NEW a, \A c \in Copies : flash'[a][c] = flash[a][c]
  PROVE  Loaded(flash', a) = Loaded(flash, a) /\ (Outdated(flash', a) <=> Outdated(flash, a))
  BY DEF Loaded, Outdated, Valid, Copies

Sectors == [Areas -> [Copies -> Record("auth") \cup Record("sys") \cup {NoCopy}]]
SectorsOK(f) ==
  /\ f \in Sectors
  /\ \A a \in Areas, c \in Copies : Valid(f, a, c) => f[a][c] \in Record(a)

(* A step of a save changes one sector, to none or to a copy of its area. *)
LEMMA SectorWrite ==
  ASSUME SectorsOK(flash), NEW a \in Areas, NEW c \in Copies,
         NEW r \in Record(a) \cup {NoCopy}, flash' = [flash EXCEPT ![a][c] = r]
  PROVE  /\ SectorsOK(flash')
         /\ \A b \in Areas, d \in Copies :
              flash'[b][d] = IF b = a /\ d = c THEN r ELSE flash[b][d]
<1>1. \A b \in Areas, d \in Copies :
        flash'[b][d] = IF b = a /\ d = c THEN r ELSE flash[b][d]
  BY DEF SectorsOK, Sectors
<1>2. flash' \in Sectors
  BY DEF SectorsOK, Sectors, Areas
<1>3. \A b \in Areas, d \in Copies : Valid(flash', b, d) => flash'[b][d] \in Record(b)
  BY <1>1 DEF SectorsOK, Valid
<1> QED
  BY <1>1, <1>2, <1>3 DEF SectorsOK

(* A change of one area's settings keeps them well typed. *)
LEMMA SettingsWrite ==
  ASSUME TypeOK, NEW a \in Areas, NEW v \in Value(a), ram' = [ram EXCEPT ![a] = v]
  PROVE  /\ ram' \in [Areas -> Value("auth") \cup Value("sys")]
         /\ ram'[a] = v
         /\ \A b \in Areas : ram'[b] \in Value(b) /\ (b # a => ram'[b] = ram[b])
<1>1. v \in Value("auth") \cup Value("sys")
  BY DEF Areas
<1> QED
  BY <1>1 DEF TypeOK

-----------------------------------------------------------------------------
(* The inductive invariant.                                                *)

(* A device that is off has it. *)
LEMMA InitIInv == Init => IInv
<1> SUFFICES ASSUME Init PROVE IInv
  OBVIOUS
<1>1. SectorsOK(flash)
  <2>1. PICK f \in Left("auth"), g \in Left("sys") :
          flash = [a \in Areas |-> IF a = "sys" THEN g ELSE f]
    BY DEF Init
  <2>2. \A a \in Areas : flash[a] \in Left(a)
    BY <2>1 DEF Areas
  <2>3. \A a \in Areas : \A v \in Value(a) : [value |-> v, old |-> TRUE] \in Record(a)
    BY DEF Record
  <2>4. \A a \in Areas, c \in Copies : flash[a][c] = NoCopy \/ flash[a][c] \in Record(a)
    BY <2>2, <2>3 DEF Left
  <2>5. \A a \in Areas : flash[a] \in [Copies -> Record("auth") \cup Record("sys") \cup {NoCopy}]
    <3> TAKE a \in Areas
    <3>1. Record(a) \subseteq Record("auth") \cup Record("sys")
      BY DEF Areas
    <3>2. flash[a] = [c \in Copies |-> flash[a][c]]
      BY <2>2 DEF Left
    <3> QED BY <2>4, <3>1, <3>2
  <2>6. flash = [a \in Areas |-> flash[a]]
    BY <2>1
  <2> QED BY <2>4, <2>5, <2>6 DEF SectorsOK, Sectors, Valid
<1>2. ram \in [Areas -> Value("auth") \cup Value("sys")] /\ \A a \in Areas : ram[a] \in Value(a)
  BY BlankIsValue DEF Init, Areas
<1>3. pc = "off" /\ step = "none" /\ after = "off"
  BY DEF Init
<1>4. TypeOK
  BY <1>1, <1>2, <1>3 DEF TypeOK, SectorsOK, Sectors, Areas
<1> QED
  BY <1>3, <1>4 DEF IInv, SaveProgress, LoadProgress, Areas

(* The load of area a on the way to p: the settings become what was loaded, and *)
(* either the area is done or its conversion begins.                           *)
LEMMA LoadStep ==
  ASSUME IInv, NEW a \in Areas, NEW p, Load(a, p)
  PROVE  /\ ram' \in [Areas -> Value("auth") \cup Value("sys")]
         /\ \A b \in Areas : ram'[b] \in Value(b) /\ (b # a => ram'[b] = ram[b])
         /\ flash' = flash
         /\ \/ pc' = a /\ step' = "eraseMain" /\ after' = p
            \/ pc' = p /\ step' = step /\ after' = after /\ Done(a)'
<1>1. Loaded(flash, a) \in Value(a)
  BY LoadedIsValue DEF IInv
<1>2. /\ ram' \in [Areas -> Value("auth") \cup Value("sys")]
      /\ ram'[a] = Loaded(flash, a)
      /\ \A b \in Areas : ram'[b] \in Value(b) /\ (b # a => ram'[b] = ram[b])
  BY <1>1, SettingsWrite DEF IInv, Load
<1>3. flash' = flash
  BY DEF Load
<1>4. CASE Outdated(flash, a)
  BY <1>2, <1>3, <1>4 DEF Load, StartSave
<1>5. CASE ~Outdated(flash, a)
  BY <1>2, <1>3, <1>5 DEF Load, Done
<1> QED
  BY <1>2, <1>3, <1>4, <1>5

(* A command sets the settings of area a and begins its save. *)
LEMMA CommandStep ==
  ASSUME IInv, NEW a \in Areas, NEW v \in Value(a), NEW p,
         pc \in {"run", "clearSys"}, ram' = [ram EXCEPT ![a] = v], StartSave(a, p), flash' = flash,
         p \in {"run", "clearSys"}, a = "sys" => p = "run", pc = "clearSys" => a = "sys"
  PROVE  IInv'
<1>1. /\ ram' \in [Areas -> Value("auth") \cup Value("sys")]
      /\ \A b \in Areas : ram'[b] \in Value(b) /\ (b # a => ram'[b] = ram[b])
  BY SettingsWrite DEF IInv
<1>2. pc' = a /\ step' = "eraseMain" /\ after' = p
  BY DEF StartSave
<1>3. TypeOK'
  BY <1>1, <1>2 DEF IInv, TypeOK, Valid, Areas
<1>4. \A b \in Areas : b # a /\ Done(b) => Done(b)'
  BY <1>1 DEF Done
<1>5. LoadProgress'
  BY <1>2, <1>4 DEF IInv, LoadProgress, Areas
<1>6. SaveProgress'
  BY <1>2 DEF SaveProgress
<1> QED
  BY <1>3, <1>5, <1>6 DEF IInv

(* A step of a save that writes sector c of its area with r. *)
LEMMA SaveStep ==
  ASSUME IInv, pc \in Areas, NEW c \in Copies, NEW r \in Record(pc) \cup {NoCopy},
         flash' = [flash EXCEPT ![pc][c] = r], ram' = ram
  PROVE  /\ SectorsOK(flash')
         /\ flash'[pc][c] = r
         /\ \A b \in Areas, d \in Copies : b # pc \/ d # c => flash'[b][d] = flash[b][d]
         /\ \A b \in Areas : b # pc /\ Done(b) => Done(b)'
<1>1. SectorsOK(flash)
  BY DEF IInv, TypeOK, SectorsOK, Sectors
<1>2. /\ SectorsOK(flash')
      /\ \A b \in Areas, d \in Copies :
           flash'[b][d] = IF b = pc /\ d = c THEN r ELSE flash[b][d]
  BY <1>1, SectorWrite, ZenonT(20)
<1>3. \A b \in Areas : b # pc => \A d \in Copies : flash'[b][d] = flash[b][d]
  BY <1>2
<1>4. ASSUME NEW b \in Areas, b # pc, Done(b) PROVE Done(b)'
  BY <1>3, <1>4, SameSectors DEF Done
<1> QED
  BY <1>2, <1>4

(* Every step of the program and every loss of power keep the invariant. *)
LEMMA StepIInv == IInv /\ [Next]_vars => IInv'
<1> SUFFICES ASSUME IInv, [Next]_vars PROVE IInv'
  OBVIOUS
<1>1. CASE PowerOn
  <2>1. TypeOK'
    BY <1>1 DEF IInv, PowerOn, TypeOK, Areas, Valid
  <2> QED
    BY <1>1, <2>1 DEF IInv, PowerOn, SaveProgress, LoadProgress, Areas
<1>2. CASE LoadAuth
  <2>1. "auth" \in Areas /\ Load("auth", "loadSys") /\ pc = "loadAuth" /\ step = "none"
    BY <1>2 DEF LoadAuth, Areas, IInv, TypeOK
  <2>2. TypeOK'
    BY <2>1, LoadStep DEF IInv, TypeOK, Areas, Valid
  <2> QED
    BY <2>1, <2>2, LoadStep DEF IInv, SaveProgress, LoadProgress, Areas
<1>3. CASE LoadSys
  <2>1. "sys" \in Areas /\ Load("sys", "run") /\ pc = "loadSys" /\ step = "none"
    BY <1>3 DEF LoadSys, Areas, IInv, TypeOK
  <2>2. TypeOK'
    BY <2>1, LoadStep DEF IInv, TypeOK, Areas, Valid
  <2>3. Done("auth")'
    BY <2>1, LoadStep DEF IInv, LoadProgress, Done, Areas
  <2> QED
    BY <2>1, <2>2, <2>3, LoadStep DEF IInv, SaveProgress, LoadProgress, Areas
<1>4. CASE PowerLoss
  <2>1. ram' \in [Areas -> Value("auth") \cup Value("sys")] /\ \A a \in Areas : ram'[a] \in Value(a)
    BY <1>4, BlankIsValue DEF PowerLoss, Areas
  <2>2. TypeOK'
    BY <1>4, <2>1 DEF IInv, PowerLoss, TypeOK, Areas, Valid
  <2> QED
    BY <1>4, <2>2 DEF IInv, PowerLoss, SaveProgress, LoadProgress, Areas
<1>5. CASE Save
  <2>1. /\ pc \in Areas /\ ram' = ram /\ Fresh(ram[pc]) \in Record(pc)
        /\ "main" \in Copies /\ "backup" \in Copies
    BY <1>5, FreshIsCopy DEF Save, EraseMain, WriteMain, EraseBackup, WriteBackup, IInv, TypeOK, Copies
  <2>2. CASE EraseMain
    <3>1. SectorsOK(flash') /\ \A b \in Areas : b # pc /\ Done(b) => Done(b)'
      BY <2>1, <2>2, SaveStep DEF EraseMain
    <3>2. TypeOK'
      BY <2>1, <2>2, <3>1 DEF EraseMain, IInv, TypeOK, SectorsOK, Sectors, Valid
    <3> QED
      BY <2>1, <2>2, <3>1, <3>2 DEF EraseMain, IInv, SaveProgress, LoadProgress, Areas
  <2>3. CASE WriteMain
    <3>1. /\ SectorsOK(flash') /\ flash'[pc]["main"] = Fresh(ram[pc])
          /\ \A b \in Areas : b # pc /\ Done(b) => Done(b)'
      BY <2>1, <2>3, SaveStep DEF WriteMain
    <3>2. TypeOK'
      BY <2>1, <2>3, <3>1 DEF WriteMain, IInv, TypeOK, SectorsOK, Sectors, Valid
    <3> QED
      BY <2>1, <2>3, <3>1, <3>2 DEF WriteMain, IInv, SaveProgress, LoadProgress, Areas
  <2>4. CASE EraseBackup
    <3>1. /\ SectorsOK(flash')
          /\ \A b \in Areas, d \in Copies : b # pc \/ d # "backup" => flash'[b][d] = flash[b][d]
          /\ \A b \in Areas : b # pc /\ Done(b) => Done(b)'
      BY <2>1, <2>4, SaveStep DEF EraseBackup
    <3>2. flash'[pc]["main"] = flash[pc]["main"]
      BY <2>1, <3>1
    <3>3. TypeOK'
      BY <2>1, <2>4, <3>1 DEF EraseBackup, IInv, TypeOK, SectorsOK, Sectors, Valid
    <3> QED
      BY <2>1, <2>4, <3>1, <3>3, <3>2 DEF EraseBackup, IInv, SaveProgress, LoadProgress, Areas
  <2>5. CASE WriteBackup
    <3>1. /\ SectorsOK(flash') /\ flash'[pc]["backup"] = Fresh(ram[pc])
          /\ \A b \in Areas, d \in Copies : b # pc \/ d # "backup" => flash'[b][d] = flash[b][d]
          /\ \A b \in Areas : b # pc /\ Done(b) => Done(b)'
      BY <2>1, <2>5, SaveStep DEF WriteBackup
    <3>2. flash'[pc]["main"] = Fresh(ram[pc])
      BY <2>1, <2>5, <3>1 DEF WriteBackup, IInv, SaveProgress
    <3>3. ram'[pc] = Loaded(flash', pc) /\ ~Outdated(flash', pc)
      BY <2>1, <3>1, <3>2, SavedIsDone DEF IInv, TypeOK
    <3>4. (pc = "auth" => Done("auth")') /\ (pc = "sys" => Done("sys")')
      BY <3>3 DEF Done
    <3>5. pc' \in {"loadSys", "run", "clearSys"}
      BY <2>1, <2>5 DEF WriteBackup, IInv, LoadProgress, Areas
    <3>6. TypeOK'
      BY <2>1, <2>5, <3>1, <3>5 DEF WriteBackup, IInv, TypeOK, SectorsOK, Sectors, Valid, Areas
    <3> QED
      BY <2>1, <2>5, <3>1, <3>5, <3>6, <3>4 DEF WriteBackup, IInv, SaveProgress, LoadProgress, Areas
  <2> QED
    BY <1>5, <2>2, <2>3, <2>4, <2>5 DEF Save
<1>6. ASSUME NEW k \in Keys, PairReq(k) PROVE IInv'
  <2>1. "sys" \in Areas /\ k \in Value("sys")
    BY DEF Areas, Value
  <2> QED
    BY <1>6, <2>1, CommandStep DEF PairReq
<1>7. ASSUME NEW h \in HIds, WriteHid(h) PROVE IInv'
  <2> DEFINE v == [ram["auth"] EXCEPT !.hid = h]
  <2>1. "auth" \in Areas /\ v \in Value("auth")
    BY <1>7 DEF IInv, TypeOK, Areas, Value
  <2>2. ram' = [ram EXCEPT !["auth"] = v]
    BY <1>7 DEF WriteHid
  <2> HIDE DEF v
  <2> QED
    BY <1>7, <2>1, <2>2, CommandStep DEF WriteHid
<1>8. ASSUME NEW i \in Ids, WriteAuth(i) PROVE IInv'
  <2> DEFINE v == [ram["auth"] EXCEPT !.id = i]
  <2>1. "auth" \in Areas /\ v \in Value("auth")
    BY <1>8 DEF IInv, TypeOK, Areas, Value
  <2>2. ram' = [ram EXCEPT !["auth"] = v]
    BY <1>8 DEF WriteAuth
  <2> HIDE DEF v
  <2> QED
    BY <1>8, <2>1, <2>2, CommandStep DEF WriteAuth
<1>9. CASE DeviceUnbond
  <2>1. "sys" \in Areas /\ Zero \in Value("sys")
    BY DEF Areas, Value
  <2> QED
    BY <1>9, <2>1, CommandStep DEF DeviceUnbond
<1>10. CASE ClearSys
  <2>1. "sys" \in Areas /\ Zero \in Value("sys")
    BY DEF Areas, Value
  <2> QED
    BY <1>10, <2>1, CommandStep DEF ClearSys
<1>11. CASE UNCHANGED vars
  BY <1>11 DEF vars, IInv, TypeOK, SaveProgress, LoadProgress, Done, Valid
<1> QED
  BY <1>1, <1>2, <1>3, <1>4, <1>5, <1>6, <1>7, <1>8, <1>9, <1>10, <1>11 DEF Next

-----------------------------------------------------------------------------
(* The theorems.                                                           *)

(* The invariant holds throughout, for any keys and identities. *)
THEOREM Invariance == Spec => []IInv
<1>1. Init => IInv
  BY InitIInv
<1>2. IInv /\ [Next]_vars => IInv'
  BY StepIInv
<1> QED
  BY <1>1, <1>2, PTL DEF Spec

(* Sectors hold nothing or a record of their area, and settings are values. *)
THEOREM TypeCorrect == Spec => []TypeOK
<1>1. IInv => TypeOK
  BY DEF IInv
<1> QED
  BY <1>1, Invariance, PTL

(* Whenever no save is under way, a restart would bring the settings in use *)
(* back: tuya_ble_storage_load_settings reads what the last save wrote.     *)
THEOREM RunningSaved == Spec => []RunningIsSaved
<1>1. IInv => RunningIsSaved
  BY DEF IInv, LoadProgress, Done, RunningIsSaved, Areas
<1> QED
  BY <1>1, Invariance, PTL

(* A device that runs has converted every copy of an older firmware, whatever *)
(* losses of power interrupted the conversion.                                *)
THEOREM Converted == Spec => []ConversionEnds
<1>1. IInv => ConversionEnds
  BY DEF IInv, LoadProgress, Done, Outdated, ConversionEnds, Areas
<1> QED
  BY <1>1, Invariance, PTL

(* One step changes what the next boot would load only to the settings being *)
(* saved, unless the copies of the area differed before it.                  *)
LEMMA SaveStepAtomic ==
  ASSUME IInv, Next, NEW a \in Areas, Loaded(flash', a) # Loaded(flash, a)
  PROVE  Loaded(flash', a) = ram[a] \/ Unmended(a)
<1>1. PICK c \in Copies : flash'[a][c] # flash[a][c]
  BY SameSectors
<1>2. Save /\ pc = a
  <2>1. Save
    BY <1>1 DEF Next, PowerOn, LoadAuth, LoadSys, Load, PowerLoss, PairReq, WriteHid, WriteAuth,
                DeviceUnbond, ClearSys
  <2>2. flash \in Sectors
    BY DEF IInv, TypeOK, Sectors
  <2> QED
    BY <1>1, <2>1, <2>2 DEF Save, EraseMain, WriteMain, EraseBackup, WriteBackup, Sectors
<1>3. Fresh(ram[a]) \in Record(a) /\ Fresh(ram[a]) # NoCopy /\ Fresh(ram[a]).value = ram[a]
  BY FreshIsCopy DEF IInv, TypeOK
<1>4. flash \in Sectors
  BY DEF IInv, TypeOK, Sectors
<1>5. CASE EraseMain
  <2>1. flash'[a]["main"] = NoCopy /\ flash'[a]["backup"] = flash[a]["backup"]
    BY <1>2, <1>4, <1>5 DEF EraseMain, Sectors, Copies
  <2> QED
    BY <2>1 DEF Loaded, Valid, Unmended
<1>6. CASE WriteMain
  <2>1. flash'[a]["main"] = Fresh(ram[a])
    BY <1>2, <1>4, <1>6 DEF WriteMain, Sectors, Copies
  <2> QED
    BY <1>3, <2>1 DEF Loaded, Valid
<1>7. CASE EraseBackup
  <2>1. flash[a]["main"] = Fresh(ram[a]) /\ flash'[a]["main"] = flash[a]["main"]
    BY <1>2, <1>4, <1>7 DEF EraseBackup, Sectors, Copies, IInv, SaveProgress
  <2> QED
    BY <1>3, <2>1 DEF Loaded, Valid
<1>8. CASE WriteBackup
  <2>1. flash[a]["main"] = Fresh(ram[a]) /\ flash'[a]["main"] = flash[a]["main"]
    BY <1>2, <1>4, <1>8 DEF WriteBackup, Sectors, Copies, IInv, SaveProgress
  <2> QED
    BY <1>3, <2>1 DEF Loaded, Valid
<1> QED
  BY <1>2, <1>5, <1>6, <1>7, <1>8 DEF Save

(* A save is atomic for a loss of power. *)
THEOREM SaveAtomic == Spec => SaveIsAtomic
<1>1. IInv /\ [Next]_vars =>
        [\A a \in Areas :
           Loaded(flash', a) # Loaded(flash, a) => Loaded(flash', a) = ram[a] \/ Unmended(a)]_vars
  BY SaveStepAtomic
<1> QED
  BY <1>1, Invariance, PTL DEF Spec, SaveIsAtomic

-----------------------------------------------------------------------------
(* HidUnlock: what a save does to the bond table.                          *)

Table == [Slots -> HidRecord]

(* Where the slots of a kind are, the first of them is one. *)
LEMMA FirstSlot ==
  ASSUME NEW S \in SUBSET Slots, S # {}
  PROVE  Min(S) \in S
<1>1. S \subseteq Nat
  BY HidUnlockAssumption DEF Slots
<1>2. IsWellFoundedOn(OpToRel(<, Nat), Nat)
  BY NatLessThanWellFounded
<1>3. PICK x \in S : \A y \in S : ~(<<y, x>> \in OpToRel(<, Nat))
  BY <1>1, <1>2, WFMin
<1>4. \A y \in S : ~(y < x)
  BY <1>1, <1>3 DEF OpToRel
<1>5. \A y \in S : x <= y
  BY <1>1, <1>4
<1> QED BY <1>5 DEF Min

\* A table as the flash holds it: every slot is in use, for a key in the last alone.
LastOnly(t) ==
  /\ t \in Table
  /\ \A i \in Slots : t[i].active /\ (i # BondNum => t[i].key = ErasedKey)

PhoneKeys == Phones \cup {ZeroKey}

\* The record r in the last slot of t.
Put(t, r) == [t EXCEPT ![BondNum] = r]

(* Such a table knows no key but that in its last slot. *)
LEMMA LastHolds ==
  ASSUME NEW t, LastOnly(t), NEW k \in PhoneKeys
  PROVE  /\ BondNum \in Slots
         /\ Holds(t, k) <=> t[BondNum].key = k
         /\ \A i \in Slots : t[i].key = k => i = BondNum
<1>1. BondNum \in Slots
  BY HidUnlockAssumption DEF Slots
<1>2. k # ErasedKey
  BY HidUnlockAssumption DEF PhoneKeys
<1>3. \A i \in Slots : t[i].key = k => i = BondNum
  BY <1>2 DEF LastOnly
<1> QED BY <1>1, <1>3 DEF LastOnly, Holds

(* A new record in the last slot: the table stays one of its kind.         *)
LEMMA PutEffect ==
  ASSUME NEW t, LastOnly(t), NEW r \in HidRecord, r.active
  PROVE  LastOnly(Put(t, r)) /\ Put(t, r)[BondNum] = r
<1>1. BondNum \in Slots /\ t \in Table
  BY HidUnlockAssumption DEF Slots, LastOnly
<1>2. Put(t, r) \in Table /\ Put(t, r)[BondNum] = r /\ \A i \in Slots \ {BondNum} : Put(t, r)[i] = t[i]
  BY <1>1 DEF Put, Table
<1>3. \A i \in Slots : Put(t, r)[i].active /\ (i # BondNum => Put(t, r)[i].key = ErasedKey)
  BY <1>2 DEF LastOnly
<1> QED BY <1>2, <1>3 DEF LastOnly

(* The record of a key that is there takes the settings, its key included. *)
LEMMA ConfigEffect ==
  ASSUME NEW t, LastOnly(t), NEW k \in PhoneKeys, NEW d \in HidRecord, t[BondNum].key = k
  PROVE  ConfigInfoSave(t, k, d) = Put(t, [d EXCEPT !.active = TRUE])
<1> DEFINE fit == {i \in Slots : t[i].key = k}
<1>1. fit = {BondNum}
  BY LastHolds
<1>2. Min(fit) = BondNum
  <2>1. fit \in SUBSET Slots /\ fit # {}
    BY <1>1
  <2>2. Min(fit) \in fit
    BY <2>1, FirstSlot
  <2> QED BY <1>1, <2>2
<1> QED BY <1>1, <1>2 DEF ConfigInfoSave, Put

(* A key that is not there takes the last slot, since every slot is in use. *)
LEMMA SaveEffect ==
  ASSUME NEW t, LastOnly(t), NEW k \in PhoneKeys, NEW d \in HidRecord, t[BondNum].key # k
  PROVE  BondInfoSave(t, k, d) = Put(t, [d EXCEPT !.key = k, !.active = TRUE])
<1>1. {i \in Slots : t[i].key = k \/ ~t[i].active} = {}
  BY LastHolds DEF LastOnly
<1> QED BY <1>1 DEF BondInfoSave, Put

\* The record a refresh saves.
SavedRecord(k, d) == IF Holds(nv, k) THEN [d EXCEPT !.active = TRUE]
                     ELSE [d EXCEPT !.key = k, !.active = TRUE]

(* ty_hid_bond_refresh: without the application nothing is saved; with it  *)
(* the last slot takes the settings, under the new key if it is new.       *)
LEMMA RefreshEffect ==
  ASSUME LastOnly(nv), NEW k \in PhoneKeys, NEW d \in HidRecord
  PROVE  /\ LastOnly(Refreshed(k, d))
         /\ ~app => Refreshed(k, d) = nv
         /\ app => Refreshed(k, d)[BondNum].key = IF Holds(nv, k) THEN d.key ELSE k
<1>1. CASE ~app
  BY <1>1 DEF Refreshed
<1>2. CASE app
  <2> DEFINE r == SavedRecord(k, d)
  <2>1. r \in HidRecord /\ r.active /\ r.key = IF Holds(nv, k) THEN d.key ELSE k
    BY DEF HidRecord, SavedRecord, PhoneKeys
  <2>2. Refreshed(k, d) = Put(nv, r)
    <3>1. CASE Holds(nv, k)
      <4>1. nv[BondNum].key = k
        BY <3>1, LastHolds
      <4>2. ConfigInfoSave(nv, k, d) = Put(nv, [d EXCEPT !.active = TRUE])
        BY <4>1, ConfigEffect
      <4> QED BY <1>2, <3>1, <4>2 DEF Refreshed, SavedRecord
    <3>2. CASE ~Holds(nv, k)
      <4>1. nv[BondNum].key # k
        BY <3>2, LastHolds
      <4>2. BondInfoSave(nv, k, d) = Put(nv, [d EXCEPT !.key = k, !.active = TRUE])
        BY <4>1, SaveEffect
      <4> QED BY <1>2, <3>2, <4>2 DEF Refreshed, SavedRecord
    <3> QED BY <3>1, <3>2
  <2> HIDE DEF r
  <2>3. LastOnly(Put(nv, r)) /\ Put(nv, r)[BondNum] = r
    BY <2>1, PutEffect
  <2> QED BY <1>2, <2>1, <2>2, <2>3
<1> QED BY <1>1, <1>2

-----------------------------------------------------------------------------
(* HidUnlock: the inductive invariant.  An erased slot reads as one in     *)
(* use, so that a key is only ever kept in the last slot; and it is the    *)
(* key of the settings in use, if these have one.                          *)

SettingsOfBond == dev.key \in {ZeroKey, nv[BondNum].key} \/ nv[BondNum].key = ErasedKey

HidIInv ==
  /\ HidTypeOK /\ BondedIsKnown
  /\ LastOnly(nv) /\ SettingsOfBond /\ dev.key # ErasedKey

(* The tables as a boot and an unbind leave them. *)
LEMMA EmptyHolds ==
  /\ EmptyTable \in Table /\ ErasedTable \in Table /\ LastOnly(ErasedTable)
  /\ Cleared \in HidRecord /\ ~Cleared.active /\ Cleared.key = ZeroKey
  /\ ErasedTable[BondNum].key = ErasedKey
<1>1. Erased \in HidRecord /\ Erased.active /\ Erased.key = ErasedKey
  BY DEF Erased, HidRecord
<1>2. BondNum \in Slots
  BY HidUnlockAssumption DEF Slots
<1>3. ErasedTable \in Table /\ \A i \in Slots : ErasedTable[i] = Erased
  BY <1>1 DEF ErasedTable, Table
<1>4. LastOnly(ErasedTable) /\ ErasedTable[BondNum].key = ErasedKey
  BY <1>1, <1>2, <1>3 DEF LastOnly
<1> QED BY <1>3, <1>4 DEF EmptyTable, Cleared, Table, HidRecord

(* No reading is in the window. *)
LEMMA EmptyWindow == <<>> \in BoundedSeq(Readings, RSSI_SAMPLE_MAX - 1)
<1>1. <<>> \in [1 .. 0 -> Readings] /\ 0 \in 0 .. RSSI_SAMPLE_MAX - 1
  BY DEF RSSI_SAMPLE_MAX
<1> QED BY <1>1 DEF BoundedSeq, SeqOf

(* The start-up state satisfies the invariant. *)
LEMMA HidInitIInv == HidInit => HidIInv
  BY EmptyHolds, EmptyWindow, HidUnlockAssumption
  DEF HidInit, HidIInv, HidTypeOK, Table, BondedIsKnown, SettingsOfBond, BondAtLoad

(* A table of records in which the key k is holds the settings of k. *)
LEMMA SlotOfKey ==
  ASSUME NEW t \in Table, NEW k, Holds(t, k)
  PROVE  t[SlotOf(t, k)] \in HidRecord
<1> DEFINE S == {i \in Slots : t[i].active /\ t[i].key = k}
<1>1. S # {} /\ S \in SUBSET Slots
  BY DEF Holds
<1>2. Min(S) \in Slots
  BY <1>1, FirstSlot
<1> QED BY <1>2 DEF SlotOf, Table

\* What a refresh with the settings d leaves: the table and settings of the
\* right kind, the phone's own if its key was found, else d.
HasRefreshed(k, d) ==
  /\ table' = nv' /\ nv' = Refreshed(k, d)
  /\ dev' \in HidRecord /\ ~dev'.active
  /\ nv'[BondNum].key = k => dev'.key = k /\ bonded' = TRUE
  /\ nv'[BondNum].key # k => dev' = d /\ bonded' = bonded

(* ty_hid_bond_refresh does that. *)
LEMMA BondRefreshEffect ==
  ASSUME LastOnly(nv), NEW k \in PhoneKeys, NEW d \in HidRecord, ~d.active,
         BondRefresh(k, d)
  PROVE  HasRefreshed(k, d)
<1> DEFINE t == Refreshed(k, d)
<1>1. LastOnly(t)
  BY RefreshEffect
<1>2. table' = t /\ nv' = t
  BY DEF BondRefresh
<1> HIDE DEF t
<1>3. t \in Table /\ (Holds(t, k) <=> t[BondNum].key = k)
  BY <1>1, LastHolds DEF LastOnly
<1>4. CASE Holds(t, k)
  <2> DEFINE r == t[SlotOf(t, k)]
  <2>1. r \in HidRecord
    BY <1>3, <1>4, SlotOfKey
  <2>2. /\ dev' = [d EXCEPT !.key = k, !.near = r.near, !.far = r.far,
                              !.sens = Usable(r.sens)]
        /\ bonded' = TRUE
    BY <1>4 DEF BondRefresh, t
  <2>3. r.near \in BOOLEAN /\ r.far \in BOOLEAN
        /\ Usable(r.sens) \in Levels \cup {0, -1, RSSI_OPEN_MIDDLE}
    BY <2>1 DEF HidRecord, Usable
  <2> HIDE DEF r
  <2>4. dev' \in HidRecord /\ ~dev'.active /\ dev'.key = k
    BY <2>2, <2>3 DEF HidRecord, PhoneKeys
  <2> QED BY <1>2, <1>3, <1>4, <2>2, <2>4 DEF HasRefreshed, t
<1>5. CASE ~Holds(t, k)
  <2>1. dev' = d /\ bonded' = bonded
    BY <1>5 DEF BondRefresh, t
  <2> QED BY <1>2, <1>3, <1>5, <2>1 DEF HasRefreshed, t
<1> QED BY <1>4, <1>5

\* What the bonds are after a step.
BondsAgain ==
  /\ table' \in Table /\ LastOnly(nv')
  /\ dev' \in HidRecord /\ ~dev'.active /\ bonded' \in BOOLEAN
  /\ BondedIsKnown' /\ SettingsOfBond' /\ dev'.key # ErasedKey

(* A refresh leaves the bonds as they must be, whatever its key.  If that  *)
(* is in the table and the settings in use have another, they are saved    *)
(* over it, and stay in use.                                               *)
LEMMA RefreshKeepsBonds ==
  ASSUME HidIInv, NEW k \in PhoneKeys, NEW d \in HidRecord, ~d.active, d.key = dev.key,
         BondRefresh(k, d)
  PROVE  BondsAgain
<1>1. /\ LastOnly(nv) /\ d.key \in PhoneKeys /\ k # ErasedKey /\ d.key # ErasedKey
      /\ bonded \in BOOLEAN /\ BondNum \in Slots
  BY HidUnlockAssumption DEF HidIInv, HidTypeOK, HidRecord, PhoneKeys, Slots
<1>2. HasRefreshed(k, d)
  BY <1>1, BondRefreshEffect
<1>3. /\ LastOnly(nv')
      /\ ~app => nv' = nv
      /\ app => nv'[BondNum].key = IF Holds(nv, k) THEN d.key ELSE k
  BY <1>1, <1>2, RefreshEffect DEF HasRefreshed
<1>4. table' \in Table /\ table' = nv' /\ dev' \in HidRecord /\ ~dev'.active
  BY <1>2, <1>3 DEF HasRefreshed, LastOnly
<1>5. (Holds(nv, k) <=> nv[BondNum].key = k) /\ (Holds(nv, d.key) <=> nv[BondNum].key = d.key)
  BY <1>1, LastHolds
<1>6. bonded => nv[BondNum].key = d.key
  BY <1>5 DEF HidIInv, BondedIsKnown
<1>7. CASE nv'[BondNum].key = k
  <2>1. dev'.key = k /\ bonded' = TRUE
    BY <1>2, <1>7 DEF HasRefreshed
  <2>2. Holds(nv', k)
    BY <1>1, <1>3, <1>7 DEF Holds, LastOnly
  <2>3. BondedIsKnown' /\ SettingsOfBond'
    BY <1>4, <1>7, <2>1, <2>2 DEF BondedIsKnown, SettingsOfBond, Holds
  <2> QED BY <1>1, <1>3, <1>4, <2>1, <2>3 DEF BondsAgain
<1>8. CASE nv'[BondNum].key # k
  <2>1. dev'.key = d.key /\ bonded' = bonded
    BY <1>2, <1>8 DEF HasRefreshed
  <2>2. nv'[BondNum].key \in {d.key, nv[BondNum].key}
    BY <1>3, <1>8
  <2>3. bonded => nv'[BondNum].key = d.key
    BY <1>6, <2>2
  <2>4. bonded => Holds(nv', d.key)
    BY <1>1, <1>3, <2>3 DEF Holds, LastOnly
  <2>5. BondedIsKnown'
    BY <1>4, <2>1, <2>4 DEF BondedIsKnown, Holds
  <2>6. SettingsOfBond'
    BY <2>1, <2>2 DEF HidIInv, SettingsOfBond
  <2> QED BY <1>1, <1>3, <1>4, <2>1, <2>5, <2>6 DEF BondsAgain
<1> QED BY <1>7, <1>8

(* Of the right types among them. *)
LEMMA BondsTyped ==
  ASSUME BondsAgain
  PROVE  /\ table' \in [Slots -> HidRecord] /\ nv' \in [Slots -> HidRecord]
         /\ dev' \in HidRecord /\ ~dev'.active /\ bonded' \in BOOLEAN
         /\ BondedIsKnown' /\ LastOnly(nv') /\ SettingsOfBond' /\ dev'.key # ErasedKey
BY DEF BondsAgain, LastOnly, Table

(* Settings with one field set are settings, and still of the same phone. *)
LEMMA SetFields ==
  ASSUME HidTypeOK, NEW b \in BOOLEAN, NEW s \in Levels
  PROVE  /\ [dev EXCEPT !.near = b] \in HidRecord /\ ~[dev EXCEPT !.near = b].active
         /\ [dev EXCEPT !.near = b].key = dev.key
         /\ [dev EXCEPT !.far = b] \in HidRecord /\ ~[dev EXCEPT !.far = b].active
         /\ [dev EXCEPT !.far = b].key = dev.key
         /\ [dev EXCEPT !.sens = s] \in HidRecord /\ ~[dev EXCEPT !.sens = s].active
         /\ [dev EXCEPT !.sens = s].key = dev.key
  BY DEF HidTypeOK, HidRecord

(* The switch turned: either the phone is asked to pair, and nothing is    *)
(* saved, or the settings are set.                                         *)
LEMMA SwitchKeepsBonds ==
  ASSUME HidIInv, NEW d \in HidRecord, ~d.active, d.key = dev.key, NEW on \in BOOLEAN,
         SetSwitch(d, on)
  PROVE  HidIInv'
<1>1. /\ app /\ UNCHANGED <<meter, peer, encrypted, app, paired, timers>> /\ posted' = "none"
      /\ pairing' \in BOOLEAN
  BY DEF SetSwitch, HidIInv, HidTypeOK
<1>2. BondsAgain
  <2>1. CASE on /\ ~bonded
    <3>1. dev' = d /\ UNCHANGED <<table, nv, bonded>>
      BY <2>1 DEF SetSwitch
    <3> QED BY <3>1 DEF BondsAgain, HidIInv, HidTypeOK, BondedIsKnown, SettingsOfBond, Holds,
                        LastOnly, Table
  <2>2. CASE ~(on /\ ~bonded)
    <3>1. BondRefresh(dev.key, d) /\ dev.key \in PhoneKeys
      BY <2>2 DEF SetSwitch, HidIInv, HidTypeOK, HidRecord, PhoneKeys
    <3> QED BY <3>1, RefreshKeepsBonds
  <2> QED BY <2>1, <2>2
<1> QED BY <1>1, <1>2, BondsTyped DEF HidIInv, HidTypeOK, meter, timers

(* A reading is added to the window, or ends it: the meter stays typed. *)
LEMMA CheckKeepsMeter ==
  ASSUME HidTypeOK, NEW r \in Readings, CheckRssi(r)
  PROVE  /\ verified' \in BOOLEAN /\ once' \in BOOLEAN
         /\ window' \in BoundedSeq(Readings, RSSI_SAMPLE_MAX - 1)
         /\ posted' \in {"none", "UNDEFENCE", "DEFENCE"}
<1> DEFINE first == ~verified /\ Holds(table, dev.key)
           w     == Append(IF first THEN <<>> ELSE window, r)
<1>1. verified \in BOOLEAN /\ once \in BOOLEAN /\ first \in BOOLEAN
      /\ window \in BoundedSeq(Readings, RSSI_SAMPLE_MAX - 1)
  BY DEF HidTypeOK
<1>2. CASE ~(dev.near \/ dev.far)
  BY <1>2, EmptyWindow DEF CheckRssi
<1>3. CASE dev.near \/ dev.far
  <2>1. /\ verified' = (verified \/ first)
        /\ IF ~verified' THEN posted' = "none" /\ UNCHANGED <<window, once>>
           ELSE IF Len(w) < RSSI_SAMPLE_MAX
           THEN window' = w /\ posted' = "none" /\ UNCHANGED once
           ELSE WindowFull(w)
    BY <1>3 DEF CheckRssi
  <2>2. verified' \in BOOLEAN
    BY <2>1
  <2>3. w \in Seq(Readings)
    <3>1. PICK m \in 0 .. RSSI_SAMPLE_MAX - 1 : window \in [1 .. m -> Readings]
      BY <1>1 DEF BoundedSeq, SeqOf
    <3>2. m \in Nat
      BY DEF RSSI_SAMPLE_MAX
    <3>3. window \in Seq(Readings)
      BY <3>1, <3>2
    <3> QED BY <3>3
  <2> HIDE DEF w, first
  <2>4. CASE ~verified'
    BY <1>1, <2>1, <2>2, <2>4
  <2>5. CASE verified' /\ Len(w) < RSSI_SAMPLE_MAX
    <3>1. window' = w /\ posted' = "none" /\ once' = once
      BY <2>1, <2>5
    <3>n. Len(w) \in Nat /\ Len(w) < RSSI_SAMPLE_MAX
      BY <2>3, <2>5
    <3>l. Len(w) \in 0 .. RSSI_SAMPLE_MAX - 1
      <4>1. \A n \in Nat : n < RSSI_SAMPLE_MAX => n \in 0 .. RSSI_SAMPLE_MAX - 1
        BY DEF RSSI_SAMPLE_MAX
      <4> QED BY <3>n, <4>1
    <3>2. w \in [1 .. Len(w) -> Readings] /\ Len(w) \in 0 .. RSSI_SAMPLE_MAX - 1
      BY <2>3, <3>l
    <3>3. w \in BoundedSeq(Readings, RSSI_SAMPLE_MAX - 1)
      BY <3>2 DEF BoundedSeq, SeqOf
    <3> QED BY <1>1, <2>2, <3>1, <3>3
  <2>6. CASE verified' /\ ~(Len(w) < RSSI_SAMPLE_MAX)
    <3>1. WindowFull(w)
      BY <2>1, <2>6
    <3> QED BY <1>1, <2>2, <3>1, EmptyWindow DEF WindowFull
  <2> QED BY <2>2, <2>4, <2>5, <2>6
<1> QED BY <1>2, <1>3

(* The end of the link saves the settings over the record of their key, in *)
(* the last slot, or nothing.                                              *)
LEMMA EndSaves ==
  ASSUME HidIInv, Disconnect
  PROVE  /\ table' \in Table /\ LastOnly(nv') /\ nv'[BondNum].key = nv[BondNum].key
<1>1. CASE bonded /\ \E i \in Slots : table[i].key = dev.key
  <2>1. /\ table = nv /\ LastOnly(nv) /\ dev.key \in PhoneKeys /\ dev \in HidRecord
        /\ Holds(nv, dev.key)
    BY <1>1 DEF HidIInv, BondedIsKnown, HidTypeOK, HidRecord, PhoneKeys
  <2>2. nv[BondNum].key = dev.key
    BY <2>1, LastHolds
  <2> DEFINE r == [dev EXCEPT !.active = TRUE]
  <2>3. r \in HidRecord /\ r.active /\ r.key = dev.key
    BY <2>1 DEF HidRecord
  <2>4. ConfigInfoSave(nv, dev.key, dev) = Put(nv, r)
    BY <2>1, <2>2, ConfigEffect
  <2> HIDE DEF r
  <2>5. LastOnly(Put(nv, r)) /\ Put(nv, r)[BondNum] = r
    BY <2>1, <2>3, PutEffect
  <2>6. table' = Put(nv, r) /\ nv' = table'
    BY <1>1, <2>1, <2>4 DEF Disconnect
  <2> QED BY <2>2, <2>3, <2>5, <2>6 DEF LastOnly
<1>2. CASE ~(bonded /\ \E i \in Slots : table[i].key = dev.key)
  BY <1>2 DEF Disconnect, HidIInv, HidTypeOK, Table
<1> QED BY <1>1, <1>2

(* Every step keeps the invariant. *)
LEMMA HidStepIInv == HidIInv /\ [HidNext]_hidVars => HidIInv'
<1> SUFFICES ASSUME HidIInv, [HidNext]_hidVars PROVE HidIInv'
  OBVIOUS
<1>t. HidTypeOK
  BY DEF HidIInv
<1>b. ASSUME UNCHANGED bonds
      PROVE  BondsAgain
  BY <1>b DEF bonds, BondsAgain, HidIInv, HidTypeOK, Table, LastOnly, BondedIsKnown,
              SettingsOfBond, Holds
<1>1. ASSUME UNCHANGED bonds,
             meter' = meter \/ (verified' \in BOOLEAN /\ once' \in BOOLEAN
                              /\ window' \in BoundedSeq(Readings, RSSI_SAMPLE_MAX - 1)),
             UNCHANGED <<paired>>, peer' \in Phones \cup {NoPeer}, encrypted' \in BOOLEAN,
             app' \in BOOLEAN, pairing' \in BOOLEAN, poll' \in BOOLEAN, delay' \in BOOLEAN,
             posted' \in {"none", "UNDEFENCE", "DEFENCE"}
      PROVE  HidIInv'
  BY <1>1, <1>b, BondsTyped DEF HidIInv, HidTypeOK, meter
<1>2. ASSUME NEW k \in Phones, Connect(k)
      PROVE  HidIInv'
  BY <1>t, <1>1, <1>2 DEF Connect, HidTypeOK, meter, timers
<1>3. CASE AppAuthenticates \/ AppDisconnected \/ StartPolling
  BY <1>t, <1>1, <1>3
  DEF AppAuthenticates, AppDisconnected, StartPolling, HidTypeOK, meter, timers, link
<1>4. CASE SlaveEncrypt
  <2>1. /\ UNCHANGED <<meter, peer, app, pairing, poll>> /\ posted' = "none"
        /\ encrypted' = TRUE /\ paired' = paired \cup {peer} /\ peer \in Phones
        /\ delay' \in BOOLEAN
    BY <1>t, <1>4 DEF SlaveEncrypt, HidTypeOK, Holds
  <2>2. BondRefresh(peer, dev) /\ dev \in HidRecord /\ ~dev.active /\ peer \in PhoneKeys
    BY <1>t, <1>4, <2>1 DEF SlaveEncrypt, HidTypeOK, PhoneKeys
  <2>3. BondsAgain
    BY <2>2, RefreshKeepsBonds
  <2> QED BY <1>t, <2>1, <2>3, BondsTyped DEF HidIInv, HidTypeOK, meter
<1>5. CASE BondFail
  <2>1. dev' \in HidRecord /\ ~dev'.active /\ dev'.key = dev.key
    BY <1>t, <1>5 DEF BondFail, HidTypeOK, HidRecord
  <2> QED BY <1>5, <2>1
          DEF BondFail, HidIInv, HidTypeOK, meter, link, timers, BondedIsKnown, LastOnly,
              SettingsOfBond, Holds
<1>6. CASE Disconnect
  <2>1. /\ bonded' = FALSE /\ verified' = FALSE /\ window' = <<>> /\ once' = FALSE
        /\ peer' = NoPeer /\ encrypted' = FALSE /\ pairing' = FALSE /\ poll' = FALSE
        /\ UNCHANGED <<app, paired, delay>> /\ posted' \in {"none", "DEFENCE"}
    BY <1>6 DEF Disconnect
  <2>2. dev' \in HidRecord /\ ~dev'.active /\ dev'.key = dev.key
    BY <1>t, <1>6 DEF Disconnect, HidTypeOK, HidRecord
  <2>3. table' \in Table /\ LastOnly(nv') /\ nv'[BondNum].key = nv[BondNum].key
    BY <1>6, EndSaves
  <2>4. BondsAgain
    BY <2>1, <2>2, <2>3 DEF BondsAgain, HidIInv, BondedIsKnown, SettingsOfBond
  <2> QED BY <1>t, <2>1, <2>4, BondsTyped, EmptyWindow DEF HidIInv, HidTypeOK
<1>7. ASSUME NEW s \in Levels, SetSensitivity(s)
      PROVE  HidIInv'
  <2>1. /\ app /\ BondRefresh(dev.key, [dev EXCEPT !.sens = s])
        /\ UNCHANGED <<meter, link, timers>> /\ posted' = "none"
    BY <1>7 DEF SetSensitivity
  <2> DEFINE d == [dev EXCEPT !.sens = s]
  <2>2. d \in HidRecord /\ ~d.active /\ d.key = dev.key /\ dev.key \in PhoneKeys
    BY <1>t, SetFields DEF HidIInv, HidTypeOK, HidRecord, PhoneKeys
  <2> HIDE DEF d
  <2>3. BondRefresh(dev.key, d)
    BY <2>1 DEF d
  <2>4. BondsAgain
    BY <2>2, <2>3, RefreshKeepsBonds
  <2> QED BY <1>t, <2>1, <2>4, BondsTyped DEF HidIInv, HidTypeOK, meter, link, timers
<1>8. ASSUME NEW on \in BOOLEAN, SetNear(on) \/ SetFar(on)
      PROVE  HidIInv'
  <2>1. CASE SetNear(on)
    <3> DEFINE d == [dev EXCEPT !.near = on]
    <3>1. d \in HidRecord /\ ~d.active /\ d.key = dev.key /\ SetSwitch(d, on)
      BY <1>t, <2>1 DEF SetNear, HidTypeOK, HidRecord
    <3> HIDE DEF d
    <3> QED BY <3>1, SwitchKeepsBonds
  <2>2. CASE SetFar(on)
    <3> DEFINE d == [dev EXCEPT !.far = on]
    <3>1. d \in HidRecord /\ ~d.active /\ d.key = dev.key /\ SetSwitch(d, on)
      BY <1>t, <2>2 DEF SetFar, HidTypeOK, HidRecord
    <3> HIDE DEF d
    <3> QED BY <3>1, SwitchKeepsBonds
  <2> QED BY <1>8, <2>1, <2>2
<1>9. CASE BondInfoReset
  <2>1. BondsAgain
    BY <1>9, EmptyHolds
    DEF BondInfoReset, BondsAgain, HidIInv, HidTypeOK, BondedIsKnown, SettingsOfBond
  <2> QED BY <1>t, <1>9, <2>1, BondsTyped DEF BondInfoReset, HidIInv, HidTypeOK, meter, timers
<1>10. ASSUME NEW r \in Readings, CheckRssi(r)
       PROVE  HidIInv'
  <2>1. UNCHANGED <<bonds, link, timers>>
    BY <1>10 DEF CheckRssi
  <2>2. /\ verified' \in BOOLEAN /\ once' \in BOOLEAN
        /\ window' \in BoundedSeq(Readings, RSSI_SAMPLE_MAX - 1)
        /\ posted' \in {"none", "UNDEFENCE", "DEFENCE"}
    BY <1>10, CheckKeepsMeter, <1>t
  <2> QED BY <1>t, <1>1, <2>1, <2>2 DEF HidTypeOK, link, timers
<1>11. CASE Reboot
  <2>1. BondsAgain
    BY <1>11, EmptyHolds, HidUnlockAssumption
    DEF Reboot, BondsAgain, HidIInv, BondedIsKnown, SettingsOfBond, BondAtLoad
  <2> QED BY <1>t, <1>11, <2>1, BondsTyped, EmptyWindow DEF Reboot, HidIInv, HidTypeOK
<1>12. CASE UNCHANGED hidVars
  BY <1>t, <1>1, <1>12 DEF hidVars, bonds, meter, link, timers, HidTypeOK
<1> QED
  BY <1>2, <1>3, <1>4, <1>5, <1>6, <1>7, <1>8, <1>9, <1>10, <1>11, <1>12 DEF HidNext

-----------------------------------------------------------------------------
(* HidUnlock: the theorems.                                                *)

(* The invariant holds of every behaviour. *)
THEOREM HidInvariance == HidSpec => []HidIInv
<1>1. HidInit => HidIInv
  BY HidInitIInv
<1>2. HidIInv /\ [HidNext]_hidVars => HidIInv'
  BY HidStepIInv
<1> QED
  BY <1>1, <1>2, PTL DEF HidSpec

(* While there is a bond its key is in the table, and that is the one in   *)
(* flash.                                                                  *)
THEOREM BondIsKnown == HidSpec => []BondedIsKnown
<1>1. HidIInv => BondedIsKnown
  BY DEF HidIInv
<1> QED
  BY <1>1, HidInvariance, PTL

(* A data point sets settings of the key that is in use: no bond is lost,  *)
(* if any key has come.                                                    *)
LEMMA SetLosesNone ==
  ASSUME HidIInv, NEW d \in HidRecord, d.key = dev.key, BondRefresh(dev.key, d),
         NEW k \in Phones, Holds(nv, k), ~NoKeyYet
  PROVE  Holds(nv', k)
<1>1. /\ dev.key \in PhoneKeys /\ k \in PhoneKeys /\ LastOnly(nv) /\ k # ErasedKey
      /\ nv' = Refreshed(dev.key, d)
  BY HidUnlockAssumption DEF HidIInv, HidTypeOK, HidRecord, PhoneKeys, BondRefresh
<1>2. nv[BondNum].key = k
  BY <1>1, LastHolds
<1>3. dev.key = k
  BY <1>1, <1>2 DEF HidIInv, SettingsOfBond, NoKeyYet
<1>4. LastOnly(nv') /\ nv'[BondNum].key = k
  BY <1>1, <1>2, <1>3, RefreshEffect
<1>5. Holds(Refreshed(dev.key, d), k)
  BY <1>1, <1>4, LastHolds
<1> QED BY <1>1, <1>5

(* A step that loses a bond is an unbind, or saves the key of the phone on *)
(* the link, or no key has come yet.                                       *)
LEMMA BondsStep ==
  ASSUME HidIInv, [HidNext]_hidVars, NEW k \in Phones, Holds(nv, k), ~Holds(nv', k)
  PROVE  \/ nv' = ErasedTable /\ ~app'
         \/ app /\ ~Holds(nv, peer) /\ Holds(nv', peer)
         \/ app /\ NoKeyYet
<1>n. nv' # nv
  OBVIOUS
<1>t. HidTypeOK
  BY DEF HidIInv
<1>k. k \in PhoneKeys /\ k # ErasedKey /\ LastOnly(nv) /\ nv[BondNum].key = k
  BY LastHolds, HidUnlockAssumption DEF HidIInv, PhoneKeys
<1>1. CASE SlaveEncrypt
  <2>1. /\ BondRefresh(peer, dev) /\ peer \in PhoneKeys /\ dev \in HidRecord
    BY <1>1, <1>t DEF SlaveEncrypt, HidTypeOK, PhoneKeys
  <2>2. nv' = Refreshed(peer, dev)
    BY <2>1 DEF BondRefresh
  <2>3. app
    BY <1>k, <1>n, <2>1, <2>2, RefreshEffect
  <2>4. LastOnly(nv') /\ nv'[BondNum].key = IF Holds(nv, peer) THEN dev.key ELSE peer
    BY <1>k, <2>1, <2>2, <2>3, RefreshEffect
  <2>5. CASE Holds(nv, peer)
    <3>1. dev.key # k
      <4>1. dev.key = k => Holds(Refreshed(peer, dev), k)
        BY <1>k, <2>2, <2>4, <2>5, LastHolds
      <4> QED BY <2>2, <4>1
    <3>2. dev.key = ZeroKey
      BY <1>k, <3>1 DEF HidIInv, SettingsOfBond
    <3> QED BY <2>3, <3>2 DEF NoKeyYet
  <2>6. CASE ~Holds(nv, peer)
    <3>1. Holds(Refreshed(peer, dev), peer)
      BY <2>1, <2>2, <2>4, <2>6, LastHolds
    <3> QED BY <2>2, <2>3, <2>6, <3>1
  <2> QED BY <2>5, <2>6
<1>2. CASE Disconnect
  <2>1. LastOnly(nv') /\ nv'[BondNum].key = k
    BY <1>2, <1>k, EndSaves
  <2>2. PICK t : t = nv'
    OBVIOUS
  <2>3. Holds(t, k)
    BY <1>k, <2>1, <2>2, LastHolds
  <2> QED BY <2>2, <2>3
<1>3. ASSUME NEW s \in Levels, SetSensitivity(s)
      PROVE  app /\ NoKeyYet
  <2> DEFINE d == [dev EXCEPT !.sens = s]
  <2>1. d \in HidRecord /\ d.key = dev.key /\ BondRefresh(dev.key, d) /\ app
    BY <1>3, <1>t, SetFields DEF SetSensitivity
  <2> HIDE DEF d
  <2> QED BY <2>1, SetLosesNone
<1>4. ASSUME NEW d \in HidRecord, d.key = dev.key, NEW on \in BOOLEAN, SetSwitch(d, on)
      PROVE  app /\ NoKeyYet
  BY <1>4, <1>n, SetLosesNone DEF SetSwitch
<1>5. ASSUME NEW on \in BOOLEAN, SetNear(on) \/ SetFar(on)
      PROVE  app /\ NoKeyYet
  <2>1. CASE SetNear(on)
    <3> DEFINE d == [dev EXCEPT !.near = on]
    <3>1. d \in HidRecord /\ d.key = dev.key /\ SetSwitch(d, on)
      BY <1>t, <2>1 DEF SetNear, HidTypeOK, HidRecord
    <3> HIDE DEF d
    <3> QED BY <3>1, <1>4
  <2>2. CASE SetFar(on)
    <3> DEFINE d == [dev EXCEPT !.far = on]
    <3>1. d \in HidRecord /\ d.key = dev.key /\ SetSwitch(d, on)
      BY <1>t, <2>2 DEF SetFar, HidTypeOK, HidRecord
    <3> HIDE DEF d
    <3> QED BY <3>1, <1>4
  <2> QED BY <1>5, <2>1, <2>2
<1>6. CASE BondInfoReset
  BY <1>6 DEF BondInfoReset
<1> QED
  BY <1>n, <1>1, <1>2, <1>3, <1>5, <1>6
  DEF HidNext, hidVars, bonds, Connect, AppAuthenticates, StartPolling, BondFail,
      AppDisconnected, CheckRssi, Reboot

(* A bonded phone stays known until an unbind, until the key of another    *)
(* phone is saved, or until an application is served although no key has   *)
(* come since the device started.                                          *)
THEOREM BondsAreKept == HidSpec => BondsSurvive
<1>1. HidIInv /\ [HidNext]_hidVars =>
        [\A k \in Phones : Holds(nv, k) /\ ~Holds(nv', k) =>
           \/ nv' = ErasedTable /\ ~app'
           \/ app /\ ~Holds(nv, peer) /\ Holds(nv', peer)
           \/ app /\ NoKeyYet]_hidVars
  BY BondsStep
<1> QED
  BY <1>1, HidInvariance, PTL DEF HidSpec, BondsSurvive

(* A key that comes while the application is authenticated is in flash     *)
(* afterwards, unless it was there and no key has come since the start.    *)
THEOREM NewKeyIsSaved == HidSpec => KeyIsSaved
<1>1. ASSUME HidIInv, [HidNext]_hidVars, encrypted', ~encrypted, app,
             ~(Holds(nv, peer) /\ NoKeyYet)
      PROVE  Holds(nv', peer)
  <2>1. SlaveEncrypt
    BY <1>1
    DEF HidNext, hidVars, link, Connect, AppAuthenticates, StartPolling, BondFail, Disconnect,
        AppDisconnected, SetSensitivity, SetNear, SetFar, SetSwitch, BondInfoReset, CheckRssi,
        Reboot
  <2>2. /\ nv' = Refreshed(peer, dev) /\ peer \in PhoneKeys /\ dev \in HidRecord /\ LastOnly(nv)
        /\ peer # ErasedKey
    BY <1>1, <2>1, HidUnlockAssumption DEF SlaveEncrypt, BondRefresh, HidIInv, HidTypeOK, PhoneKeys
  <2>3. Holds(nv, peer) => dev.key = peer
    BY <1>1, <2>2, LastHolds DEF HidIInv, SettingsOfBond, NoKeyYet
  <2>4. LastOnly(Refreshed(peer, dev)) /\ Refreshed(peer, dev)[BondNum].key = peer
    BY <1>1, <2>2, <2>3, RefreshEffect
  <2>5. Holds(Refreshed(peer, dev), peer)
    BY <2>2, <2>4, LastHolds
  <2> QED BY <2>2, <2>5
<1>2. HidIInv /\ [HidNext]_hidVars =>
        [/\ encrypted' /\ ~encrypted /\ app
         /\ ~(Holds(nv, peer) /\ NoKeyYet)
         => Holds(nv', peer)]_hidVars
  BY <1>1
<1> QED
  BY <1>2, HidInvariance, PTL DEF HidSpec, KeyIsSaved
=============================================================================
