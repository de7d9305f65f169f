----------------------------- MODULE BleOtaProofs -----------------------------
(***************************************************************************)
(* Proofs for BleOta, for all files, slots and sectors.                    *)
(*                                                                         *)
(* That only a whole image becomes bootable is a matter of the operations  *)
(* a handler has still to do (SafeOps): one that writes the first page of  *)
(* the slot is ready to do so, with the rest of the image in place, and    *)
(* nothing before it but the erasure of that page.                         *)
(*                                                                         *)
(* Four more invariants follow, each on top of that one: the places that   *)
(* records keep and the reach of operations (SInv), the versions (VInv),   *)
(* what is recorded of an update (PInv), and what the slot holds of one    *)
(* that was not resumed (FInv).                                            *)
(***************************************************************************)
EXTENDS BleOta, SequenceTheorems, TLAPS

Op == [op : {"erase"}, units : SUBSET Units]
        \cup [op : {"write"}, units : SUBSET Units, data : Packet]
        \cup [op : {"eraseInfo"}]
        \cup [op : {"writeInfo"}, record : InfoRecord]

\* The slot st holds image p but for its first page.
RestIs(st, p) ==
  p \in Files /\ Length[p] <= SlotPkgs /\ \A u \in 1 .. Length[p] - 1 : st[u] = p

WritesFirst(o) == o.op = "write" /\ 0 \in o.units

SafeOps(st, ops) ==
  \A i \in 1 .. Len(ops) : WritesFirst(ops[i]) =>
    /\ RestIs(st, ops[i].data)
    /\ \A j \in 1 .. i - 1 : ops[j] = Erase({0})

Types ==
  /\ state \in {"UNKNOWN", "FILE_INFO", "FILE_OFFSET_REQ", "DATA", "END"}
  /\ pkgs \in 0 .. SlotPkgs /\ len \in 0 .. SlotPkgs
  /\ crc \in Seq(Packet) /\ Len(crc) = len
  /\ file \in Files \cup {Other}
  /\ old \in InfoRecord /\ info \in InfoRecord
  /\ store \in [Units -> Packet]
  /\ runs \in Files \cup {Factory}
  /\ todo \in Seq(Op)
  /\ due \in BOOLEAN

\* How far an update has come, and that its file was accepted.
Progress ==
  /\ state \in {"FILE_OFFSET_REQ", "DATA", "END"} => file \in Files /\ Length[file] <= SlotPkgs
  /\ state \in {"FILE_INFO", "FILE_OFFSET_REQ"} => pkgs = 0
  /\ state \in {"DATA", "END"} => pkgs <= len

IInv == Types /\ Progress /\ SafeOps(store, todo)

-----------------------------------------------------------------------------
(* Facts about records, units and sequences of operations.                 *)

(* The slot and the sector after it have these packets. *)
LEMMA UnitFacts ==
  /\ 0 \in Units
  /\ \A u \in 0 .. SlotPkgs - 1 : u \in Units
  /\ \A u \in Units : SectorOf(u) \subseteq Units
  BY BleOtaAssumption DEF Units, SectorOf

(* An erased and a cleared record are records. *)
LEMMA InfoFacts ==
  /\ BlankInfo \in InfoRecord /\ ZeroInfo \in InfoRecord
  /\ SlotPkgs \in 0 .. BlankLen
  BY BleOtaAssumption DEF BlankInfo, ZeroInfo, InfoRecord, BlankLen, Packet

(* Saving a record is two operations, neither of which touches the slot. *)
LEMMA SaveFacts ==
  ASSUME NEW r \in InfoRecord
  PROVE  /\ InfoSave(r) \in Seq(Op) /\ Len(InfoSave(r)) = 2
         /\ \A i \in 1 .. 2 : ~WritesFirst(InfoSave(r)[i])
<1>1. EraseInfo \in Op /\ EraseInfo.op = "eraseInfo"
  BY DEF EraseInfo, Op
<1>2. WriteInfo(r) \in Op /\ WriteInfo(r).op = "writeInfo"
  BY DEF WriteInfo, Op
<1>3. /\ InfoSave(r) \in Seq(Op) /\ Len(InfoSave(r)) = 2
      /\ InfoSave(r)[1] = EraseInfo /\ InfoSave(r)[2] = WriteInfo(r)
  BY <1>1, <1>2 DEF InfoSave
<1>4. ~WritesFirst(EraseInfo) /\ ~WritesFirst(WriteInfo(r))
  BY <1>1, <1>2 DEF WritesFirst
<1> QED
  BY <1>3, <1>4

(* Operations followed by the save of a record are as safe as they were. *)
LEMMA SafeThenSave ==
  ASSUME NEW s \in Seq(Op), NEW r \in InfoRecord, SafeOps(store, s)
  PROVE  s \o InfoSave(r) \in Seq(Op) /\ SafeOps(store, s \o InfoSave(r))
<1> DEFINE t == s \o InfoSave(r)
<1>1. /\ t \in Seq(Op) /\ Len(t) = Len(s) + 2
      /\ \A i \in 1 .. Len(s) : t[i] = s[i]
      /\ \A i \in Len(s) + 1 .. Len(s) + 2 : t[i] = InfoSave(r)[i - Len(s)]
  BY SaveFacts, ConcatProperties
<1>2. Len(s) \in Nat
  BY LenProperties
<1>3. \A i \in Len(s) + 1 .. Len(s) + 2 : ~WritesFirst(t[i])
  BY <1>1, <1>2, SaveFacts
<1>4. ASSUME NEW i \in 1 .. Len(t), WritesFirst(t[i])
      PROVE  RestIs(store, t[i].data) /\ \A j \in 1 .. i - 1 : t[j] = Erase({0})
  <2>1. i \in 1 .. Len(s)
    BY <1>1, <1>2, <1>3, <1>4
  <2> QED
    BY <1>1, <1>2, <1>4, <2>1 DEF SafeOps
<1> QED
  BY <1>1, <1>4 DEF SafeOps

(* One operation that does not write the first page is safe, and so is none. *)
LEMMA SafeOne ==
  ASSUME NEW o \in Op, ~WritesFirst(o)
  PROVE  <<o>> \in Seq(Op) /\ SafeOps(store, <<o>>)
  BY DEF SafeOps

LEMMA SafeTwo ==
  ASSUME NEW o \in Op, NEW p \in Op, ~WritesFirst(o),
         WritesFirst(p) => RestIs(store, p.data) /\ o = Erase({0})
  PROVE  <<o, p>> \in Seq(Op) /\ SafeOps(store, <<o, p>>)
<1> DEFINE t == <<o, p>>
<1>1. t \in Seq(Op) /\ Len(t) = 2 /\ t[1] = o /\ t[2] = p
  OBVIOUS
<1>2. ASSUME NEW i \in 1 .. 2, WritesFirst(t[i])
      PROVE  RestIs(store, t[i].data) /\ \A j \in 1 .. i - 1 : t[j] = Erase({0})
  <2>1. i = 2
    BY <1>1, <1>2
  <2> QED
    BY <1>1, <1>2, <2>1
<1> HIDE DEF t
<1>3. SafeOps(store, t)
  BY <1>1, <1>2 DEF SafeOps
<1> QED
  BY <1>1, <1>3 DEF t

(* The operations of the handlers are operations. *)
LEMMA OpFacts ==
  /\ \A us \in SUBSET Units : Erase(us) \in Op /\ ~WritesFirst(Erase(us))
  /\ \A u \in Units, p \in Packet :
       /\ Write(u, p) \in Op /\ Write(u, p).data = p
       /\ WritesFirst(Write(u, p)) <=> u = 0
<1>1. ASSUME NEW us \in SUBSET Units
      PROVE  Erase(us) \in Op /\ ~WritesFirst(Erase(us))
  BY DEF Erase, Op, WritesFirst
<1>2. ASSUME NEW u \in Units, NEW p \in Packet
      PROVE  /\ Write(u, p) \in Op /\ Write(u, p).data = p
             /\ WritesFirst(Write(u, p)) <=> u = 0
  BY DEF Write, Op, WritesFirst
<1> QED
  BY <1>1, <1>2

(* The data a CRC of the slot is computed from are packets. *)
LEMMA FlashCrcFacts ==
  ASSUME Types, NEW n \in 0 .. SlotPkgs
  PROVE  FlashCrc(n) \in Seq(Packet) /\ Len(FlashCrc(n)) = n
<1>1. n \in Nat
  BY BleOtaAssumption
<1>2. old.page \in Packet
  BY DEF Types, InfoRecord
<1>3. \A i \in 1 .. n : i # 1 => store[i - 1] \in Packet
  <2>1. \A i \in 1 .. n : i - 1 \in Units
    BY <1>1, BleOtaAssumption DEF Units
  <2> QED
    BY <2>1 DEF Types
<1>4. FlashCrc(n) \in [1 .. n -> Packet]
  BY <1>2, <1>3 DEF FlashCrc
<1> QED
  BY <1>1, <1>4, IsASeq

-----------------------------------------------------------------------------
(* The invariant                                                           *)

LEMMA InitIInv == Init => IInv
<1> SUFFICES ASSUME Init PROVE IInv
  OBVIOUS
<1>1. Types
  <2>1. crc \in Seq(Packet) /\ Len(crc) = 0 /\ todo \in Seq(Op)
    BY EmptySeq DEF Init
  <2>2. pkgs \in 0 .. SlotPkgs /\ len \in 0 .. SlotPkgs
    BY BleOtaAssumption DEF Init
  <2>3. store \in [Units -> Packet]
    BY DEF Init, Packet
  <2> QED
    BY <2>1, <2>2, <2>3, InfoFacts DEF Init, Types
<1>2. Progress
  BY DEF Init, Progress
<1>3. SafeOps(store, todo)
  BY DEF Init, SafeOps
<1> QED
  BY <1>1, <1>2, <1>3 DEF IInv

(* An operation on the flash leaves the slot well typed, and those that follow
   safe: only the erasure of the first page precedes its writing. *)
LEMMA FlashStepIInv ==
  ASSUME IInv, FlashStep
  PROVE  IInv'
<1> USE DEF IInv
<1> DEFINE o == Head(todo)
<1>1. /\ o \in Op /\ o = todo[1]
      /\ todo' \in Seq(Op) /\ Len(todo) \in Nat \ {0} /\ Len(todo') = Len(todo) - 1
      /\ \A i \in 1 .. Len(todo') : todo'[i] = todo[i + 1]
  <2>1. todo \in Seq(Op) /\ todo # <<>> /\ todo' = Tail(todo)
    BY DEF Types, FlashStep
  <2> QED
    BY <2>1, HeadTailProperties, LenProperties, ElementOfSeq
<1>2. store' \in [Units -> Packet]
  <2>1. CASE o.op = "erase"
    <3>1. store' = [u \in Units |-> IF u \in o.units THEN Blank ELSE store[u]]
      BY <2>1 DEF FlashStep
    <3> QED
      BY <3>1 DEF Types, Packet
  <2>2. CASE o.op = "write"
    <3>1. store' = [u \in Units |-> IF u \in o.units
                                    THEN Programmed(store[u], o.data) ELSE store[u]]
      BY <2>2 DEF FlashStep
    <3>2. o.data \in Packet
      BY <1>1, <2>2 DEF Op
    <3> QED
      BY <3>1, <3>2 DEF Types, Packet, Programmed
  <2>3. CASE o.op \notin {"erase", "write"}
    <3>1. store' = store
      BY <2>3 DEF FlashStep
    <3> QED
      BY <3>1 DEF Types
  <2> QED
    BY <2>1, <2>2, <2>3
<1>3. info' \in InfoRecord
  <2>1. CASE o.op = "writeInfo"
    <3>1. o.record \in InfoRecord
      BY <1>1, <2>1 DEF Op
    <3> QED
      BY <2>1, <3>1 DEF FlashStep
  <2>2. CASE o.op = "eraseInfo"
    BY <2>2, InfoFacts DEF FlashStep
  <2>3. CASE o.op \notin {"eraseInfo", "writeInfo"}
    BY <2>3 DEF FlashStep, Types
  <2> QED
    BY <2>1, <2>2, <2>3
<1>4. Types'
  BY <1>1, <1>2, <1>3 DEF Types, FlashStep, ram
<1>5. Progress'
  BY DEF Progress, FlashStep, ram
<1>6. SafeOps(store', todo')
  <2> SUFFICES ASSUME NEW i \in 1 .. Len(todo'), WritesFirst(todo'[i])
               PROVE  /\ RestIs(store', todo'[i].data)
                      /\ \A j \in 1 .. i - 1 : todo'[j] = Erase({0})
    BY DEF SafeOps
  <2>1. /\ i + 1 \in 1 .. Len(todo) /\ WritesFirst(todo[i + 1])
        /\ todo'[i] = todo[i + 1] /\ 1 \in 1 .. (i + 1) - 1
    BY <1>1
  <2>2. /\ RestIs(store, todo[i + 1].data)
        /\ \A j \in 1 .. (i + 1) - 1 : todo[j] = Erase({0})
    BY <2>1 DEF SafeOps
  <2>3. o = Erase({0})
    BY <1>1, <2>1, <2>2
  <2>4. \A u \in Units : u # 0 => store'[u] = store[u]
    BY <2>3 DEF FlashStep, Erase
  <2>5. RestIs(store', todo[i + 1].data)
    <3> DEFINE p == todo'[i].data
    <3>1. /\ p \in Files /\ Length[p] <= SlotPkgs
          /\ \A u \in 1 .. Length[p] - 1 : store[u] = p
      BY <2>1, <2>2 DEF RestIs
    <3>2. \A u \in 1 .. Length[p] - 1 : u \in Units /\ u # 0
      BY <3>1, BleOtaAssumption DEF Units
    <3> QED
      BY <2>1, <2>4, <3>1, <3>2 DEF RestIs
  <2>6. \A j \in 1 .. i - 1 : todo'[j] = Erase({0})
    BY <1>1, <2>2
  <2> QED
    BY <2>1, <2>5, <2>6
<1> QED
  BY <1>4, <1>5, <1>6

(* A command ends with an exit that leaves everything else. *)
LEMMA RefusalIInv ==
  ASSUME IInv, Exit, UNCHANGED <<pkgs, len, crc, file, old, info, store, runs, todo>>
  PROVE  IInv'
  BY DEF IInv, Types, Progress, Exit

LEMMA ReqIInv ==
  ASSUME IInv, Req
  PROVE  IInv'
<1>1. Types'
  <2>1. crc' \in Seq(Packet) /\ Len(crc') = 0
    BY EmptySeq DEF Req, Enter
  <2> QED
    BY <2>1, BleOtaAssumption DEF IInv, Types, Req, Enter
<1>2. Progress'
  BY DEF Req, Enter, Progress
<1>3. SafeOps(store', todo')
  BY DEF IInv, Req
<1> QED
  BY <1>1, <1>2, <1>3 DEF IInv

(* The file is taken over whether or not it is accepted. *)
LEMMA FileInfoIInv ==
  ASSUME IInv, NEW f \in Files, FileInfo(f)
  PROVE  IInv'
<1>1. Types'
  BY DEF IInv, Types, FileInfo, Exit
<1>2. Progress'
  BY DEF IInv, Progress, FileInfo, Exit, Fits
<1>3. SafeOps(store', todo')
  BY DEF IInv, FileInfo
<1> QED
  BY <1>1, <1>2, <1>3 DEF IInv

(* What a resumed update starts with has been read from the slot. *)
LEMMA FileOffsetIInv ==
  ASSUME IInv, NEW w, FileOffset(w)
  PROVE  IInv'
<1> USE DEF IInv
<1>1. file \in Files /\ Length[file] <= SlotPkgs /\ pkgs = 0
  BY DEF FileOffset, Progress
<1>2. old' \in InfoRecord
  <2>1. old \in InfoRecord /\ old' = [old EXCEPT !.md5 = file] /\ file \in Packet
    BY <1>1 DEF Types, FileOffset, Packet
  <2> QED
    BY <2>1 DEF InfoRecord
<1>3. len' \in 0 .. SlotPkgs /\ crc' \in Seq(Packet) /\ Len(crc') = len'
  <2>1. CASE Resumes(w)
    <3>1. old.len \in 0 .. SlotPkgs /\ old.crc = FlashCrc(old.len)
      BY <2>1, BleOtaAssumption DEF Resumes, Types, InfoRecord, BlankLen
    <3>2. len' = old.len /\ crc' = old.crc
      BY <2>1 DEF FileOffset
    <3> QED
      BY <3>1, <3>2, FlashCrcFacts
  <2>2. CASE ~Resumes(w)
    <3>1. len' = 0 /\ crc' = <<>>
      BY <2>2 DEF FileOffset
    <3> QED
      BY <3>1, EmptySeq, BleOtaAssumption
  <2> QED
    BY <2>1, <2>2
<1>4. todo' \in Seq(Op) /\ SafeOps(store', todo')
  <2>1. todo' = InfoSave(old')
    BY DEF FileOffset
  <2> QED
    BY <1>2, <2>1, SaveFacts DEF SafeOps
<1>5. Types'
  BY <1>2, <1>3, <1>4 DEF Types, FileOffset
<1>6. Progress'
  BY <1>1, <1>3, BleOtaAssumption DEF Progress, FileOffset
<1> QED
  BY <1>4, <1>5, <1>6

(* A packet leaves room in the slot, and a CRC of one packet more. *)
LEMMA PacketFacts ==
  ASSUME IInv, TakePacket
  PROVE  /\ file \in Files /\ Length[file] <= SlotPkgs
         /\ len \in 0 .. SlotPkgs - 1 /\ len \in Units
         /\ len' \in 0 .. SlotPkgs /\ pkgs' \in 0 .. SlotPkgs /\ pkgs' <= len'
         /\ crc' \in Seq(Packet) /\ Len(crc') = len'
<1> USE DEF IInv
<1>1. file \in Files /\ Length[file] <= SlotPkgs /\ pkgs <= len
  BY DEF TakePacket, Progress
<1>2. Length[file] \in Nat /\ SlotPkgs \in Nat
  BY <1>1, BleOtaAssumption
<1>3. len \in 0 .. SlotPkgs - 1
  BY <1>1, <1>2 DEF TakePacket, Types
<1>4. len' \in 0 .. SlotPkgs /\ pkgs' \in 0 .. SlotPkgs /\ pkgs' <= len'
  BY <1>1, <1>2, <1>3 DEF TakePacket, Types
<1>5. crc' \in Seq(Packet) /\ Len(crc') = len'
  <2>1. crc \in Seq(Packet) /\ Len(crc) = len /\ file \in Packet
    BY <1>1 DEF Types, Packet
  <2> QED
    BY <2>1, AppendProperties DEF TakePacket
<1> QED
  BY <1>1, <1>3, <1>4, <1>5, UnitFacts

(* The first packet's operations touch the pages behind the first one. *)
LEMMA FirstDataIInv ==
  ASSUME IInv, FirstData
  PROVE  IInv'
<1> USE DEF IInv
<1>1. TakePacket
  BY DEF FirstData
<1>2. old' \in InfoRecord
  <2>1. old \in InfoRecord /\ old' = [old EXCEPT !.page = file] /\ file \in Packet
    BY <1>1, PacketFacts DEF Types, FirstData, Packet
  <2> QED
    BY <2>1 DEF InfoRecord
<1>3. todo' \in Seq(Op) /\ SafeOps(store', todo')
  <2> DEFINE us == SectorOf(0) \ {0}
  <2>1. todo' = <<Erase(us)>> \o InfoSave(old') /\ store' = store
    BY <1>1 DEF FirstData, TakePacket
  <2>2. us \in SUBSET Units
    BY UnitFacts
  <2>3. Erase(us) \in Op /\ ~WritesFirst(Erase(us))
    BY <2>2, OpFacts
  <2>4. <<Erase(us)>> \in Seq(Op) /\ SafeOps(store, <<Erase(us)>>)
    BY <2>3, SafeOne
  <2> QED
    BY <1>2, <2>1, <2>4, SafeThenSave
<1>4. Types'
  BY <1>1, <1>2, <1>3, PacketFacts DEF Types, FirstData, TakePacket
<1>5. Progress'
  BY <1>1, PacketFacts DEF Progress, FirstData, TakePacket
<1> QED
  BY <1>3, <1>4, <1>5

(* A later packet is not written to the first page. *)
LEMMA NextDataIInv ==
  ASSUME IInv, NextData
  PROVE  IInv'
<1> USE DEF IInv
<1>1. /\ TakePacket /\ len # 0 /\ file \in Packet /\ store' = store
      /\ old \in InfoRecord
  <2>1. TakePacket /\ len > 0 /\ store' = store
    BY DEF NextData, TakePacket
  <2>2. len # 0
    BY <2>1, BleOtaAssumption DEF Types
  <2> QED
    BY <2>1, <2>2, PacketFacts DEF Types, Packet
<1>2. Write(len, file) \in Op /\ ~WritesFirst(Write(len, file))
  BY <1>1, PacketFacts, OpFacts
<1>3. /\ old' \in InfoRecord
      /\ todo' \in Seq(Op) /\ SafeOps(store', todo')
  <2>1. CASE CompletesSector
    <3>1. /\ old' = [old EXCEPT !.len = len', !.crc = crc']
          /\ todo' = <<Erase(NextSector), Write(len, file)>> \o InfoSave(old')
      BY <2>1 DEF NextData
    <3>2. len' \in 0 .. BlankLen /\ crc' \in Seq(Packet)
      BY <1>1, PacketFacts, BleOtaAssumption DEF BlankLen
    <3>3. old' \in InfoRecord
      BY <1>1, <3>1, <3>2 DEF InfoRecord
    <3>4. NextSector \in SUBSET Units
      BY DEF NextSector, SectorOf
    <3>5. Erase(NextSector) \in Op /\ ~WritesFirst(Erase(NextSector))
      BY <3>4, OpFacts
    <3> DEFINE s == <<Erase(NextSector), Write(len, file)>>
    <3>6. s \in Seq(Op) /\ SafeOps(store, s)
      BY <1>2, <3>5, SafeTwo
    <3> HIDE DEF s
    <3>7. s \o InfoSave(old') \in Seq(Op) /\ SafeOps(store, s \o InfoSave(old'))
      BY <3>3, <3>6, SafeThenSave
    <3> QED
      BY <1>1, <3>1, <3>3, <3>7 DEF s
  <2>2. CASE ~CompletesSector
    <3>1. old' = old /\ todo' = <<Write(len, file)>>
      BY <2>2 DEF NextData
    <3> QED
      BY <1>1, <1>2, <3>1, SafeOne
  <2> QED
    BY <2>1, <2>2
<1>4. state' \in {"DATA", "END"}
  BY DEF NextData, StateAfter
<1>5. Types'
  BY <1>1, <1>3, <1>4, PacketFacts DEF Types, TakePacket
<1>6. Progress'
  BY <1>1, <1>4, PacketFacts DEF Progress, TakePacket
<1> QED
  BY <1>3, <1>5, <1>6

(* What the end of an update has verified is what its last write completes. *)
LEMMA EndOkIInv ==
  ASSUME IInv, EndOk
  PROVE  IInv'
<1> USE DEF IInv
<1>1. /\ file \in Files /\ Length[file] <= SlotPkgs /\ len = Length[file]
      /\ Length[file] \in Nat \ {0, 1} /\ store' = store
  BY BleOtaAssumption DEF EndOk, Progress
<1>2. \A i \in 1 .. Length[file] : FlashCrc(Length[file])[i] = file
  BY <1>1 DEF EndOk, Verified, FileCrc
<1>3. old.page = file
  <2>1. 1 \in 1 .. Length[file]
    BY <1>1
  <2> QED
    BY <1>2, <2>1 DEF FlashCrc
<1>4. \A u \in 1 .. Length[file] - 1 : store[u] = file
  <2> SUFFICES ASSUME NEW u \in 1 .. Length[file] - 1 PROVE store[u] = file
    OBVIOUS
  <2>1. u + 1 \in 1 .. Length[file] /\ u + 1 # 1 /\ (u + 1) - 1 = u
    BY <1>1
  <2> QED
    BY <1>2, <2>1 DEF FlashCrc
<1>5. RestIs(store, file)
  BY <1>1, <1>4 DEF RestIs
<1>6. todo' \in Seq(Op) /\ SafeOps(store', todo')
  <2> DEFINE s == <<Erase({0}), Write(0, file)>>
  <2>1. todo' = s \o InfoSave(ZeroInfo)
    BY <1>3 DEF EndOk
  <2>2. {0} \in SUBSET Units /\ 0 \in Units /\ file \in Packet
    BY <1>1, UnitFacts DEF Packet
  <2>3. /\ Erase({0}) \in Op /\ ~WritesFirst(Erase({0}))
        /\ Write(0, file) \in Op /\ Write(0, file).data = file
    BY <2>2, OpFacts
  <2>4. s \in Seq(Op) /\ SafeOps(store, s)
    BY <1>5, <2>3, SafeTwo
  <2> HIDE DEF s
  <2> QED
    BY <1>1, <2>1, <2>4, InfoFacts, SafeThenSave
<1>7. Types'
  BY <1>6, InfoFacts DEF Types, EndOk, Exit
<1>8. Progress'
  BY DEF Progress, EndOk, Exit
<1> QED
  BY <1>6, <1>7, <1>8

LEMMA RestartIInv ==
  ASSUME IInv, Restart
  PROVE  IInv'
<1> USE DEF IInv
<1>1. store' \in [Units -> Packet] /\ runs' \in Files \cup {Factory}
  <2>1. CASE store[0] \in Files
    BY <2>1 DEF Restart, Boot, Packet
  <2>2. CASE store[0] \notin Files
    BY <2>2 DEF Restart, Boot, Types
  <2> QED
    BY <2>1, <2>2
<1>2. /\ crc' \in Seq(Packet) /\ Len(crc') = 0
      /\ todo' \in Seq(Op) /\ todo' = <<>>
  BY EmptySeq DEF Restart
<1>3. Types'
  <2>1. pkgs' \in 0 .. SlotPkgs /\ len' \in 0 .. SlotPkgs /\ len' = 0
    BY BleOtaAssumption DEF Restart
  <2>2. /\ state' = "UNKNOWN" /\ file' = Other /\ due' = FALSE
        /\ old' \in InfoRecord /\ info' \in InfoRecord
    BY DEF Restart, Types
  <2> QED
    BY <1>1, <1>2, <2>1, <2>2 DEF Types
<1>4. Progress'
  BY DEF Progress, Restart
<1>5. SafeOps(store', todo')
  BY <1>2 DEF SafeOps
<1> QED
  BY <1>3, <1>4, <1>5

LEMMA NextIInv == IInv /\ [Next]_vars => IInv'
<1> SUFFICES ASSUME IInv, [Next]_vars PROVE IInv'
  OBVIOUS
<1>1. CASE FlashStep
  BY <1>1, FlashStepIInv
<1>2. CASE Req
  BY <1>2, ReqIInv
<1>3. CASE Refuse \/ Disconnected \/ EndWrong
  BY <1>3, RefusalIInv DEF Refuse, Disconnected, EndWrong
<1>4. CASE \E f \in Files : FileInfo(f)
  BY <1>4, FileInfoIInv
<1>5. CASE \E w \in 0 .. SlotPkgs : FileOffset(w)
  BY <1>5, FileOffsetIInv
<1>6. CASE FirstData
  BY <1>6, FirstDataIInv
<1>7. CASE NextData
  BY <1>7, NextDataIInv
<1>8. CASE EndOk
  BY <1>8, EndOkIInv
<1>9. CASE ResetTimer \/ PowerLoss
  BY <1>9, RestartIInv DEF ResetTimer, PowerLoss
<1>10. CASE UNCHANGED vars
  BY <1>10 DEF vars, IInv, Types, Progress
<1> QED
  BY <1>1, <1>2, <1>3, <1>4, <1>5, <1>6, <1>7, <1>8, <1>9, <1>10 DEF Next

(* The inductive invariant holds throughout. *)
THEOREM Invariance == Spec => []IInv
  BY InitIInv, NextIInv, PTL DEF Spec

-----------------------------------------------------------------------------
(* What follows from it                                                    *)

(* The states of an update, its lengths and its packets are what they are
   meant to be, for all files and slots: a length never leaves the slot. *)
THEOREM TypeCorrect == Spec => []TypeOK
<1>1. IInv => TypeOK
  <2> SUFFICES ASSUME IInv PROVE TypeOK
    OBVIOUS
  <2>1. DOMAIN crc = 1 .. len
    BY LenProperties DEF IInv, Types
  <2>2. \A r \in {old, info} :
          r.len \in 0 .. BlankLen /\ r.md5 \in Packet /\ r.page \in Packet
    BY DEF IInv, Types, InfoRecord
  <2> QED
    BY <2>1, <2>2 DEF IInv, Types, Progress, TypeOK
<1> QED
  BY <1>1, Invariance, PTL

(* Whatever is begun, cut and resumed, the slot becomes bootable only by the
   write of a first page whose image is whole behind it. *)
THEOREM WholeBeforeBootable == Spec => OnlyWholeIsBootable
<1> DEFINE Becomes == store[0] \notin Files /\ store'[0] \in Files
           Whole == \A u \in 1 .. Length[store'[0]] - 1 : store[u] = store'[0]
<1>1. ASSUME IInv, [Next]_vars, Becomes
      PROVE  Whole
  <2>1. CASE FlashStep
    <3> DEFINE o == Head(todo)
    <3>1. /\ o \in Op /\ o = todo[1] /\ 1 \in 1 .. Len(todo)
      BY <1>1, <2>1, HeadTailProperties, LenProperties, ElementOfSeq DEF IInv, Types, FlashStep
    <3>2. o.op = "write" /\ 0 \in o.units /\ store'[0] = o.data
      <4>1. Blank \notin Files /\ Other \notin Files /\ 0 \in Units
        BY BleOtaAssumption, UnitFacts
      <4>2. o.op # "erase"
        BY <1>1, <2>1, <4>1 DEF FlashStep
      <4>3. o.op = "write"
        BY <1>1, <2>1, <4>2 DEF FlashStep
      <4>4. store'[0] = IF 0 \in o.units THEN Programmed(store[0], o.data) ELSE store[0]
        BY <2>1, <4>1, <4>3 DEF FlashStep
      <4> QED
        BY <1>1, <4>1, <4>3, <4>4 DEF Programmed
    <3>3. RestIs(store, o.data)
      BY <1>1, <3>1, <3>2 DEF IInv, SafeOps, WritesFirst
    <3> QED
      BY <3>2, <3>3 DEF RestIs
  <2>2. CASE ResetTimer \/ PowerLoss
    <3>1. store'[0] \notin Files
      BY <1>1, <2>2, UnitFacts, BleOtaAssumption DEF ResetTimer, PowerLoss, Restart, Boot
    <3> QED
      BY <1>1, <3>1
  <2>3. CASE UNCHANGED store
    BY <1>1, <2>3
  <2> QED
    BY <1>1, <2>1, <2>2, <2>3
       DEF Next, vars, Req, Refuse, Disconnected, FileInfo, FileOffset, TakePacket,
           FirstData, NextData, EndOk, EndWrong
<1>2. IInv /\ [Next]_vars => [Becomes => Whole]_vars
  BY <1>1
<1> QED
  BY <1>2, Invariance, PTL DEF Spec, OnlyWholeIsBootable

-----------------------------------------------------------------------------
(* Whole sectors.  A record keeps a place between two sectors, so data are  *)
(* resumed there; and only the last packet of a file that fills the slot    *)
(* completes the slot's last sector.                                        *)

PastSlot == SlotPkgs .. SlotPkgs + SectorPkgs - 1

\* The place a record keeps: the end of a sector, or what an erased one reads as.
IsPlace(n) == n = BlankLen \/ n % SectorPkgs = 0

OpKeepsPlace(o) == o.op = "writeInfo" => IsPlace(o.record.len)
OpKeepsNext(o) ==
  o.op \in {"erase", "write"} /\ o.units \cap PastSlot # {} => Length[file] = SlotPkgs

OpsKeep ==
  \A i \in 1 .. Len(todo) : OpKeepsPlace(todo[i]) /\ OpKeepsNext(todo[i])

SInv ==
  /\ IsPlace(old.len) /\ IsPlace(info.len)
  /\ OpsKeep
  /\ DataIsLeft

(* Division by the size of a sector. *)
LEMMA DivFacts ==
  ASSUME NEW n \in Nat
  PROVE  /\ n \div SectorPkgs \in Nat /\ n % SectorPkgs \in 0 .. SectorPkgs - 1
         /\ n = SectorPkgs * (n \div SectorPkgs) + (n % SectorPkgs)
  BY BleOtaAssumption

LEMMA MultipleFacts ==
  ASSUME NEW q \in Nat
  PROVE  /\ q * SectorPkgs \in Nat
         /\ (q * SectorPkgs) % SectorPkgs = 0 /\ (q * SectorPkgs) \div SectorPkgs = q
  BY BleOtaAssumption

LEMMA DivMonotone ==
  ASSUME NEW n \in Nat, NEW m \in Nat, n <= m
  PROVE  n \div SectorPkgs <= m \div SectorPkgs
  BY BleOtaAssumption

(* A packet that completes a sector is followed by the next one. *)
LEMMA CompleteFacts ==
  ASSUME len \in Nat, CompletesSector
  PROVE  /\ len + 1 = (len \div SectorPkgs + 1) * SectorPkgs
         /\ (len + 1) % SectorPkgs = 0
<1> DEFINE q == len \div SectorPkgs
<1>1. q \in Nat /\ len % SectorPkgs < SectorPkgs /\ len = SectorPkgs * q + (len % SectorPkgs)
  BY DivFacts, BleOtaAssumption
<1>2. (q + 1) * SectorPkgs = SectorPkgs * q + SectorPkgs
  BY <1>1, BleOtaAssumption
<1>3. len + 1 >= (q + 1) * SectorPkgs
  BY DEF CompletesSector
<1>4. len + 1 = (q + 1) * SectorPkgs
  <2> DEFINE t == SectorPkgs * q
             r == len % SectorPkgs
  <2>1. t \in Nat /\ r \in Nat
    BY <1>1, DivFacts, BleOtaAssumption
  <2>2. len = t + r /\ r < SectorPkgs /\ len + 1 >= t + SectorPkgs
    BY <1>1, <1>2, <1>3
  <2> HIDE DEF t, r
  <2>3. len + 1 = t + SectorPkgs
    BY <2>1, <2>2, BleOtaAssumption
  <2> QED
    BY <1>2, <2>3 DEF t
<1> QED
  BY <1>1, <1>4, MultipleFacts

(* The sector behind a packet that does not end the slot is the slot's. *)
LEMMA NextSectorFacts ==
  ASSUME len \in Nat, CompletesSector, len + 1 < SlotPkgs
  PROVE  NextSector \cap PastSlot = {}
<1> DEFINE q == len \div SectorPkgs + 1
           k == SlotPkgs \div SectorPkgs
<1>1. q \in Nat /\ k \in Nat /\ len + 1 = q * SectorPkgs /\ SlotPkgs = k * SectorPkgs
  BY CompleteFacts, DivFacts, BleOtaAssumption
<1>2. q < k
  <2>1. q <= k
    BY <1>1, MultipleFacts, DivMonotone
  <2>2. q # k
    BY <1>1, BleOtaAssumption
  <2> QED
    BY <1>1, <2>1, <2>2
<1>3. ASSUME NEW v \in NextSector, v \in PastSlot
      PROVE  FALSE
  <2>1. v \in Nat /\ v \div SectorPkgs = q
    BY <1>1, <1>3, MultipleFacts DEF NextSector, SectorOf, Units
  <2>2. SlotPkgs <= v
    BY <1>3, <2>1, BleOtaAssumption DEF PastSlot
  <2>3. k <= v \div SectorPkgs
    BY <2>1, <2>2, DivMonotone, BleOtaAssumption
  <2> QED
    BY <1>1, <1>2, <2>1, <2>3
<1> QED
  BY <1>3

(* The first sector is the slot's. *)
LEMMA FirstSectorFacts == SectorOf(0) \cap PastSlot = {}
<1>1. SectorPkgs <= SlotPkgs
  <2>1. SlotPkgs \div SectorPkgs \in Nat /\ SlotPkgs = SectorPkgs * (SlotPkgs \div SectorPkgs)
    BY DivFacts, BleOtaAssumption
  <2>2. SlotPkgs \div SectorPkgs # 0
    BY <2>1, BleOtaAssumption
  <2> QED
    BY <2>1, <2>2, BleOtaAssumption
<1>2. 0 \div SectorPkgs = 0 /\ SectorPkgs \div SectorPkgs = 1
  BY MultipleFacts, BleOtaAssumption
<1>3. ASSUME NEW v \in SectorOf(0), v \in PastSlot
      PROVE  FALSE
  <2>1. v \in Nat /\ SectorPkgs <= v /\ v \div SectorPkgs = 0
    BY <1>1, <1>2, <1>3, BleOtaAssumption DEF SectorOf, Units, PastSlot
  <2> QED
    BY <1>2, <2>1, DivMonotone, BleOtaAssumption
<1> QED
  BY <1>3

(* The operations of the handlers, by what they must keep. *)
LEMMA EraseKeeps ==
  ASSUME NEW us, us \cap PastSlot = {} \/ Length[file] = SlotPkgs
  PROVE  OpKeepsPlace(Erase(us)) /\ OpKeepsNext(Erase(us))
  BY DEF OpKeepsPlace, OpKeepsNext, Erase

LEMMA WriteKeeps ==
  ASSUME NEW u \in 0 .. SlotPkgs - 1, NEW p
  PROVE  OpKeepsPlace(Write(u, p)) /\ OpKeepsNext(Write(u, p))
  BY BleOtaAssumption DEF OpKeepsPlace, OpKeepsNext, Write, PastSlot

LEMMA SaveKeeps ==
  ASSUME NEW r, IsPlace(r.len)
  PROVE  \A i \in 1 .. 2 : OpKeepsPlace(InfoSave(r)[i]) /\ OpKeepsNext(InfoSave(r)[i])
<1>1. InfoSave(r)[1] = EraseInfo /\ InfoSave(r)[2] = WriteInfo(r)
  BY DEF InfoSave
<1>2. OpKeepsPlace(EraseInfo) /\ OpKeepsNext(EraseInfo)
  BY DEF OpKeepsPlace, OpKeepsNext, EraseInfo
<1>3. OpKeepsPlace(WriteInfo(r)) /\ OpKeepsNext(WriteInfo(r))
  BY DEF OpKeepsPlace, OpKeepsNext, WriteInfo
<1> QED
  BY <1>1, <1>2, <1>3

LEMMA InitSInv == Init => SInv
<1> SUFFICES ASSUME Init PROVE SInv
  OBVIOUS
<1>1. IsPlace(old.len) /\ IsPlace(info.len)
  BY DEF Init, BlankInfo, IsPlace
<1>2. OpsKeep /\ DataIsLeft
  BY DEF Init, OpsKeep, DataIsLeft
<1> QED
  BY <1>1, <1>2 DEF SInv

(* Operations to do are kept by steps that leave them or take the first. *)
LEMMA FlashStepSInv ==
  ASSUME IInv, SInv, FlashStep
  PROVE  SInv'
<1> DEFINE o == Head(todo)
<1>1. /\ o \in Op /\ o = todo[1] /\ 1 \in 1 .. Len(todo)
      /\ Len(todo) \in Nat \ {0} /\ Len(todo') = Len(todo) - 1
      /\ \A i \in 1 .. Len(todo') : todo'[i] = todo[i + 1]
  <2>1. todo \in Seq(Op) /\ todo # <<>> /\ todo' = Tail(todo)
    BY DEF IInv, Types, FlashStep
  <2> QED
    BY <2>1, HeadTailProperties, LenProperties, ElementOfSeq
<1>2. IsPlace(info'.len)
  <2>1. CASE o.op = "writeInfo"
    <3>1. info' = o.record
      BY <2>1 DEF FlashStep
    <3>2. OpKeepsPlace(o)
      BY <1>1 DEF SInv, OpsKeep
    <3> QED
      BY <2>1, <3>1, <3>2 DEF OpKeepsPlace
  <2>2. CASE o.op = "eraseInfo"
    BY <2>2 DEF FlashStep, BlankInfo, IsPlace
  <2>3. CASE o.op \notin {"eraseInfo", "writeInfo"}
    BY <2>3 DEF FlashStep, SInv
  <2> QED
    BY <2>1, <2>2, <2>3
<1>3. /\ IsPlace(old'.len) /\ DataIsLeft' /\ file' = file
  BY DEF FlashStep, ram, SInv, DataIsLeft
<1>4. OpsKeep'
  <2> SUFFICES ASSUME NEW i \in 1 .. Len(todo')
               PROVE  OpKeepsPlace(todo'[i]) /\ OpKeepsNext(todo'[i])
    BY <1>3 DEF OpsKeep, OpKeepsPlace, OpKeepsNext
  <2>1. i + 1 \in 1 .. Len(todo) /\ todo'[i] = todo[i + 1]
    BY <1>1
  <2>2. OpKeepsPlace(todo[i + 1]) /\ OpKeepsNext(todo[i + 1])
    BY <2>1 DEF SInv, OpsKeep
  <2> QED
    BY <2>1, <2>2
<1> QED
  BY <1>2, <1>3, <1>4 DEF SInv

(* An attempt that is resumed goes on at a place between two sectors. *)
LEMMA FileOffsetSInv ==
  ASSUME IInv, SInv, NEW w \in 0 .. SlotPkgs, FileOffset(w)
  PROVE  SInv'
<1>1. /\ file' = file /\ info' = info /\ todo' = InfoSave(old') /\ old'.len = old.len
      /\ state' = "DATA" /\ file \in Files
  BY DEF FileOffset, IInv, Types, InfoRecord, Progress
<1>2. IsPlace(old'.len) /\ IsPlace(info'.len)
  BY <1>1 DEF SInv
<1>3. OpsKeep'
  <2>1. Len(todo') = 2
    BY <1>1 DEF InfoSave
  <2>2. \A i \in 1 .. 2 : OpKeepsPlace(todo'[i]) /\ OpKeepsNext(todo'[i])
    BY <1>1, <1>2, SaveKeeps
  <2> QED
    BY <1>1, <2>1, <2>2 DEF OpsKeep, OpKeepsPlace, OpKeepsNext
<1>4. len' < Length[file] \/ Length[file] % SectorPkgs = 0
  <2>1. Length[file] \in Nat \ {0, 1} /\ SlotPkgs \in Nat
    BY <1>1, BleOtaAssumption
  <2>2. CASE Resumes(w)
    <3>1. len' = old.len /\ old.len <= SlotPkgs /\ old.len <= w /\ w <= Length[file]
      BY <2>2 DEF FileOffset, Resumes
    <3>2. old.len \in Nat /\ old.len % SectorPkgs = 0
      BY <2>1, <3>1 DEF SInv, IsPlace, BlankLen, IInv, Types, InfoRecord
    <3> QED
      BY <2>1, <3>1, <3>2
  <2>3. CASE ~Resumes(w)
    BY <2>1, <2>3 DEF FileOffset
  <2> QED
    BY <2>2, <2>3
<1> QED
  BY <1>1, <1>2, <1>3, <1>4 DEF SInv, DataIsLeft

LEMMA FirstDataSInv ==
  ASSUME IInv, SInv, FirstData
  PROVE  SInv'
<1> DEFINE us == SectorOf(0) \ {0}
<1>1. /\ file' = file /\ info' = info /\ old'.len = old.len /\ len = 0 /\ len' = len + 1
      /\ file \in Files
  BY PacketFacts DEF FirstData, TakePacket, IInv, Types, InfoRecord
<1>2. IsPlace(old'.len) /\ IsPlace(info'.len)
  BY <1>1 DEF SInv
<1>3. OpsKeep'
  <2>1. todo' = <<Erase(us)>> \o InfoSave(old')
    BY DEF FirstData
  <2>2. /\ Len(todo') = 3 /\ todo'[1] = Erase(us)
        /\ todo'[2] = InfoSave(old')[1] /\ todo'[3] = InfoSave(old')[2]
    BY <2>1 DEF InfoSave
  <2>3. OpKeepsPlace(Erase(us)) /\ OpKeepsNext(Erase(us))
    BY FirstSectorFacts, EraseKeeps
  <2>4. \A i \in 1 .. 3 : OpKeepsPlace(todo'[i]) /\ OpKeepsNext(todo'[i])
    BY <1>2, <2>2, <2>3, SaveKeeps
  <2> QED
    BY <1>1, <2>2, <2>4 DEF OpsKeep, OpKeepsPlace, OpKeepsNext
<1>4. DataIsLeft'
  BY <1>1, BleOtaAssumption DEF DataIsLeft
<1> QED
  BY <1>2, <1>3, <1>4 DEF SInv

(* The place recorded is the end of the sector just completed; the next one is
   erased even when the slot has none. *)
LEMMA NextDataSInv ==
  ASSUME IInv, SInv, NextData
  PROVE  SInv'
<1>1. /\ TakePacket /\ file' = file /\ info' = info /\ len' = len + 1
      /\ file \in Files /\ Length[file] \in Nat /\ Length[file] <= SlotPkgs
      /\ len \in 0 .. SlotPkgs - 1 /\ len \in Nat /\ len < Length[file]
  BY PacketFacts, BleOtaAssumption DEF NextData, TakePacket, IInv, Types
<1>2. DataIsLeft'
  BY <1>1 DEF DataIsLeft, NextData, StateAfter
<1>3. OpKeepsPlace(Write(len, file)) /\ OpKeepsNext(Write(len, file))
  BY <1>1, WriteKeeps
<1>4. CASE CompletesSector
  <2>1. /\ old' = [old EXCEPT !.len = len', !.crc = crc']
        /\ todo' = <<Erase(NextSector), Write(len, file)>> \o InfoSave(old')
    BY <1>4 DEF NextData
  <2>2. old'.len = len'
    BY <2>1 DEF IInv, Types, InfoRecord
  <2>3. IsPlace(old'.len)
    BY <1>1, <1>4, <2>2, CompleteFacts DEF IsPlace
  <2>4. OpKeepsPlace(Erase(NextSector)) /\ OpKeepsNext(Erase(NextSector))
    <3>1. len + 1 < SlotPkgs \/ Length[file] = SlotPkgs
      BY <1>1, BleOtaAssumption
    <3> QED
      BY <1>1, <1>4, <3>1, NextSectorFacts, EraseKeeps
  <2>5. /\ Len(todo') = 4 /\ todo'[1] = Erase(NextSector) /\ todo'[2] = Write(len, file)
        /\ todo'[3] = InfoSave(old')[1] /\ todo'[4] = InfoSave(old')[2]
    BY <2>1 DEF InfoSave
  <2>6. \A i \in 1 .. 4 : OpKeepsPlace(todo'[i]) /\ OpKeepsNext(todo'[i])
    BY <1>3, <2>3, <2>4, <2>5, SaveKeeps
  <2>7. OpsKeep'
    BY <1>1, <2>5, <2>6 DEF OpsKeep, OpKeepsPlace, OpKeepsNext
  <2> QED
    BY <1>1, <1>2, <2>3, <2>7 DEF SInv
<1>5. CASE ~CompletesSector
  <2>1. old' = old /\ todo' = <<Write(len, file)>>
    BY <1>5 DEF NextData
  <2>2. Len(todo') = 1 /\ todo'[1] = Write(len, file)
    BY <2>1
  <2>3. OpsKeep'
    BY <1>1, <1>3, <2>2 DEF OpsKeep, OpKeepsPlace, OpKeepsNext
  <2> QED
    BY <1>1, <1>2, <2>1, <2>3 DEF SInv
<1> QED
  BY <1>4, <1>5

(* The end clears the record. *)
LEMMA EndOkSInv ==
  ASSUME IInv, SInv, EndOk
  PROVE  SInv'
<1>1. /\ file' = file /\ info' = info /\ old' = ZeroInfo /\ state' = "UNKNOWN"
      /\ todo' = <<Erase({0}), Write(0, old.page)>> \o InfoSave(ZeroInfo)
  BY DEF EndOk, Exit
<1>2. IsPlace(ZeroInfo.len)
  BY BleOtaAssumption DEF ZeroInfo, IsPlace
<1>3. OpKeepsPlace(Erase({0})) /\ OpKeepsNext(Erase({0}))
  BY EraseKeeps, BleOtaAssumption DEF PastSlot
<1>4. OpKeepsPlace(Write(0, old.page)) /\ OpKeepsNext(Write(0, old.page))
  BY WriteKeeps, BleOtaAssumption
<1>5. /\ Len(todo') = 4 /\ todo'[1] = Erase({0}) /\ todo'[2] = Write(0, old.page)
      /\ todo'[3] = InfoSave(ZeroInfo)[1] /\ todo'[4] = InfoSave(ZeroInfo)[2]
  BY <1>1 DEF InfoSave
<1>6. \A i \in 1 .. 4 : OpKeepsPlace(todo'[i]) /\ OpKeepsNext(todo'[i])
  BY <1>2, <1>3, <1>4, <1>5, SaveKeeps
<1>7. OpsKeep'
  BY <1>1, <1>5, <1>6 DEF OpsKeep, OpKeepsPlace, OpKeepsNext
<1> QED
  BY <1>1, <1>2, <1>7 DEF SInv, DataIsLeft

(* The other handlers run when nothing is left to do, and begin no data. *)
LEMMA OtherSInv ==
  ASSUME IInv, SInv,
         \/ Req \/ Refuse \/ Disconnected \/ EndWrong
         \/ \E f \in Files : FileInfo(f)
  PROVE  SInv'
<1>1. /\ old' = old /\ info' = info /\ todo' = <<>> /\ state' # "DATA"
  BY DEF Req, Refuse, Disconnected, EndWrong, FileInfo, Exit, Idle
<1>2. OpsKeep'
  BY <1>1 DEF OpsKeep
<1> QED
  BY <1>1, <1>2 DEF SInv, DataIsLeft

LEMMA RestartSInv ==
  ASSUME IInv, SInv, Restart
  PROVE  SInv'
<1>1. /\ old' = info /\ info' = info /\ todo' = <<>> /\ state' # "DATA"
  BY DEF Restart
<1>2. OpsKeep'
  BY <1>1 DEF OpsKeep
<1> QED
  BY <1>1, <1>2 DEF SInv, DataIsLeft

LEMMA NextSInv == IInv /\ SInv /\ [Next]_vars => SInv'
<1> SUFFICES ASSUME IInv, SInv, [Next]_vars PROVE SInv'
  OBVIOUS
<1>1. CASE FlashStep
  BY <1>1, FlashStepSInv
<1>2. CASE \/ Req \/ Refuse \/ Disconnected \/ EndWrong
           \/ \E f \in Files : FileInfo(f)
  BY <1>2, OtherSInv
<1>3. CASE \E w \in 0 .. SlotPkgs : FileOffset(w)
  BY <1>3, FileOffsetSInv
<1>4. CASE FirstData
  BY <1>4, FirstDataSInv
<1>5. CASE NextData
  BY <1>5, NextDataSInv
<1>6. CASE EndOk
  BY <1>6, EndOkSInv
<1>7. CASE ResetTimer \/ PowerLoss
  BY <1>7, RestartSInv DEF ResetTimer, PowerLoss
<1>8. CASE UNCHANGED vars
  BY <1>8 DEF vars, SInv, OpsKeep, OpKeepsPlace, OpKeepsNext, DataIsLeft
<1> QED
  BY <1>1, <1>2, <1>3, <1>4, <1>5, <1>6, <1>7, <1>8 DEF Next

(* Places and operations stay within their sectors throughout. *)
THEOREM SectorInvariance == Spec => []SInv
  BY InitSInv, NextSInv, Invariance, PTL DEF Spec

(* However often an update was cut and resumed, while it awaits data there are
   data to send, unless the file is whole sectors. *)
THEOREM DataRemain == Spec => []DataIsLeft
<1>1. SInv => DataIsLeft
  BY DEF SInv
<1> QED
  BY <1>1, SectorInvariance, PTL

-----------------------------------------------------------------------------
(* What an update leaves to be booted is newer than what runs, so that a    *)
(* start that takes it over runs something else.                            *)

Newer(f) == Version[f] > Version[runs]

VInv ==
  /\ state \in {"FILE_OFFSET_REQ", "DATA", "END"} => Newer(file)
  /\ store[0] \in Files => Newer(store[0])
  /\ \A i \in 1 .. Len(todo) : WritesFirst(todo[i]) => Newer(todo[i].data)

LEMMA FlashStepVInv ==
  ASSUME IInv, VInv, FlashStep
  PROVE  VInv'
<1> DEFINE o == Head(todo)
<1>1. /\ o \in Op /\ o = todo[1] /\ 1 \in 1 .. Len(todo)
      /\ Len(todo) \in Nat \ {0} /\ Len(todo') = Len(todo) - 1
      /\ \A i \in 1 .. Len(todo') : todo'[i] = todo[i + 1]
  <2>1. todo \in Seq(Op) /\ todo # <<>> /\ todo' = Tail(todo)
    BY DEF IInv, Types, FlashStep
  <2> QED
    BY <2>1, HeadTailProperties, LenProperties, ElementOfSeq
<1>2. state' = state /\ file' = file /\ runs' = runs
  BY DEF FlashStep, ram
<1>3. ASSUME store'[0] \in Files
      PROVE  Version[store'[0]] > Version[runs]
  <2>1. Blank \notin Files /\ Other \notin Files /\ 0 \in Units
    BY BleOtaAssumption, UnitFacts
  <2>2. CASE store'[0] = store[0]
    BY <1>3, <2>2 DEF VInv, Newer
  <2>3. CASE store'[0] # store[0]
    <3>1. o.op = "write"
      BY <1>3, <2>1, <2>3 DEF FlashStep
    <3>2. store'[0] = IF 0 \in o.units THEN Programmed(store[0], o.data) ELSE store[0]
      BY <2>1, <3>1 DEF FlashStep
    <3>3. WritesFirst(o) /\ store'[0] = o.data
      BY <1>3, <2>1, <2>3, <3>1, <3>2 DEF WritesFirst, Programmed
    <3> QED
      BY <1>1, <3>3 DEF VInv, Newer
  <2> QED
    BY <2>2, <2>3
<1>4. ASSUME NEW i \in 1 .. Len(todo'), WritesFirst(todo'[i])
      PROVE  Version[todo'[i].data] > Version[runs]
  <2>1. i + 1 \in 1 .. Len(todo) /\ todo'[i] = todo[i + 1]
    BY <1>1
  <2> QED
    BY <1>4, <2>1 DEF VInv, Newer
<1> QED
  BY <1>2, <1>3, <1>4 DEF VInv, Newer, WritesFirst

(* Of the handlers only the end writes the first page, with the file's. *)
LEMMA EndOkVInv ==
  ASSUME IInv, VInv, EndOk
  PROVE  VInv'
<1>1. /\ file' = file /\ runs' = runs /\ store' = store /\ state' = "UNKNOWN"
      /\ todo' = <<Erase({0}), Write(0, old.page)>> \o InfoSave(ZeroInfo)
      /\ Newer(file) /\ len = Length[file] /\ Length[file] \in Nat \ {0, 1}
      /\ FlashCrc(len) = FileCrc(file)
  BY BleOtaAssumption DEF EndOk, Exit, VInv, Verified, IInv, Types, Progress
<1>2. old.page = file
  <2>1. 1 \in 1 .. Length[file]
    BY <1>1
  <2> QED
    BY <1>1, <2>1 DEF FlashCrc, FileCrc
<1>3. Write(0, old.page).data = file
  BY <1>2 DEF Write
<1>4. /\ Len(todo') = 4 /\ todo'[1] = Erase({0}) /\ todo'[2] = Write(0, old.page)
      /\ todo'[3] = InfoSave(ZeroInfo)[1] /\ todo'[4] = InfoSave(ZeroInfo)[2]
  BY <1>1 DEF InfoSave
<1>5. ~WritesFirst(Erase({0}))
  BY DEF Erase, WritesFirst
<1>6. \A i \in 1 .. 4 : WritesFirst(todo'[i]) => Version[todo'[i].data] > Version[runs]
  BY <1>1, <1>3, <1>4, <1>5, InfoFacts, SaveFacts DEF Newer
<1> QED
  BY <1>1, <1>4, <1>6 DEF VInv, Newer, WritesFirst

(* A packet's operations leave the first page alone. *)
LEMMA PacketVInv ==
  ASSUME IInv, VInv, FirstData \/ NextData
  PROVE  VInv'
<1>1. /\ file' = file /\ runs' = runs /\ store' = store /\ state = "DATA"
      /\ Newer(file) /\ TakePacket
  BY DEF FirstData, NextData, TakePacket, VInv
<1>2. IInv'
  BY FirstDataIInv, NextDataIInv
<1>3. \A i \in 1 .. Len(todo') : ~WritesFirst(todo'[i])
  <2>1. CASE FirstData
    <3>1. /\ Len(todo') = 3 /\ todo'[1] = Erase(SectorOf(0) \ {0})
          /\ todo'[2] = InfoSave(old')[1] /\ todo'[3] = InfoSave(old')[2]
      BY <2>1 DEF FirstData, InfoSave
    <3> QED
      BY <1>2, <3>1, SaveFacts DEF Erase, WritesFirst, IInv, Types
  <2>2. CASE NextData
    <3>1. len # 0 /\ len \in Units /\ file \in Packet
      BY <1>1, <2>2, PacketFacts, BleOtaAssumption DEF NextData, Packet, IInv, Types
    <3>2. ~WritesFirst(Write(len, file))
      BY <3>1, OpFacts
    <3>3. CASE CompletesSector
      <4>1. /\ Len(todo') = 4 /\ todo'[1] = Erase(NextSector) /\ todo'[2] = Write(len, file)
            /\ todo'[3] = InfoSave(old')[1] /\ todo'[4] = InfoSave(old')[2]
        BY <2>2, <3>3 DEF NextData, InfoSave
      <4>2. ~WritesFirst(Erase(NextSector))
        BY DEF Erase, WritesFirst
      <4> QED
        BY <1>2, <3>2, <4>1, <4>2, SaveFacts DEF IInv, Types
    <3>4. CASE ~CompletesSector
      <4>1. todo' = <<Write(len, file)>>
        BY <2>2, <3>4 DEF NextData
      <4>2. Len(todo') = 1 /\ todo'[1] = Write(len, file)
        BY <4>1
      <4> QED
        BY <3>2, <4>2
    <3> QED
      BY <3>3, <3>4
  <2> QED
    BY <2>1, <2>2
<1> QED
  BY <1>1, <1>3 DEF VInv, Newer, WritesFirst

LEMMA FileOffsetVInv ==
  ASSUME IInv, VInv, NEW w, FileOffset(w)
  PROVE  VInv'
<1>1. /\ file' = file /\ runs' = runs /\ store' = store /\ Newer(file)
      /\ todo' = InfoSave(old')
  BY DEF FileOffset, VInv
<1>2. old' \in InfoRecord
  BY FileOffsetIInv DEF IInv, Types
<1>3. \A i \in 1 .. Len(todo') : ~WritesFirst(todo'[i])
  BY <1>1, <1>2, SaveFacts
<1> QED
  BY <1>1, <1>3 DEF VInv, Newer, WritesFirst

(* A start takes over a slot that is then forgotten, or leaves what runs. *)
LEMMA RestartVInv ==
  ASSUME IInv, VInv, Restart
  PROVE  VInv'
<1>1. state' = "UNKNOWN" /\ Len(todo') = 0
  BY DEF Restart
<1>2. store'[0] \notin Files
  BY UnitFacts, BleOtaAssumption DEF Restart, Boot
<1> QED
  BY <1>1, <1>2 DEF VInv

LEMMA NextVInv == IInv /\ VInv /\ [Next]_vars => VInv'
<1> SUFFICES ASSUME IInv, VInv, [Next]_vars PROVE VInv'
  OBVIOUS
<1>1. CASE FlashStep
  BY <1>1, FlashStepVInv
<1>2. CASE Req \/ Refuse \/ Disconnected \/ EndWrong
  BY <1>2 DEF Req, Refuse, Disconnected, EndWrong, Exit, VInv, Newer, WritesFirst
<1>3. CASE \E f \in Files : FileInfo(f)
  BY <1>3 DEF FileInfo, Exit, VInv, Newer, WritesFirst
<1>4. CASE \E w \in 0 .. SlotPkgs : FileOffset(w)
  BY <1>4, FileOffsetVInv
<1>5. CASE FirstData \/ NextData
  BY <1>5, PacketVInv
<1>6. CASE EndOk
  BY <1>6, EndOkVInv
<1>7. CASE ResetTimer \/ PowerLoss
  BY <1>7, RestartVInv DEF ResetTimer, PowerLoss
<1>8. CASE UNCHANGED vars
  BY <1>8 DEF vars, VInv, Newer, WritesFirst
<1> QED
  BY <1>1, <1>2, <1>3, <1>4, <1>5, <1>6, <1>7, <1>8 DEF Next

(* What runs is replaced by something newer only. *)
THEOREM NewerInvariance == Spec => []VInv
<1>1. Init => VInv
  BY UnitFacts, BleOtaAssumption DEF Init, VInv
<1> QED
  BY <1>1, NextVInv, Invariance, PTL DEF Spec

(* The sector behind the slot, in which the running image may begin, changes
   for no file but one that fills the slot. *)
THEOREM NextSlotKept == Spec => NextSlotIsKept
<1> DEFINE Kept == \A u \in SlotPkgs .. SlotPkgs + SectorPkgs - 1 :
                     store'[u] # store[u] => runs' # runs \/ Length[file] = SlotPkgs
<1>1. ASSUME IInv, SInv, VInv, [Next]_vars
      PROVE  Kept
  <2> SUFFICES ASSUME NEW u \in PastSlot, store'[u] # store[u]
               PROVE  runs' # runs \/ Length[file] = SlotPkgs
    BY DEF PastSlot
  <2>0. u \in Units
    BY BleOtaAssumption DEF PastSlot, Units
  <2>1. CASE FlashStep
    <3> DEFINE o == Head(todo)
    <3>1. o = todo[1] /\ 1 \in 1 .. Len(todo)
      BY <1>1, <2>1, HeadTailProperties, LenProperties DEF IInv, Types, FlashStep
    <3>2. o.op \in {"erase", "write"}
      BY <2>1 DEF FlashStep
    <3>3. u \in o.units
      <4>1. CASE o.op = "erase"
        BY <2>0, <2>1, <4>1 DEF FlashStep
      <4>2. CASE o.op = "write"
        BY <2>0, <2>1, <4>2 DEF FlashStep
      <4> QED
        BY <3>2, <4>1, <4>2
    <3> QED
      BY <1>1, <3>1, <3>2, <3>3 DEF SInv, OpsKeep, OpKeepsNext
  <2>2. CASE ResetTimer \/ PowerLoss
    <3>1. runs' = store[0] /\ store[0] \in Files
      BY <2>2 DEF ResetTimer, PowerLoss, Restart, Boot
    <3>2. Version[store[0]] > Version[runs] /\ Version[runs] \in Nat
      BY <1>1, <3>1, BleOtaAssumption DEF VInv, Newer, IInv, Types
    <3> QED
      BY <3>1, <3>2
  <2>3. CASE UNCHANGED store
    BY <2>3
  <2> QED
    BY <1>1, <2>1, <2>2, <2>3
       DEF Next, vars, Req, Refuse, Disconnected, FileInfo, FileOffset, TakePacket,
           FirstData, NextData, EndOk, EndWrong
<1>2. IInv /\ SInv /\ VInv /\ [Next]_vars => [Kept]_vars
  BY <1>1
<1> QED
  BY <1>2, Invariance, SectorInvariance, NewerInvariance, PTL DEF Spec, NextSlotIsKept

-----------------------------------------------------------------------------
(* What is recorded of an update.  The record in use is the one in flash or *)
(* the one the handler under way will leave there.                          *)

InfoFollows ==
  /\ todo = <<>> => info = old
  /\ todo # <<>> => \/ todo[Len(todo)] = WriteInfo(old)
                    \/ info = old /\ Len(todo) = 1 /\ todo[1].op = "write"

PInv ==
  state \in {"DATA", "END"} =>
    /\ old.md5 = file
    /\ len >= SectorPkgs => old.len = len - (len % SectorPkgs)
    /\ InfoFollows

(* A packet that does not complete a sector leaves the place where it is. *)
LEMMA PlaceFacts ==
  ASSUME len \in Nat, ~CompletesSector
  PROVE  /\ (len + 1) - ((len + 1) % SectorPkgs) = len - (len % SectorPkgs)
         /\ len + 1 >= SectorPkgs => len >= SectorPkgs
<1> DEFINE q == len \div SectorPkgs
           t == SectorPkgs * q
           r == len % SectorPkgs
<1>1. q \in Nat /\ t \in Nat /\ r \in 0 .. SectorPkgs - 1 /\ len = t + r
  BY DivFacts, BleOtaAssumption
<1>2. (q + 1) * SectorPkgs = t + SectorPkgs
  BY <1>1, BleOtaAssumption
<1>3. len + 1 < t + SectorPkgs
  <2> HIDE DEF t, r
  <2> QED
    BY <1>1, <1>2, BleOtaAssumption DEF CompletesSector
<1>4. (len + 1) % SectorPkgs = r + 1
  <2>1. r + 1 \in 0 .. SectorPkgs - 1 /\ len + 1 = SectorPkgs * q + (r + 1)
    <3> HIDE DEF t, r
    <3>1. r + 1 \in 0 .. SectorPkgs - 1 /\ len + 1 = t + (r + 1)
      BY <1>1, <1>3, BleOtaAssumption
    <3> QED
      BY <3>1 DEF t
  <2> HIDE DEF r, q
  <2> QED
    BY <1>1, <2>1, BleOtaAssumption
<1>5. len + 1 >= SectorPkgs => len >= SectorPkgs
  <2> SUFFICES ASSUME len + 1 >= SectorPkgs, len < SectorPkgs
               PROVE  FALSE
    BY BleOtaAssumption
  <2>1. q = 0
    BY BleOtaAssumption
  <2> QED
    BY <2>1, <1>3, BleOtaAssumption
<1> HIDE DEF t, r, q
<1> QED
  BY <1>1, <1>4, <1>5, BleOtaAssumption DEF r

LEMMA FlashStepPInv ==
  ASSUME IInv, PInv, FlashStep
  PROVE  PInv'
<1> SUFFICES ASSUME state \in {"DATA", "END"}
             PROVE  InfoFollows'
  BY DEF PInv, FlashStep, ram
<1> DEFINE o == Head(todo)
<1>1. /\ o = todo[1] /\ Len(todo) \in Nat \ {0} /\ Len(todo') = Len(todo) - 1
      /\ todo # <<>> /\ todo' \in Seq(Op)
      /\ \A i \in 1 .. Len(todo') : todo'[i] = todo[i + 1]
  <2>1. todo \in Seq(Op) /\ todo # <<>> /\ todo' = Tail(todo)
    BY DEF IInv, Types, FlashStep
  <2> QED
    BY <2>1, HeadTailProperties, LenProperties
<1>2. old' = old
  BY DEF FlashStep, ram
<1>3. CASE Len(todo) = 1
  <2>1. todo' = <<>>
    BY <1>1, <1>3, EmptySeq
  <2>2. info' = old
    <3>1. CASE o = WriteInfo(old)
      <4>1. o.op = "writeInfo" /\ o.record = old
        BY <3>1 DEF WriteInfo
      <4> QED
        BY <4>1 DEF FlashStep
    <3>2. CASE info = old /\ o.op = "write"
      BY <3>2 DEF FlashStep
    <3> QED
      BY <1>1, <1>3, <3>1, <3>2 DEF PInv, InfoFollows
  <2> QED
    BY <1>2, <2>1, <2>2 DEF InfoFollows
<1>4. CASE Len(todo) # 1
  <2>1. todo[Len(todo)] = WriteInfo(old)
    BY <1>1, <1>4 DEF PInv, InfoFollows
  <2>2. Len(todo') \in 1 .. Len(todo') /\ todo'[Len(todo')] = todo[Len(todo)]
    BY <1>1, <1>4
  <2>3. todo' # <<>>
    BY <2>2
  <2> QED
    BY <1>2, <2>1, <2>2, <2>3 DEF InfoFollows
<1> QED
  BY <1>3, <1>4

(* A handler that saves the record in use ends with it in flash. *)
LEMMA SaveFollows ==
  ASSUME NEW r, NEW ops, ops = InfoSave(r) \/ (\E a : ops = <<a>> \o InfoSave(r))
                         \/ (\E a, b : ops = <<a, b>> \o InfoSave(r))
  PROVE  ops # <<>> /\ ops[Len(ops)] = WriteInfo(r)
<1>1. CASE ops = InfoSave(r)
  BY <1>1 DEF InfoSave
<1>2. CASE \E a : ops = <<a>> \o InfoSave(r)
  <2>1. PICK a : ops = <<a>> \o InfoSave(r)
    BY <1>2
  <2>2. Len(ops) = 3 /\ ops[3] = WriteInfo(r)
    BY <2>1 DEF InfoSave
  <2> QED
    BY <2>2
<1>3. CASE \E a, b : ops = <<a, b>> \o InfoSave(r)
  <2>1. PICK a, b : ops = <<a, b>> \o InfoSave(r)
    BY <1>3
  <2>2. Len(ops) = 4 /\ ops[4] = WriteInfo(r)
    BY <2>1 DEF InfoSave
  <2> QED
    BY <2>2
<1> QED
  BY <1>1, <1>2, <1>3

LEMMA FileOffsetPInv ==
  ASSUME IInv, SInv, PInv, NEW w, FileOffset(w)
  PROVE  PInv'
<1>1. /\ file' = file /\ todo' = InfoSave(old')
      /\ old'.md5 = file /\ old'.len = old.len
  BY DEF FileOffset, IInv, Types, InfoRecord
<1>2. todo' # <<>> /\ todo'[Len(todo')] = WriteInfo(old')
  BY <1>1, SaveFollows
<1>3. len' >= SectorPkgs => old.len = len' - (len' % SectorPkgs)
  <2>1. CASE Resumes(w)
    <3>1. len' = old.len /\ old.len <= SlotPkgs
      BY <2>1 DEF FileOffset, Resumes
    <3>2. old.len \in Nat /\ old.len % SectorPkgs = 0
      BY <3>1, BleOtaAssumption DEF SInv, IsPlace, BlankLen, IInv, Types, InfoRecord
    <3> QED
      BY <3>1, <3>2
  <2>2. CASE ~Resumes(w)
    BY <2>2, BleOtaAssumption DEF FileOffset
  <2> QED
    BY <2>1, <2>2
<1> QED
  BY <1>1, <1>2, <1>3 DEF PInv, InfoFollows

LEMMA PacketPInv ==
  ASSUME IInv, PInv, FirstData \/ NextData
  PROVE  PInv'
<1>1. /\ TakePacket /\ file' = file /\ info' = info /\ len' = len + 1 /\ len \in Nat
      /\ old.md5 = file /\ info = old /\ old \in InfoRecord
      /\ len >= SectorPkgs => old.len = len - (len % SectorPkgs)
  BY BleOtaAssumption
     DEF FirstData, NextData, TakePacket, Idle, PInv, InfoFollows, IInv, Types
<1>2. CASE FirstData
  <2>1. old'.md5 = file /\ len' = 1
    BY <1>1, <1>2 DEF FirstData, InfoRecord
  <2>2. todo' # <<>> /\ todo'[Len(todo')] = WriteInfo(old')
    BY <1>2, SaveFollows DEF FirstData
  <2> QED
    BY <1>1, <2>1, <2>2, BleOtaAssumption DEF PInv, InfoFollows
<1>3. CASE NextData /\ CompletesSector
  <2>1. old'.md5 = file /\ old'.len = len'
    BY <1>1, <1>3 DEF NextData, InfoRecord
  <2>2. todo' # <<>> /\ todo'[Len(todo')] = WriteInfo(old')
    BY <1>3, SaveFollows DEF NextData
  <2>3. len' % SectorPkgs = 0
    BY <1>1, <1>3, CompleteFacts
  <2> QED
    BY <1>1, <2>1, <2>2, <2>3 DEF PInv, InfoFollows
<1>4. CASE NextData /\ ~CompletesSector
  <2>1. old' = old /\ todo' = <<Write(len, file)>>
    BY <1>4 DEF NextData
  <2>2. todo' # <<>> /\ Len(todo') = 1 /\ todo'[1].op = "write"
    BY <2>1 DEF Write
  <2>3. len' >= SectorPkgs => old.len = len' - (len' % SectorPkgs)
    BY <1>1, <1>4, PlaceFacts
  <2> QED
    BY <1>1, <2>1, <2>2, <2>3 DEF PInv, InfoFollows
<1> QED
  BY <1>2, <1>3, <1>4

LEMMA NextPInv == IInv /\ SInv /\ PInv /\ [Next]_vars => PInv'
<1> SUFFICES ASSUME IInv, SInv, PInv, [Next]_vars PROVE PInv'
  OBVIOUS
<1>1. CASE FlashStep
  BY <1>1, FlashStepPInv
<1>2. CASE \/ Req \/ Refuse \/ Disconnected \/ EndOk \/ EndWrong \/ ResetTimer \/ PowerLoss
           \/ \E f \in Files : FileInfo(f)
  BY <1>2 DEF Req, Refuse, Disconnected, EndOk, EndWrong, FileInfo, Exit,
              ResetTimer, PowerLoss, Restart, PInv
<1>3. CASE \E w \in 0 .. SlotPkgs : FileOffset(w)
  BY <1>3, FileOffsetPInv
<1>4. CASE FirstData \/ NextData
  BY <1>4, PacketPInv
<1>5. CASE UNCHANGED vars
  BY <1>5 DEF vars, PInv, InfoFollows
<1> QED
  BY <1>1, <1>2, <1>3, <1>4, <1>5 DEF Next

(* A loss of the link or of power finds the last whole sector recorded, of the
   file that was being received: at most one sector is sent again. *)
THEOREM ProgressKept == Spec => []ProgressIsKept
<1>1. Init => PInv
  BY DEF Init, PInv
<1>2. Spec => []PInv
  BY <1>1, NextPInv, Invariance, SectorInvariance, PTL DEF Spec
<1>3. PInv => ProgressIsKept
  BY DEF PInv, ProgressIsKept, InfoFollows, Idle
<1> QED
  BY <1>2, <1>3, PTL

-----------------------------------------------------------------------------
(* An update that was not resumed.  Its packets are in the slot, and the    *)
(* rest of the sector it has come to is blank, or the operations not yet    *)
(* done will make that so (Settles).                                        *)

Filled(n) == \A u \in 1 .. n - 1 : store[u] = file
RestBlank(n) == \A u \in SectorOf(n) : u >= n => store[u] = Blank

\* The operations from the k-th on leave the slot alone.
Quiet(k) == \A i \in k .. Len(todo) : todo[i].op \notin {"erase", "write"}

Settled == Quiet(1) /\ Filled(len) /\ RestBlank(len)

\* The last packet is to be written, to a place that is blank.
WritesLast ==
  /\ Len(todo) >= 1 /\ todo[1] = Write(len - 1, file) /\ Quiet(2)
  /\ len >= 2 /\ store[len - 1] = Blank /\ Filled(len - 1) /\ RestBlank(len)

\* It completes a sector, and the next one is to be erased before.
ErasesNext ==
  /\ Len(todo) >= 2 /\ todo[1] = Erase(SectorOf(len))
  /\ todo[2] = Write(len - 1, file) /\ Quiet(3)
  /\ len >= 2 /\ store[len - 1] = Blank /\ Filled(len - 1)
  /\ \A u \in SectorOf(len) : u >= len

\* It is the first one, and the rest of its sector is to be erased.
ErasesFirst ==
  /\ Len(todo) >= 1 /\ todo[1] = Erase(SectorOf(0) \ {0}) /\ Quiet(2)
  /\ len = 1

Settles == Settled \/ WritesLast \/ ErasesNext \/ ErasesFirst

FInv ==
  /\ state = "END" => len = Length[file]
  /\ state \in {"DATA", "END"} /\ len = pkgs /\ len >= 1 => old.page = file /\ Settles

(* The packets of the slot are units, each in its own sector. *)
LEMMA SectorFacts ==
  ASSUME NEW n \in 0 .. SlotPkgs
  PROVE  /\ n \in Units /\ n \in SectorOf(n) /\ SectorOf(n) \subseteq Units
  BY BleOtaAssumption DEF Units, SectorOf

LEMMA FlashStepFInv ==
  ASSUME IInv, FInv, FlashStep
  PROVE  FInv'
<1> DEFINE o == Head(todo)
<1>1. /\ UNCHANGED <<state, pkgs, len, file, old>>
      /\ todo # <<>> /\ todo \in Seq(Op) /\ todo' = Tail(todo)
      /\ len \in 0 .. SlotPkgs /\ len \in Nat
  BY BleOtaAssumption DEF FlashStep, ram, IInv, Types
<1>2. Len(todo) >= 1 /\ Len(todo) \in Nat
  BY <1>1, LenProperties, EmptySeq
<1>3. /\ o = todo[1] /\ Len(todo') = Len(todo) - 1
      /\ \A i \in 1 .. Len(todo') : todo'[i] = todo[i + 1]
  BY <1>1, <1>2, HeadTailProperties, LenProperties
<1> SUFFICES ASSUME len = pkgs, len >= 1, state \in {"DATA", "END"}, file \in Files
             PROVE  Settles'
  BY <1>1 DEF FInv, IInv, Progress
<1>4. \A u \in 1 .. len - 1 : u \in Units
  BY <1>1, BleOtaAssumption DEF Units
<1>5. SectorOf(len) \subseteq Units
  BY <1>1, SectorFacts
<1>6. Settles
  BY DEF FInv
<1>7. CASE Settled
  <2>1. o.op \notin {"erase", "write"}
    BY <1>2, <1>3, <1>7 DEF Settled, Quiet
  <2>2. store' = store
    BY <2>1 DEF FlashStep
  <2>3. Quiet(1)'
    BY <1>2, <1>3, <1>7 DEF Settled, Quiet
  <2>4. Filled(len)' /\ RestBlank(len)'
    BY <1>1, <1>7, <2>2 DEF Settled, Filled, RestBlank
  <2> QED
    BY <1>1, <2>3, <2>4 DEF Settles, Settled, Filled, RestBlank
<1>8. CASE WritesLast
  <2>1. /\ o.op = "write" /\ o.units = {len - 1} /\ o.data = file
    BY <1>3, <1>8 DEF WritesLast, Write
  <2>2. store' = [u \in Units |-> IF u = len - 1 THEN Programmed(store[u], file) ELSE store[u]]
    BY <2>1 DEF FlashStep
  <2>3. store[len - 1] = Blank /\ len >= 2
    BY <1>8 DEF WritesLast
  <2>4. \A u \in 1 .. len - 1 : store'[u] = file
    <3>1. ASSUME NEW u \in 1 .. len - 1, u # len - 1
          PROVE  store'[u] = file
      <4>1. u \in 1 .. (len - 1) - 1
        BY <1>1, <3>1
      <4> QED
        BY <1>4, <1>8, <2>2, <3>1, <4>1 DEF WritesLast, Filled
    <3>2. store'[len - 1] = file
      <4>1. len - 1 \in Units
        BY <1>1, <1>4, <2>3
      <4> QED
        BY <2>2, <2>3, <4>1 DEF Programmed
    <3> QED
      BY <3>1, <3>2
  <2>5. \A u \in SectorOf(len) : u >= len => store'[u] = Blank
    <3> SUFFICES ASSUME NEW u \in SectorOf(len), u >= len
                 PROVE  store'[u] = Blank
      OBVIOUS
    <3>1. u \in Units /\ u # len - 1
      BY <1>1, <1>5 DEF Units
    <3>2. store[u] = Blank
      BY <1>8 DEF WritesLast, RestBlank
    <3> QED
      BY <2>2, <3>1, <3>2
  <2>6. Quiet(1)'
    BY <1>2, <1>3, <1>8 DEF WritesLast, Quiet
  <2> QED
    BY <1>1, <2>4, <2>5, <2>6 DEF Settles, Settled, Filled, RestBlank
<1>9. CASE ErasesNext
  <2>1. o.op = "erase" /\ o.units = SectorOf(len)
    BY <1>3, <1>9 DEF ErasesNext, Erase
  <2>2. store' = [u \in Units |-> IF u \in SectorOf(len) THEN Blank ELSE store[u]]
    BY <2>1 DEF FlashStep
  <2>3. \A u \in 1 .. len - 1 : store'[u] = store[u]
    <3>1. \A u \in 1 .. len - 1 : u \notin SectorOf(len)
      BY <1>1, <1>9 DEF ErasesNext
    <3> QED
      BY <1>4, <2>2, <3>1
  <2>4. /\ len >= 2 /\ store'[len - 1] = Blank
        /\ \A u \in 1 .. (len - 1) - 1 : store'[u] = file
    <3>1. len >= 2 /\ store[len - 1] = Blank /\ \A u \in 1 .. (len - 1) - 1 : store[u] = file
      BY <1>9 DEF ErasesNext, Filled
    <3>2. len - 1 \in 1 .. len - 1 /\ \A u \in 1 .. (len - 1) - 1 : u \in 1 .. len - 1
      BY <1>1, <3>1
    <3> QED
      BY <2>3, <3>1, <3>2
  <2>5. \A u \in SectorOf(len) : u >= len => store'[u] = Blank
    BY <1>5, <2>2
  <2>6. Len(todo') >= 1 /\ todo'[1] = Write(len - 1, file)
    BY <1>2, <1>3, <1>9 DEF ErasesNext
  <2>7. Quiet(2)'
    BY <1>2, <1>3, <1>9 DEF ErasesNext, Quiet
  <2> QED
    BY <1>1, <2>4, <2>5, <2>6, <2>7 DEF Settles, WritesLast, Filled, RestBlank
<1>10. CASE ErasesFirst
  <2>1. o.op = "erase" /\ o.units = SectorOf(0) \ {0}
    BY <1>3, <1>10 DEF ErasesFirst, Erase
  <2>2. store' = [u \in Units |-> IF u \in SectorOf(0) \ {0} THEN Blank ELSE store[u]]
    BY <2>1 DEF FlashStep
  <2>3. len = 1 /\ Quiet(1)'
    BY <1>2, <1>3, <1>10 DEF ErasesFirst, Quiet
  <2>4. SectorOf(1) = SectorOf(0)
    BY BleOtaAssumption DEF SectorOf
  <2>5. \A u \in SectorOf(1) : u >= 1 => store'[u] = Blank
    BY <1>5, <2>2, <2>3, <2>4
  <2> QED
    BY <1>1, <2>3, <2>5 DEF Settles, Settled, Filled, RestBlank
<1> QED
  BY <1>6, <1>7, <1>8, <1>9, <1>10 DEF Settles

(* Behind a packet of the sector comes the rest of the same sector, or the next. *)
LEMMA NextUnitFacts ==
  ASSUME len \in 0 .. SlotPkgs - 1
  PROVE  /\ CompletesSector => /\ NextSector = SectorOf(len + 1)
                               /\ \A u \in SectorOf(len + 1) : u >= len + 1
         /\ ~CompletesSector => SectorOf(len + 1) = SectorOf(len)
<1> DEFINE q == len \div SectorPkgs
           t == SectorPkgs * q
           r == len % SectorPkgs
<1>0. len \in Nat
  BY BleOtaAssumption
<1>1. q \in Nat /\ t \in Nat /\ r \in 0 .. SectorPkgs - 1 /\ len = t + r
  BY <1>0, DivFacts, BleOtaAssumption
<1>2. CASE CompletesSector
  <2>1. len + 1 = (q + 1) * SectorPkgs /\ (len + 1) \div SectorPkgs = q + 1
    BY <1>0, <1>1, <1>2, CompleteFacts, MultipleFacts
  <2>2. NextSector = SectorOf(len + 1)
    BY <2>1 DEF NextSector
  <2>3. ASSUME NEW u \in SectorOf(len + 1), ~(u >= len + 1)
        PROVE  FALSE
    <3>1. u \in Nat /\ u <= len /\ u \div SectorPkgs = q + 1
      BY <1>0, <2>1, <2>3 DEF SectorOf, Units
    <3>2. u \div SectorPkgs <= q
      BY <1>0, <3>1, DivMonotone
    <3> QED
      BY <1>1, <3>1, <3>2
  <2> QED
    BY <1>2, <2>2, <2>3
<1>3. CASE ~CompletesSector
  <2>1. (q + 1) * SectorPkgs = t + SectorPkgs
    BY <1>1, BleOtaAssumption
  <2>2. r + 1 \in 0 .. SectorPkgs - 1 /\ len + 1 = t + (r + 1)
    <3> HIDE DEF t, r
    <3> QED
      BY <1>1, <1>3, <2>1, BleOtaAssumption DEF CompletesSector
  <2>3. (len + 1) \div SectorPkgs = q
    <3>1. len + 1 = SectorPkgs * q + (r + 1)
      BY <2>2
    <3> HIDE DEF r, q
    <3> QED
      BY <1>1, <2>2, <3>1, BleOtaAssumption
  <2> QED
    BY <1>3, <2>3 DEF SectorOf
<1> QED
  BY <1>2, <1>3

LEMMA FirstDataFInv ==
  ASSUME IInv, FInv, FirstData
  PROVE  FInv'
<1>1. /\ file' = file /\ len' = 1 /\ state' = "DATA"
      /\ old' = [old EXCEPT !.page = file]
      /\ todo' = <<Erase(SectorOf(0) \ {0})>> \o InfoSave(old')
  BY DEF FirstData, TakePacket
<1>2. old'.page = file
  BY <1>1 DEF IInv, Types, InfoRecord
<1>3. /\ Len(todo') = 3 /\ todo'[1] = Erase(SectorOf(0) \ {0})
      /\ todo'[2].op = "eraseInfo" /\ todo'[3].op = "writeInfo"
  BY <1>1 DEF InfoSave, EraseInfo, WriteInfo
<1>4. Quiet(2)'
  BY <1>3 DEF Quiet
<1>5. ErasesFirst'
  BY <1>1, <1>3, <1>4 DEF ErasesFirst
<1> QED
  BY <1>1, <1>2, <1>5 DEF FInv, Settles

LEMMA NextDataFInv ==
  ASSUME IInv, FInv, NextData
  PROVE  FInv'
<1>1. /\ TakePacket /\ file' = file /\ store' = store /\ todo = <<>> /\ state = "DATA"
      /\ len' = len + 1 /\ pkgs' = pkgs + 1 /\ len > 0
      /\ len \in 0 .. SlotPkgs - 1 /\ len \in Nat /\ pkgs \in Nat
  BY PacketFacts, BleOtaAssumption DEF NextData, TakePacket, Idle, IInv, Types
<1>2. state' = "END" => len' = Length[file]
  BY <1>1 DEF NextData, StateAfter
<1> SUFFICES ASSUME len = pkgs
             PROVE  old'.page = file /\ Settles'
  BY <1>1, <1>2 DEF FInv
<1>3. old.page = file /\ Settles
  BY <1>1 DEF FInv
<1>4. Filled(len) /\ RestBlank(len)
  <2>1. Len(todo) = 0
    BY <1>1
  <2> QED
    BY <1>3, <2>1 DEF Settles, Settled, WritesLast, ErasesNext, ErasesFirst
<1>5. store[len] = Blank
  <2>1. len \in SectorOf(len)
    BY <1>1, SectorFacts, BleOtaAssumption
  <2> QED
    BY <1>1, <1>4, <2>1 DEF RestBlank
<1>6. (len + 1) - 1 = len /\ len + 1 >= 2
  BY <1>1
<1>7. CASE CompletesSector
  <2>1. /\ old' = [old EXCEPT !.len = len', !.crc = crc']
        /\ todo' = <<Erase(NextSector), Write(len, file)>> \o InfoSave(old')
    BY <1>7 DEF NextData
  <2>2. old'.page = file
    BY <1>3, <2>1 DEF IInv, Types, InfoRecord
  <2>3. /\ Len(todo') = 4 /\ todo'[1] = Erase(NextSector) /\ todo'[2] = Write(len, file)
        /\ todo'[3].op = "eraseInfo" /\ todo'[4].op = "writeInfo"
    BY <2>1 DEF InfoSave, EraseInfo, WriteInfo
  <2>4. Quiet(3)'
    BY <2>3 DEF Quiet
  <2>5. NextSector = SectorOf(len + 1) /\ \A u \in SectorOf(len + 1) : u >= len + 1
    BY <1>1, <1>7, NextUnitFacts
  <2>6. ErasesNext'
    BY <1>1, <1>4, <1>5, <1>6, <2>3, <2>4, <2>5 DEF ErasesNext, Filled
  <2> QED
    BY <2>2, <2>6 DEF Settles
<1>8. CASE ~CompletesSector
  <2>1. old' = old /\ todo' = <<Write(len, file)>>
    BY <1>8 DEF NextData
  <2>2. Len(todo') = 1 /\ todo'[1] = Write(len, file)
    BY <2>1
  <2>3. \A u \in SectorOf(len + 1) : u >= len + 1 => store[u] = Blank
    <3> SUFFICES ASSUME NEW u \in SectorOf(len + 1), u >= len + 1
                 PROVE  store[u] = Blank
      OBVIOUS
    <3>1. u \in SectorOf(len) /\ u \in Nat
      BY <1>1, <1>8, NextUnitFacts DEF SectorOf, Units
    <3>2. u >= len
      BY <1>1, <3>1
    <3> QED
      BY <1>4, <3>1, <3>2 DEF RestBlank
  <2>4. Quiet(2)'
    BY <2>2 DEF Quiet
  <2>5. WritesLast'
    BY <1>1, <1>4, <1>5, <1>6, <2>2, <2>3, <2>4 DEF WritesLast, Filled, RestBlank
  <2> QED
    BY <1>3, <2>1, <2>5 DEF Settles
<1> QED
  BY <1>7, <1>8

(* An update goes on from nothing, or with fewer packets than data. *)
LEMMA FileOffsetFInv ==
  ASSUME IInv, FInv, NEW w, FileOffset(w)
  PROVE  FInv'
<1>1. state' = "DATA" /\ pkgs' = 0
  BY DEF FileOffset, IInv, Progress
<1> QED
  BY <1>1 DEF FInv

LEMMA NextFInv == IInv /\ FInv /\ [Next]_vars => FInv'
<1> SUFFICES ASSUME IInv, FInv, [Next]_vars PROVE FInv'
  OBVIOUS
<1>1. CASE FlashStep
  BY <1>1, FlashStepFInv
<1>2. CASE \/ Req \/ Refuse \/ Disconnected \/ EndOk \/ EndWrong \/ ResetTimer \/ PowerLoss
           \/ \E f \in Files : FileInfo(f)
  BY <1>2 DEF Req, Refuse, Disconnected, EndOk, EndWrong, FileInfo, Exit,
              ResetTimer, PowerLoss, Restart, FInv
<1>3. CASE \E w \in 0 .. SlotPkgs : FileOffset(w)
  BY <1>3, FileOffsetFInv
<1>4. CASE FirstData
  BY <1>4, FirstDataFInv
<1>5. CASE NextData
  BY <1>5, NextDataFInv
<1>6. CASE UNCHANGED vars
  BY <1>6 DEF vars, FInv, Settles, Settled, WritesLast, ErasesNext, ErasesFirst,
              Filled, RestBlank, Quiet
<1> QED
  BY <1>1, <1>2, <1>3, <1>4, <1>5, <1>6 DEF Next

(* An update that was not resumed is whole at its end, whatever was in the slot:
   each packet was written to a place erased for it. *)
THEOREM FreshWhole == Spec => []FreshIsWhole
<1>1. Init => FInv
  BY DEF Init, FInv
<1>2. Spec => []FInv
  BY <1>1, NextFInv, Invariance, PTL DEF Spec
<1>3. IInv /\ FInv => FreshIsWhole
  <2> SUFFICES ASSUME IInv, FInv, todo = <<>>, state = "END", len = pkgs
               PROVE  old.page = file /\ \A u \in 1 .. Length[file] - 1 : store[u] = file
    BY DEF FreshIsWhole, Idle
  <2>1. len = Length[file] /\ len \in Nat \ {0, 1}
    BY BleOtaAssumption DEF FInv, IInv, Progress
  <2>2. old.page = file /\ Settles /\ Len(todo) = 0
    BY <2>1 DEF FInv
  <2>3. Filled(len)
    BY <2>2 DEF Settles, Settled, WritesLast, ErasesNext, ErasesFirst
  <2> QED
    BY <2>1, <2>2, <2>3 DEF Filled
<1> QED
  BY <1>2, <1>3, Invariance, PTL
=============================================================================
