---------------------------- MODULE BleFrameProofs ----------------------------
(***************************************************************************)
(* The header's numbers are read as they were written, and the frames of   *)
(* BleFrame are a FrameChannel, for every length of a packet and every     *)
(* size of the queue.                                                      *)
(*                                                                         *)
(* A frame is put together from fragments of its own, the last of which is *)
(* the one being handled, and fragments are queued in the order of frames  *)
(* (InOrder); so no frame comes after a later one (NoneYounger).  It does  *)
(* not come twice, because its sn was counted (Counted) and the count is   *)
(* reset only by events that come between the frames of two links (Turns). *)
(*                                                                         *)
(* A frame is not lost for what came before it: while its fragments come   *)
(* one after the other the decoder holds exactly those (Holding), since    *)
(* the number of a fragment tells its place in the frame (Pieces); and the *)
(* count it is compared with is that of a frame of its own link, or is     *)
(* reset before it is read (CountIsOwn, Parted).                           *)
(***************************************************************************)
EXTENDS BleFrame, TLAPS

LEMMA Weights ==
  /\ Weight[1] = 1 /\ Weight[2] = 128 /\ Weight[3] = 16384 /\ Weight[4] = 2097152
  /\ Base = 128 /\ NumLimit = 268435456
BY SMT DEF Weight, Base, NumLimit

LEMMA VarLenType == ASSUME NEW n \in Nat PROVE VarLen(n) \in 1 .. 4
BY SMT DEF VarLen

LEMMA Digits ==
  ASSUME NEW n \in Nat, NEW i \in 1 .. VarLen(n)
  PROVE  Varint(n)[i] = ((n \div Weight[i]) % 128) + (IF i < VarLen(n) THEN 128 ELSE 0)
BY SMT, Weights DEF Varint

\* tuya_ble_mutli_tsf_protocol.c:380: the decoder reads from a header the number
\* the encoder wrote into it, for every number that fits in its four digits.
THEOREM HeaderIsRead ==
  ASSUME NEW n \in Nat, n < NumLimit
  PROVE  Value(Varint(n)) = n
<1> DEFINE s == Varint(n)
<1>0. n \in Nat /\ n < 268435456
  BY SMT, Weights
<1>1. CASE n < 128
  <2>1. VarLen(n) = 1
    BY SMT, <1>1, Weights DEF VarLen
  <2>2. s[1] = n
    BY SMT, <1>0, <1>1, <2>1, Digits, Weights
  <2> QED
    BY SMT, <1>0, <1>1, <2>2, Weights DEF Value
<1>2. CASE n >= 128 /\ n < 16384
  <2>1. VarLen(n) = 2
    BY SMT, <1>0, <1>2, Weights DEF VarLen
  <2>2. s[1] = (n % 128) + 128 /\ s[2] = (n \div 128) % 128
    BY SMT, <1>0, <1>2, <2>1, Digits, Weights
  <2>3. s[1] \in Nat /\ s[1] >= 128 /\ s[1] % 128 = n % 128
    BY SMT, <1>0, <2>2
  <2>4. s[2] \in Nat /\ s[2] < 128 /\ s[2] = n \div 128 /\ s[2] % 128 = n \div 128
    BY SMT, <1>0, <1>2, <2>2
  <2>5. ~(s[2] >= 128) /\ (s[2] % 128) * 128 = (n \div 128) * 128
    BY SMT, <2>4
  <2>6. Value(s) = (n % 128) * 1 + ((n \div 128) * 128 + 0)
    BY SMT, <1>0, <2>3, <2>5, Weights DEF Value
  <2> QED
    BY SMT, <1>0, <2>6
<1>3. CASE n >= 16384 /\ n < 2097152
  <2>1. VarLen(n) = 3
    BY SMT, <1>0, <1>3, Weights DEF VarLen
  <2>2. s[1] = (n % 128) + 128 /\ s[2] = ((n \div 128) % 128) + 128 /\ s[3] = (n \div 16384) % 128
    BY SMT, <1>0, <1>3, <2>1, Digits, Weights
  <2>3. s[1] \in Nat /\ s[1] >= 128 /\ s[1] % 128 = n % 128
    BY SMT, <1>0, <2>2
  <2>4. s[2] \in Nat /\ s[2] >= 128 /\ s[2] % 128 = (n \div 128) % 128
    BY SMT, <1>0, <2>2
  <2>5. s[3] \in Nat /\ s[3] < 128 /\ s[3] % 128 = n \div 16384
    BY SMT, <1>0, <1>3, <2>2
  <2>6. Value(s) = (n % 128) + (((n \div 128) % 128) * 128 + (n \div 16384) * 16384)
    BY SMT, <1>0, <2>3, <2>4, <2>5, Weights DEF Value
  <2> QED
    BY SMT, <1>0, <2>6
<1>4. CASE n >= 2097152
  <2>1. VarLen(n) = 4
    BY SMT, <1>0, <1>4, Weights DEF VarLen
  <2>2. /\ s[1] = (n % 128) + 128 /\ s[2] = ((n \div 128) % 128) + 128
        /\ s[3] = ((n \div 16384) % 128) + 128 /\ s[4] = (n \div 2097152) % 128
    BY SMT, <1>0, <1>4, <2>1, Digits, Weights
  <2>3. s[1] \in Nat /\ s[1] >= 128 /\ s[1] % 128 = n % 128
    BY SMT, <1>0, <2>2
  <2>4. s[2] \in Nat /\ s[2] >= 128 /\ s[2] % 128 = (n \div 128) % 128
    BY SMT, <1>0, <2>2
  <2>5. s[3] \in Nat /\ s[3] >= 128 /\ s[3] % 128 = (n \div 16384) % 128
    BY SMT, <1>0, <2>2
  <2>6. s[4] % 128 = n \div 2097152
    BY SMT, <1>0, <1>4, <2>2
  <2>7. Value(s) = (n % 128) + (((n \div 128) % 128) * 128
                     + (((n \div 16384) % 128) * 16384 + (n \div 2097152) * 2097152))
    BY SMT, <1>0, <2>3, <2>4, <2>5, <2>6, Weights DEF Value
  <2> QED
    BY SMT, <1>0, <2>7
<1> QED
  BY SMT, <1>0, <1>1, <1>2, <1>3, <1>4

LEMMA HeaderType == ASSUME NEW n \in Nat PROVE Value(Varint(n)) \in Int
<1> DEFINE s == Varint(n)
<1>1. CASE n < NumLimit
  BY <1>1, HeaderIsRead
<1>2. CASE ~(n < NumLimit)
  <2>1. VarLen(n) = 4
    BY SMT, <1>2, Weights DEF VarLen
  <2>2. /\ s[1] = ((n \div 1) % 128) + 128 /\ s[2] = ((n \div 128) % 128) + 128
        /\ s[3] = ((n \div 16384) % 128) + 128 /\ s[4] = ((n \div 2097152) % 128) + 0
    BY SMT, <2>1, Digits, Weights
  <2>3. /\ s[1] \in Nat /\ s[1] >= 128 /\ s[2] \in Nat /\ s[2] >= 128
        /\ s[3] \in Nat /\ s[3] >= 128 /\ s[4] \in Nat
    BY SMT, <2>2
  <2> QED
    <3> DEFINE p == s[1] % 128  q == s[2] % 128  r == s[3] % 128  t == s[4] % 128
    <3>1. p \in Int /\ q \in Int /\ r \in Int /\ t \in Int
      BY SMT, <2>3
    <3>2. Value(s) = p * 1 + (q * 128 + (r * 16384 + t * 2097152))
      BY SMT, <2>3, Weights DEF Value
    <3> HIDE DEF p, q, r, t
    <3> QED
      BY SMT, <3>1, <3>2
<1> QED
  BY <1>1, <1>2

-----------------------------------------------------------------------------
(* Types                                                                   *)

LEMMA NothingIsLoad == Nothing \in Load /\ Nothing.frame = 0
BY DEF Nothing, Load

LEMMA EncodeType ==
  ASSUME NEW f \in Nat, NEW len \in Nat, NEW n \in Nat, NEW cnt \in Int
  PROVE  /\ Encode(f, len, n, cnt) \in Load
         /\ Encode(f, len, n, cnt).frame = f
<1>1. Header(len, n) \in Int /\ PacketLen \in Int
  BY VarLenType, BleFrameAssumption DEF Header
<1> QED
  BY <1>1 DEF Encode, Load

LEMMA Served1 ==
  ASSUME QueueOK, batch > 0
  PROVE  /\ ev = queue[1] /\ ev \in EventType /\ piece \in Load
         /\ 1 \in 1 .. Len(queue)
         /\ ev.kind = "data" => piece.frame \in 1 .. Len(frames)
         /\ Tail(queue) \in Seq(EventType) /\ Len(Tail(queue)) = Len(queue) - 1
         /\ \A i \in 1 .. Len(queue) - 1 : Tail(queue)[i] = queue[i + 1]
<1>1. Len(queue) > 0 /\ queue # <<>> /\ 1 \in 1 .. Len(queue)
  BY DEF QueueOK
<1>2. ev = queue[1] /\ ev \in EventType
  BY <1>1 DEF QueueOK, ev
<1>3. piece \in Load
  BY <1>2 DEF piece, EventType
<1>4. ev.kind = "data" => piece.frame \in 1 .. Len(frames)
  BY <1>1, <1>2 DEF QueueOK, piece
<1> QED
  BY <1>1, <1>2, <1>3, <1>4 DEF QueueOK

LEMMA AirParts ==
  ASSUME NEW a \in AirType
  PROVE  a.held \in BOOLEAN /\ a.max \in Int /\ a.off \in Int /\ a.mem \in Seq(Load)
BY DEF AirType

LEMMA EmptyType ==
  ASSUME NEW m \in Int, NEW o \in Int
  PROVE  Empty(m, o) \in AirType
<1>1. <<>> \in Seq(Load)
  OBVIOUS
<1> QED
  BY <1>1 DEF Empty, AirType

LEMMA FreeType == ASSUME NEW a \in AirType PROVE Free(a) \in AirType
BY EmptyType, AirParts DEF Free

LEMMA StoredType ==
  ASSUME NEW a \in AirType, NEW l \in Load
  PROVE  Stored(a, l) \in AirType
<1>1. Append(a.mem, l) \in Seq(Load) /\ a.off + l.size \in Int
  BY DEF AirType, Load
<1>2. [held |-> TRUE, max |-> a.max, off |-> a.off + l.size, mem |-> Append(a.mem, l)]
        \in AirType
  BY <1>1 DEF AirType
<1>3. Empty(0, a.off) \in AirType
  BY EmptyType, AirParts
<1> QED
  BY <1>2, <1>3, FreeType DEF Stored

LEMMA DecodedType ==
  ASSUME TypeOK, batch > 0, ev.kind = "data"
  PROVE  /\ Decoded \in DecType /\ Decoded.load.frame = piece.frame
         /\ number \in Int
<1>1. piece \in Load /\ piece.frame \in 1 .. Len(frames) /\ dec \in DecType /\ frames \in Seq(Frame)
  BY Served1 DEF TypeOK, DeviceOK, PhoneOK
<1>2. piece.num \in Nat /\ frames[piece.frame].len \in Nat
  <2>1. frames[piece.frame] \in Frame
    BY <1>1
  <2> QED
    BY <1>1, <2>1 DEF Load, Frame
<1>3. number \in Int /\ length \in Int
  BY <1>2, HeaderType DEF number, length
<1>4. ASSUME NEW all \in Int, NEW done \in Int
      PROVE  Cut(all, done) \in DecType /\ Cut(all, done).load.frame = piece.frame
  <2> DEFINE size == IF all - done < piece.size THEN all - done ELSE piece.size
             cut == [piece EXCEPT !.size = size]
  <2>1. size \in Int
    BY <1>1 DEF Load
  <2>2. cut \in Load /\ cut.frame = piece.frame
    <3> HIDE DEF size
    <3> QED
      BY <1>1, <2>1 DEF Load
  <2>3. done + size \in Int
    BY <2>1
  <2>4. Cut(all, done) = [num |-> number, total |-> all, cnt |-> done + size,
                          first |-> (number = 0), load |-> cut]
    BY DEF Cut
  <2> HIDE DEF size, cut
  <2> QED
    BY <1>3, <2>2, <2>3, <2>4 DEF DecType
<1>5. dec.total \in Int /\ dec.cnt \in Int
  BY <1>1 DEF DecType
<1> QED
  BY <1>3, <1>4, <1>5 DEF Decoded

LEMMA OpenedType ==
  ASSUME TypeOK, batch > 0, ev.kind = "data", NEW memory \in BOOLEAN
  PROVE  Opened(Decoded, memory) \in AirType
<1>1. air \in AirType /\ Decoded \in DecType /\ <<>> \in Seq(Load)
  BY DecodedType DEF TypeOK, DeviceOK
<1>2. Decoded.total \in Int /\ air.off \in Int
  BY <1>1 DEF DecType, AirType
<1>3. [held |-> TRUE, max |-> Decoded.total, off |-> 0, mem |-> <<>>] \in AirType
  BY <1>1, <1>2 DEF AirType
<1> QED
  BY <1>1, <1>2, <1>3, EmptyType DEF Opened

\* What was put together and passes the checksum is the frame of the fragment
\* that completed it.
LEMMA WholeIsOwn ==
  ASSUME TypeOK, batch > 0, ev.kind = "data",
         Complete(Decoded, Opened(Decoded, TRUE)),
         NEW ms, ms = Stored(Opened(Decoded, TRUE), Decoded.load).mem,
         Checksum(ms)
  PROVE  /\ ms[1].frame = piece.frame
         /\ IsFrame(piece.frame, ms)
<1> DEFINE a == Opened(Decoded, TRUE)
<1> HIDE DEF a
<1>1. a \in AirType /\ Decoded.load \in Load /\ Decoded.load.frame = piece.frame
  BY OpenedType, DecodedType DEF a, DecType
<1>2. a.held /\ a.off + Decoded.load.size <= a.max
  BY DEF Complete, a
<1>3. a.mem \in Seq(Load) /\ a.off \in Int /\ a.max \in Int /\ Decoded.load.size \in Int
  BY <1>1, AirParts DEF Load
<1>4. ms = Append(a.mem, Decoded.load)
  <2>1. ASSUME NEW m, NEW o, NEW q
        PROVE  [held |-> TRUE, max |-> m, off |-> o, mem |-> q].mem = q
    OBVIOUS
  <2>2. Stored(a, Decoded.load)
          = [held |-> TRUE, max |-> a.max, off |-> a.off + Decoded.load.size,
             mem |-> Append(a.mem, Decoded.load)]
    BY <1>2, <1>3 DEF Stored
  <2>3. ms = Stored(a, Decoded.load).mem
    BY DEF a
  <2>4. Stored(a, Decoded.load).mem = Append(a.mem, Decoded.load)
    BY <2>1, <2>2
  <2> QED
    BY <2>3, <2>4
<1>5. Len(ms) \in DOMAIN ms /\ ms[Len(ms)] = Decoded.load
  <2>1. ASSUME NEW q \in Seq(Load), NEW l \in Load
        PROVE  Len(Append(q, l)) \in DOMAIN Append(q, l) /\ Append(q, l)[Len(Append(q, l))] = l
    OBVIOUS
  <2> QED
    BY <1>1, <1>3, <1>4, <2>1
<1>6. ms[Len(ms)].frame = ms[1].frame
  BY <1>5 DEF Checksum, IsFrame
<1>7. ms[1].frame = piece.frame
  BY <1>1, <1>5, <1>6
<1> QED
  BY <1>7 DEF Checksum

LEMMA PostType ==
  ASSUME QueueOK, NEW e \in EventType, Post(e) \/ UNCHANGED queue, batch' = batch,
         Len(frames) \in Nat, Len(frames') \in Nat, Len(frames) <= Len(frames'),
         e.kind = "data" => e.load.frame \in 1 .. Len(frames')
  PROVE  QueueOK'
<1>0. queue \in Seq(EventType) /\ Len(queue) \in Nat /\ QMax \in Nat
  BY BleFrameAssumption DEF QueueOK
<1>1. CASE queue' = queue
  BY <1>0, <1>1 DEF QueueOK
<1>2. CASE ~Full /\ queue' = Append(queue, e)
  <2>1. /\ queue' \in Seq(EventType) /\ Len(queue') = Len(queue) + 1
        /\ \A i \in 1 .. Len(queue) : queue'[i] = queue[i]
        /\ queue'[Len(queue) + 1] = e
    BY <1>0, <1>2
  <2>2. Len(queue') <= QMax /\ batch' \in 0 .. Len(queue')
    BY <1>0, <1>2, <2>1 DEF QueueOK, Full
  <2>3. \A i \in 1 .. Len(queue') : queue'[i].kind = "data" => queue'[i].load.frame \in 1 .. Len(frames')
    BY <1>0, <2>1 DEF QueueOK
  <2> QED
    BY <2>1, <2>2, <2>3 DEF QueueOK
<1> QED
  BY <1>1, <1>2 DEF Post

LEMMA ServedType ==
  ASSUME QueueOK, batch > 0, queue' = Tail(queue), batch' = batch - 1, frames' = frames
  PROVE  QueueOK'
<1>1. QMax \in Nat /\ Len(queue) \in Nat /\ Len(queue) <= QMax /\ batch \in 0 .. Len(queue)
  BY BleFrameAssumption DEF QueueOK
<1>2. queue' \in Seq(EventType) /\ Len(queue') = Len(queue) - 1
  BY Served1
<1>3. \A i \in 1 .. Len(queue') : queue'[i] = queue[i + 1] /\ i + 1 \in 1 .. Len(queue)
  BY <1>1, <1>2, Served1
<1> QED
  BY <1>1, <1>2, <1>3 DEF QueueOK

LEMMA NoteType ==
  ASSUME TypeOK, batch > 0, ev.kind = "data", NEW room \in BOOLEAN, Note(room)
  PROVE  intact' \in Load /\ turned' \subseteq 1 .. Len(frames)
BY Served1, NothingIsLoad DEF Note, TypeOK, DeviceOK

LEMMA GotGrows ==
  ASSUME NEW n \in Nat, NEW m \in Nat, n <= m, NEW q \in Seq(1 .. n)
  PROVE  q \in Seq(1 .. m)
<1>1. \A i \in 1 .. Len(q) : q[i] \in 1 .. n
  OBVIOUS
<1>2. 1 .. n \subseteq 1 .. m
  OBVIOUS
<1> QED
  BY <1>1, <1>2

LEMMA Quiet == ASSUME TypeOK, UNCHANGED vars PROVE TypeOK'
BY DEF TypeOK, PhoneOK, QueueOK, DeviceOK, vars, radio

LEMMA ConnectType == ASSUME TypeOK, Connect PROVE TypeOK'
<1>1. Event("conn", Nothing) \in EventType /\ Event("conn", Nothing).kind # "data"
  BY NothingIsLoad DEF Event, EventType
<1>2. QueueOK'
  BY <1>1, PostType DEF Connect, TypeOK, PhoneOK
<1>3. deaf' \subseteq 1 .. links'
  BY DEF Connect, TypeOK, PhoneOK
<1>4. PhoneOK'
  BY <1>3 DEF Connect, TypeOK, PhoneOK
<1>5. DeviceOK'
  BY DEF Connect, TypeOK, DeviceOK
<1> QED
  BY <1>2, <1>4, <1>5 DEF TypeOK

LEMMA DisconnectType == ASSUME TypeOK, Disconnect PROVE TypeOK'
<1>1. Event("disc", Nothing) \in EventType /\ Event("disc", Nothing).kind # "data"
  BY NothingIsLoad DEF Event, EventType
<1>2. QueueOK'
  BY <1>1, PostType DEF Disconnect, TypeOK, PhoneOK
<1>4. PhoneOK'
  BY NothingIsLoad DEF Disconnect, TypeOK, PhoneOK
<1>5. DeviceOK'
  BY DEF Disconnect, TypeOK, DeviceOK
<1> QED
  BY <1>2, <1>4, <1>5 DEF TypeOK

LEMMA OutLen ==
  ASSUME TypeOK, out # Nothing
  PROVE  out.frame \in 1 .. Len(frames) /\ frames[out.frame] \in Frame
         /\ frames[out.frame].len \in Nat /\ frames[out.frame].sn \in Nat
<1>1. out.frame \in 1 .. Len(frames) /\ frames[out.frame] \in Frame
  BY DEF TypeOK, PhoneOK
<1> QED
  BY <1>1 DEF Frame

LEMMA BeginFrameType == ASSUME TypeOK, NEW len \in FrameLens, BeginFrame(len) PROVE TypeOK'
<1> DEFINE sn == 1 + (IF out = Nothing THEN 0 ELSE frames[Len(frames)].sn)
           f == [len |-> len, link |-> link, sn |-> sn]
<1>0. frames \in Seq(Frame) /\ Len(frames) \in Nat /\ len \in Nat \ {0} /\ link \in Nat
  BY BleFrameAssumption DEF TypeOK, PhoneOK
<1>1. sn \in Nat \ {0}
  BY OutLen DEF TypeOK, PhoneOK
<1>2. f \in Frame
  <2> HIDE DEF sn
  <2> QED
    BY <1>0, <1>1 DEF Frame
<1>3. frames' = Append(frames, f)
  BY DEF BeginFrame
<1> HIDE DEF f
<1>4. frames' \in Seq(Frame) /\ Len(frames') = Len(frames) + 1
  BY <1>0, <1>2, <1>3
<1>5. out' \in Load /\ out'.frame = Len(frames) + 1
  <2>1. out' = Encode(Len(frames) + 1, len, 0, 0)
    BY DEF BeginFrame
  <2>2. Len(frames) + 1 \in Nat /\ len \in Nat /\ 0 \in Nat /\ 0 \in Int
    BY <1>0
  <2> QED
    BY <2>1, <2>2, EncodeType
<1>6. Event("data", out') \in EventType /\ Event("data", out').load = out'
  BY <1>5 DEF Event, EventType
<1>7. QueueOK'
  <2>1. (Post(Event("data", out')) \/ UNCHANGED queue) /\ batch' = batch
    BY DEF BeginFrame, Write
  <2> QED
    BY <1>0, <1>4, <1>5, <1>6, <2>1, PostType DEF TypeOK
<1>8. PhoneOK'
  BY <1>0, <1>4, <1>5 DEF BeginFrame, TypeOK, PhoneOK
<1>9. DeviceOK'
  <2>1. got' \in Seq(1 .. Len(frames'))
    BY <1>0, <1>4, GotGrows DEF BeginFrame, TypeOK, DeviceOK
  <2>2. turned' \subseteq 1 .. Len(frames')
    BY <1>0, <1>4 DEF BeginFrame, TypeOK, DeviceOK
  <2> QED
    BY <2>1, <2>2 DEF BeginFrame, TypeOK, DeviceOK
<1> QED
  BY <1>7, <1>8, <1>9 DEF TypeOK

LEMMA OutEvent ==
  ASSUME NEW l \in Load
  PROVE  /\ Event("data", l) \in EventType
         /\ Event("data", l).kind = "data" /\ Event("data", l).load = l
BY DEF Event, EventType

LEMMA SendFragmentType == ASSUME TypeOK, SendFragment PROVE TypeOK'
<1>0. out # Nothing
  BY DEF SendFragment, AllSent
<1>1. out \in Load /\ out.frame \in 1 .. Len(frames) /\ frames[out.frame].len \in Nat
      /\ Len(frames) \in Nat
  BY <1>0, OutLen DEF TypeOK, PhoneOK
<1>2. out.num + 1 \in Nat /\ out.from + out.size \in Int /\ out.frame \in Nat
  BY <1>1 DEF Load
<1>3. out' \in Load /\ out'.frame = out.frame
  <2>1. PICK f, len, n, c : f = out.frame /\ len = frames[out.frame].len
                            /\ n = out.num + 1 /\ c = out.from + out.size
    OBVIOUS
  <2>2. f \in Nat /\ len \in Nat /\ n \in Nat /\ c \in Int /\ out' = Encode(f, len, n, c)
    BY <1>1, <1>2, <2>1 DEF SendFragment
  <2>3. Encode(f, len, n, c) \in Load /\ Encode(f, len, n, c).frame = f
    BY <2>2, EncodeType, Zenon
  <2> QED BY <2>1, <2>2, <2>3
<1>4. QueueOK'
  <2>1. /\ Post(Event("data", out')) \/ UNCHANGED queue
        /\ batch' = batch /\ frames' = frames
    BY DEF SendFragment, Write
  <2> QED
    BY <1>1, <1>3, <2>1, OutEvent, PostType DEF TypeOK
<1>5. PhoneOK'
  BY <1>0, <1>3 DEF SendFragment, TypeOK, PhoneOK
<1>6. DeviceOK'
  BY DEF SendFragment, TypeOK, DeviceOK
<1> QED
  BY <1>4, <1>5, <1>6 DEF TypeOK

LEMMA RepeatFragmentType == ASSUME TypeOK, RepeatFragment PROVE TypeOK'
<1>1. out \in Load /\ out.frame \in 1 .. Len(frames) /\ Len(frames) \in Nat
  BY OutLen DEF RepeatFragment, TypeOK, PhoneOK
<1>2. QueueOK'
  <2>1. Post(Event("data", out)) /\ batch' = batch /\ frames' = frames
    BY DEF RepeatFragment, Post, radio
  <2> QED
    BY <1>1, <2>1, OutEvent, PostType DEF TypeOK
<1>3. PhoneOK' /\ DeviceOK'
  BY DEF RepeatFragment, TypeOK, PhoneOK, DeviceOK, radio
<1> QED
  BY <1>2, <1>3 DEF TypeOK

LEMMA TurnType == ASSUME TypeOK, HandleConn \/ HandleDisc \/ HandleCmd PROVE TypeOK'
<1>1. QueueOK'
  BY ServedType DEF HandleConn, HandleDisc, HandleCmd, Serving, Served, radio, TypeOK
<1>2. PhoneOK'
  BY DEF HandleConn, HandleDisc, HandleCmd, radio, TypeOK, PhoneOK
<1>3. air' \in AirType
  BY FreeType DEF HandleConn, HandleDisc, HandleCmd, TypeOK, DeviceOK
<1>4. rxsn' \in Nat
  BY DEF HandleConn, HandleDisc, HandleCmd, TypeOK, DeviceOK
<1>5. DeviceOK'
  <2>1. UNCHANGED <<dec, got, frames, intact, turned>>
    BY DEF HandleConn, HandleDisc, HandleCmd, radio
  <2> QED
    BY <1>3, <1>4, <2>1 DEF TypeOK, DeviceOK
<1> QED
  BY <1>1, <1>2, <1>5 DEF TypeOK

LEMMA RefuseType == ASSUME TypeOK, RefuseFragment PROVE TypeOK'
<1>1. QueueOK'
  BY ServedType DEF RefuseFragment, Serving, Served, radio, TypeOK
<1>2. PhoneOK'
  BY DEF RefuseFragment, radio, TypeOK, PhoneOK
<1>3. intact' \in Load /\ turned' \subseteq 1 .. Len(frames)
  BY NoteType DEF RefuseFragment, Serving
<1>4. air' \in AirType
  <2>1. air \in AirType /\ air' = Empty(0, air.off)
    BY DEF RefuseFragment, TypeOK, DeviceOK
  <2> QED
    BY <2>1, EmptyType, AirParts
<1>5. dec' \in DecType
  <2>1. dec \in DecType /\ dec' = [dec EXCEPT !.first = FALSE]
    BY DEF RefuseFragment, TypeOK, DeviceOK
  <2> QED
    BY <2>1 DEF DecType
<1>6. DeviceOK'
  BY <1>3, <1>4, <1>5 DEF RefuseFragment, radio, TypeOK, DeviceOK
<1> QED
  BY <1>1, <1>2, <1>6 DEF TypeOK

LEMMA TakeAgainType == ASSUME TypeOK, TakeAgain PROVE TypeOK'
<1>1. QueueOK'
  BY ServedType DEF TakeAgain, Serving, Served, radio, TypeOK
<1>2. PhoneOK'
  BY DEF TakeAgain, radio, TypeOK, PhoneOK
<1>3. intact' \in Load /\ turned' \subseteq 1 .. Len(frames)
  BY NoteType DEF TakeAgain, Serving
<1>4. dec \in DecType /\ dec.load \in Load /\ air \in AirType
  BY DEF TypeOK, DeviceOK, DecType
<1>5. air' \in AirType
  BY <1>4, StoredType DEF TakeAgain
<1>6. dec' \in DecType
  <2>1. dec' = [dec EXCEPT !.first = FALSE]
    BY DEF TakeAgain
  <2> QED
    BY <1>4, <2>1 DEF DecType
<1>7. DeviceOK'
  BY <1>3, <1>5, <1>6 DEF TakeAgain, radio, TypeOK, DeviceOK
<1> QED
  BY <1>1, <1>2, <1>7 DEF TypeOK

LEMMA TakeFragmentType ==
  ASSUME TypeOK, NEW memory \in BOOLEAN, TakeFragment(memory) PROVE TypeOK'
<1>0. batch > 0 /\ ev.kind = "data"
  BY DEF TakeFragment, Serving
<1>1. QueueOK'
  BY <1>0, ServedType DEF TakeFragment, Served, radio, TypeOK
<1>2. PhoneOK'
  BY DEF TakeFragment, radio, TypeOK, PhoneOK
<1>3. intact' \in Load /\ turned' \subseteq 1 .. Len(frames)
  BY <1>0, NoteType DEF TakeFragment
<1>4. Decoded \in DecType /\ Decoded.load \in Load /\ Opened(Decoded, memory) \in AirType
  BY <1>0, DecodedType, OpenedType DEF DecType
<1>5. dec' \in DecType
  BY <1>4 DEF TakeFragment
<1>6. air' \in AirType
  BY <1>4, StoredType DEF TakeFragment
<1>7. DeviceOK'
  BY <1>3, <1>5, <1>6 DEF TakeFragment, radio, TypeOK, DeviceOK
<1> QED
  BY <1>1, <1>2, <1>7 DEF TypeOK

-----------------------------------------------------------------------------
(* What becomes of a frame that was put together                           *)

Dropped == queue' = Tail(queue) /\ UNCHANGED <<rxsn, got>>
LostAfter == queue' = Tail(queue) /\ frames[piece.frame].sn > rxsn
               /\ rxsn' = frames[piece.frame].sn /\ UNCHANGED got
Taken == /\ queue' = Append(Tail(queue), Event("cmd", Nothing))
         /\ frames[piece.frame].sn > rxsn /\ rxsn' = frames[piece.frame].sn
         /\ got' = Append(got, piece.frame)

LEMMA FrameFates ==
  ASSUME TypeOK, NEW memory \in BOOLEAN, NEW refusal \in Refusals, TakeFrame(memory, refusal)
  PROVE  Dropped \/ LostAfter \/ Taken
<1> DEFINE ms == Stored(Opened(Decoded, TRUE), Decoded.load).mem
<1>0. batch > 0 /\ ev.kind = "data" /\ Complete(Decoded, Opened(Decoded, TRUE))
  BY DEF TakeFrame, Serving
<1>1. ASSUME Checksum(ms)
      PROVE  ms[1].frame = piece.frame /\ IsFrame(ms[1].frame, ms)
  BY <1>0, <1>1, WholeIsOwn
<1> HIDE DEF ms
<1>2. \/ Dropped
      \/ /\ Checksum(ms) /\ frames[ms[1].frame].sn > rxsn
         /\ rxsn' = frames[ms[1].frame].sn
         /\ Execute(ms[1].frame, ms, memory /\ refusal = "none")
  BY DEF TakeFrame, ms, Dropped
<1>3. CASE Checksum(ms) /\ frames[ms[1].frame].sn > rxsn
         /\ rxsn' = frames[ms[1].frame].sn
         /\ Execute(ms[1].frame, ms, memory /\ refusal = "none")
  BY <1>1, <1>3 DEF Execute, LostAfter, Taken
<1> QED
  BY <1>2, <1>3

LEMMA TakeFrameType ==
  ASSUME TypeOK, NEW memory \in BOOLEAN, NEW refusal \in Refusals, TakeFrame(memory, refusal) PROVE TypeOK'
<1>0. batch > 0 /\ ev.kind = "data" /\ batch' = batch - 1 /\ frames' = frames
  BY DEF TakeFrame, Serving
<1>1. /\ piece.frame \in 1 .. Len(frames) /\ frames \in Seq(Frame) /\ Len(frames) \in Nat
      /\ frames[piece.frame].sn \in Nat
  <2>1. piece.frame \in 1 .. Len(frames) /\ frames \in Seq(Frame)
    BY <1>0, Served1 DEF TypeOK, PhoneOK
  <2>2. frames[piece.frame] \in Frame
    BY <2>1
  <2> QED
    BY <2>1, <2>2 DEF Frame
<1>2. QueueOK'
  <2>1. CASE queue' = Tail(queue)
    BY <1>0, <2>1, ServedType DEF TypeOK
  <2>2. CASE queue' = Append(Tail(queue), Event("cmd", Nothing))
    <3>1. Event("cmd", Nothing) \in EventType /\ Event("cmd", Nothing).kind # "data"
      BY NothingIsLoad DEF Event, EventType
    <3>2. /\ Tail(queue) \in Seq(EventType) /\ Len(Tail(queue)) = Len(queue) - 1
          /\ \A i \in 1 .. Len(queue) - 1 : Tail(queue)[i] = queue[i + 1]
      BY <1>0, Served1 DEF TypeOK
    <3>3. /\ queue' \in Seq(EventType) /\ Len(queue') = Len(queue)
          /\ \A i \in 1 .. Len(queue) - 1 : queue'[i] = queue[i + 1]
          /\ queue'[Len(queue)].kind # "data"
      BY <1>0, <2>2, <3>1, <3>2 DEF TypeOK, QueueOK
    <3>4. Len(queue') <= QMax /\ batch' \in 0 .. Len(queue')
      BY <1>0, <3>3, BleFrameAssumption DEF TypeOK, QueueOK
    <3>5. \A i \in 1 .. Len(queue') : queue'[i].kind = "data" => queue'[i].load.frame \in 1 .. Len(frames')
      BY <1>0, <3>3 DEF TypeOK, QueueOK
    <3> QED
      BY <3>3, <3>4, <3>5 DEF QueueOK
  <2> QED
    BY <2>1, <2>2, FrameFates DEF Dropped, LostAfter, Taken
<1>3. PhoneOK'
  <2>1. closing' \in BOOLEAN
    BY DEF TakeFrame, TypeOK, PhoneOK
  <2> QED
    BY <2>1 DEF TakeFrame, TypeOK, PhoneOK
<1>4. DeviceOK'
  <2>1. intact' \in Load /\ turned' \subseteq 1 .. Len(frames)
    BY <1>0, NoteType DEF TakeFrame
  <2>2. Decoded \in DecType /\ dec' = Decoded
    BY <1>0, DecodedType DEF TakeFrame
  <2>3. air' \in AirType
    <3>1. air' = Empty(0, 0)
      BY DEF TakeFrame
    <3> QED
      BY <3>1, EmptyType
  <2>4. rxsn' \in Nat
    BY <1>1, FrameFates DEF Dropped, LostAfter, Taken, TypeOK, DeviceOK
  <2>5. got' \in Seq(1 .. Len(frames))
    <3>1. got \in Seq(1 .. Len(frames)) /\ Append(got, piece.frame) \in Seq(1 .. Len(frames))
      BY <1>1 DEF TypeOK, DeviceOK
    <3> QED
      BY <3>1, FrameFates DEF Dropped, LostAfter, Taken
  <2> QED
    BY <1>0, <2>1, <2>2, <2>3, <2>4, <2>5 DEF DeviceOK
<1> QED
  BY <1>2, <1>3, <1>4 DEF TypeOK

LEMMA TypeStep == ASSUME TypeOK, [Next]_vars PROVE TypeOK'
<1>1. CASE Pass
  <2>1. batch' \in 0 .. Len(queue)
    BY <1>1 DEF Pass, TypeOK, QueueOK
  <2> QED
    BY <1>1, <2>1 DEF Pass, radio, TypeOK, PhoneOK, QueueOK, DeviceOK
<1>2. CASE \/ \E memory \in BOOLEAN : TakeFragment(memory)
           \/ \E memory \in BOOLEAN, refusal \in Refusals : TakeFrame(memory, refusal)
  BY <1>2, TakeFragmentType, TakeFrameType
<1>3. CASE \E len \in FrameLens : BeginFrame(len)
  BY <1>3, BeginFrameType
<1> QED
  BY <1>1, <1>2, <1>3, Quiet, ConnectType, DisconnectType, SendFragmentType, RepeatFragmentType,
     TurnType, RefuseType, TakeAgainType DEF Next, Phone, Handle

LEMMA TypeStart == ASSUME Init PROVE TypeOK
<1>1. QMax \in Nat
  BY BleFrameAssumption
<1>2. air \in AirType
  BY EmptyType DEF Init
<1>3. dec \in DecType
  BY NothingIsLoad DEF Init, DecType
<1>4. PhoneOK
  <2>1. frames \in Seq(Frame) /\ out \in Load /\ out = Nothing
    BY NothingIsLoad DEF Init
  <2> QED
    BY <2>1 DEF Init, PhoneOK
<1>5. QueueOK
  BY <1>1 DEF Init, QueueOK
<1>6. DeviceOK
  BY <1>2, <1>3, NothingIsLoad DEF Init, DeviceOK
<1> QED
  BY <1>4, <1>5, <1>6 DEF TypeOK

\* The variables keep their types; a fragment that waits belongs to a frame that
\* a phone began.
THEOREM TypeCorrect == Spec => []TypeOK
BY TypeStart, TypeStep, PTL DEF Spec

-----------------------------------------------------------------------------
(* Order                                                                   *)

Q == 1 .. Len(queue)
G == 1 .. Len(got)
IsData(i) == queue[i].kind = "data"
IsTurn(i) == queue[i].kind \in {"conn", "disc"}
At(i) == queue[i].load.frame

InOrder == \A p, q \in Q : p < q /\ IsData(p) /\ IsData(q) => At(p) <= At(q)

NoneYounger == \A i \in G, p \in Q : IsData(p) => got[i] <= At(p)

\* A frame that was taken, and of which fragments wait or may still be written.
Counted ==
  \A i \in G :
    /\ \A p \in Q : IsData(p) /\ got[i] = At(p) => frames[got[i]].sn <= rxsn
    /\ out # Nothing /\ got[i] = Len(frames) => frames[got[i]].sn <= rxsn

\* A connection or its end waits between the frames of two links.
Turns ==
  \A q \in Q : IsTurn(q) =>
    /\ \A p \in Q : q < p /\ IsData(p) =>
         /\ \A i \in G : got[i] < At(p)
         /\ \A r \in Q : r < q /\ IsData(r) => At(r) < At(p)
    /\ out # Nothing =>
         /\ \A i \in G : got[i] < Len(frames)
         /\ \A r \in Q : r < q /\ IsData(r) => At(r) < Len(frames)

Offline == link = 0 => out = Nothing

Order == InOrder /\ NoneYounger /\ Counted /\ Turns
IInv == TypeOK /\ Order /\ Offline

LEMMA Ranges ==
  ASSUME TypeOK
  PROVE  /\ Len(queue) \in Nat /\ Len(got) \in Nat /\ Len(frames) \in Nat /\ rxsn \in Nat
         /\ queue \in Seq(EventType) /\ got \in Seq(1 .. Len(frames)) /\ frames \in Seq(Frame)
         /\ \A i \in G : got[i] \in 1 .. Len(frames)
         /\ \A p \in Q : IsData(p) => At(p) \in 1 .. Len(frames)
         /\ \A f \in 1 .. Len(frames) : frames[f].sn \in Nat
<1>1. \A f \in 1 .. Len(frames) : frames[f] \in Frame
  BY DEF TypeOK, PhoneOK
<1>2. \A f \in 1 .. Len(frames) : frames[f].sn \in Nat
  BY <1>1 DEF Frame
<1>3. \A p \in Q : IsData(p) => At(p) \in 1 .. Len(frames)
  BY DEF TypeOK, QueueOK, Q, IsData, At
<1>4. got \in Seq(1 .. Len(frames)) /\ Len(got) \in Nat /\ \A i \in G : got[i] \in 1 .. Len(frames)
  BY DEF TypeOK, DeviceOK, G
<1> QED
  BY <1>2, <1>3, <1>4 DEF TypeOK, PhoneOK, QueueOK, DeviceOK

LEMMA OnPost ==
  ASSUME TypeOK, NEW e, e \in EventType, queue' = Append(queue, e)
  PROVE  /\ Len(queue) \in Nat /\ Len(queue') = Len(queue) + 1
         /\ Q = 1 .. Len(queue) /\ Q' = 1 .. Len(queue) + 1
         /\ \A p \in Q' : p \in Q \/ p = Len(queue) + 1
         /\ \A i \in Q : i \in Q' /\ i < Len(queue) + 1 /\ queue'[i] = queue[i]
         /\ queue'[Len(queue) + 1] = e
<1>1. queue \in Seq(EventType) /\ Len(queue) \in Nat
  BY Ranges
<1>2. /\ Len(queue') = Len(queue) + 1 /\ \A i \in 1 .. Len(queue) : queue'[i] = queue[i]
      /\ queue'[Len(queue) + 1] = e
  BY <1>1
<1> QED
  BY <1>1, <1>2 DEF Q

\* The end of a link, or the beginning of one, is put behind all that waits.
LEMMA PostTurn ==
  ASSUME TypeOK, Order, NEW e, e \in EventType, e.kind # "data", Post(e),
         UNCHANGED <<frames, rxsn, got>>, out' = Nothing
  PROVE  Order'
<1>1. CASE queue' = queue
  BY <1>1 DEF Order, InOrder, NoneYounger, Counted, Turns, Q, G, IsData, IsTurn, At
<1>2. CASE queue' = Append(queue, e)
  <2> DEFINE n == Len(queue) + 1
  <2>1. /\ n \in Nat /\ \A p \in Q' : p \in Q \/ p = n
        /\ \A i \in Q : i \in Nat /\ i \in Q' /\ i < n /\ queue'[i] = queue[i]
        /\ queue'[n] = e
    BY <1>2, OnPost
  <2>2. G' = G
    BY DEF G
  <2> HIDE DEF n
  <2>3. \A p \in Q' : IsData(p)' => p \in Q
    BY <2>1 DEF IsData
  <2>4. InOrder'
    BY <2>1, <2>3 DEF Order, InOrder, IsData, At
  <2>5. NoneYounger'
    BY <2>1, <2>2, <2>3 DEF Order, NoneYounger, IsData, At
  <2>6. Counted'
    BY <2>1, <2>2, <2>3 DEF Order, Counted, IsData, At
  <2>7. Turns'
    <3> SUFFICES ASSUME NEW q \in Q', IsTurn(q)', NEW p \in Q', q < p, IsData(p)'
                 PROVE  /\ \A i \in G' : got'[i] < At(p)'
                        /\ \A r \in Q' : r < q /\ IsData(r)' => At(r)' < At(p)'
      BY DEF Turns
    <3>1. p \in Q /\ q \in Q
      BY <2>1, <2>3
    <3> QED
      BY <2>1, <2>2, <2>3, <3>1 DEF Order, Turns, IsData, IsTurn, At
  <2> QED
    BY <2>4, <2>5, <2>6, <2>7 DEF Order
<1> QED
  BY <1>1, <1>2 DEF Post

\* A fragment of the phone's frame is put behind all that waits; the frame may
\* have begun with it.
LEMMA PostData ==
  ASSUME TypeOK, Order, NEW e, e \in EventType, e.kind = "data",
         Post(e) \/ UNCHANGED queue, UNCHANGED <<rxsn, got>>,
         out' # Nothing,
         Len(frames') \in Nat, e.load.frame = Len(frames'),
         \A f \in 1 .. Len(frames) : frames'[f] = frames[f],
         \/ Len(frames') = Len(frames) + 1
         \/ out # Nothing /\ frames' = frames
  PROVE  Order'
<1> DEFINE m == Len(frames')
<1>0. /\ m \in Nat /\ Len(frames) \in Nat /\ Len(frames) <= m
      /\ \A i \in G : got[i] \in 1 .. Len(frames) /\ got[i] \in Nat
      /\ \A p \in Q : IsData(p) => At(p) \in Nat /\ At(p) <= m /\ At(p) \in 1 .. Len(frames)
  BY Ranges
<1>1. G' = G
  BY DEF G
\* Whatever was taken is older than the frame, or was counted.
<1>2. \A i \in G : got[i] = m => out # Nothing /\ m = Len(frames) /\ frames[got[i]].sn <= rxsn
  BY <1>0 DEF Order, Counted
<1>3. \A i \in G : frames'[got[i]] = frames[got[i]]
  BY <1>0
<1>4. \A q \in Q : IsTurn(q) =>
        /\ \A i \in G : got[i] < m
        /\ \A r \in Q : r < q /\ IsData(r) => At(r) < m
  <2>1. CASE m = Len(frames) + 1
    BY <1>0, <2>1
  <2>2. CASE out # Nothing /\ frames' = frames
    BY <2>2 DEF Order, Turns
  <2> QED
    BY <2>1, <2>2
<1>5. CASE queue' = queue
  <2>1. InOrder' /\ NoneYounger'
    BY <1>1, <1>5 DEF Order, InOrder, NoneYounger, Q, IsData, At
  <2>2. Counted'
    <3>1. \A i \in G : \A p \in Q : IsData(p) /\ got[i] = At(p) => frames[got[i]].sn <= rxsn
      BY DEF Order, Counted
    <3> QED
      BY <1>1, <1>2, <1>3, <1>5, <3>1 DEF Counted, Q, IsData, At
  <2>3. Turns'
    BY <1>1, <1>4, <1>5 DEF Order, Turns, Q, IsData, IsTurn, At
  <2> QED
    BY <2>1, <2>2, <2>3 DEF Order
<1>6. CASE queue' = Append(queue, e)
  <2> DEFINE n == Len(queue) + 1
  <2>1. /\ n \in Nat /\ \A p \in Q' : p \in Q \/ p = n
        /\ \A i \in Q : i \in Nat /\ i \in Q' /\ i < n /\ queue'[i] = queue[i]
        /\ queue'[n].kind = "data" /\ queue'[n].load.frame = m
    BY <1>6, OnPost
  <2> HIDE DEF n, m
  <2>2. queue'[n].kind \notin {"conn", "disc"}
    BY <2>1
  <2>3. InOrder'
    <3> SUFFICES ASSUME NEW p \in Q', NEW q \in Q', p < q, IsData(p)', IsData(q)'
                 PROVE  At(p)' <= At(q)'
      BY DEF InOrder
    <3>1. p \in Q /\ At(p)' = At(p) /\ IsData(p)
      BY <2>1 DEF IsData, At
    <3>2. CASE q = n
      BY <1>0, <2>1, <3>1, <3>2 DEF At
    <3>3. CASE q \in Q
      BY <2>1, <3>1, <3>3 DEF Order, InOrder, IsData, At
    <3> QED
      BY <2>1, <3>2, <3>3
  <2>4. NoneYounger'
    <3> SUFFICES ASSUME NEW i \in G, NEW p \in Q', IsData(p)'
                 PROVE  got[i] <= At(p)'
      BY <1>1 DEF NoneYounger
    <3>1. CASE p = n
      BY <1>0, <2>1, <3>1 DEF At
    <3>2. CASE p \in Q
      BY <2>1, <3>2 DEF Order, NoneYounger, IsData, At
    <3> QED
      BY <2>1, <3>1, <3>2
  <2>5. Counted'
    <3>1. \A i \in G : out' # Nothing /\ got[i] = m => frames'[got[i]].sn <= rxsn
      BY <1>2, <1>3
    <3>2. ASSUME NEW i \in G, NEW p \in Q', IsData(p)', got[i] = At(p)'
          PROVE  frames'[got[i]].sn <= rxsn
      <4>1. CASE p = n
        BY <1>2, <1>3, <2>1, <3>2, <4>1 DEF At
      <4>2. CASE p \in Q
        BY <1>3, <2>1, <3>2, <4>2 DEF Order, Counted, IsData, At
      <4> QED
        BY <2>1, <4>1, <4>2
    <3> QED
      BY <1>1, <3>1, <3>2 DEF Counted, m
  <2>6. Turns'
    <3> SUFFICES ASSUME NEW q \in Q', IsTurn(q)'
                 PROVE  /\ \A p \in Q' : q < p /\ IsData(p)' =>
                             /\ \A i \in G : got[i] < At(p)'
                             /\ \A r \in Q' : r < q /\ IsData(r)' => At(r)' < At(p)'
                        /\ \A i \in G : got[i] < m
                        /\ \A r \in Q' : r < q /\ IsData(r)' => At(r)' < m
      BY <1>1 DEF Turns, m
    <3>1. q \in Q /\ IsTurn(q)
      BY <2>1, <2>2 DEF IsTurn
    <3>2. \A r \in Q' : r < q => r \in Q /\ At(r)' = At(r) /\ (IsData(r)' <=> IsData(r))
      BY <2>1, <3>1 DEF IsData, At
    <3>3. ASSUME NEW p \in Q', q < p, IsData(p)'
          PROVE  /\ \A i \in G : got[i] < At(p)'
                 /\ \A r \in Q' : r < q /\ IsData(r)' => At(r)' < At(p)'
      <4>1. CASE p = n
        <5>1. At(p)' = m
          BY <2>1, <4>1 DEF At
        <5> QED
          BY <1>4, <3>1, <3>2, <5>1
      <4>2. CASE p \in Q
        <5>1. IsData(p) /\ At(p)' = At(p)
          BY <2>1, <3>3, <4>2 DEF IsData, At
        <5> QED
          BY <3>1, <3>2, <3>3, <4>2, <5>1 DEF Order, Turns
      <4> QED
        BY <2>1, <4>1, <4>2
    <3> QED
      BY <1>4, <3>1, <3>2, <3>3
  <2> QED
    BY <2>3, <2>4, <2>5, <2>6 DEF Order
<1> QED
  BY <1>5, <1>6 DEF Post

LEMMA OnServe ==
  ASSUME TypeOK, batch > 0, queue' = Tail(queue)
  PROVE  /\ 1 \in Q /\ ev = queue[1]
         /\ \A p \in Q' : /\ p \in Nat /\ p + 1 \in Q /\ 1 < p + 1
                          /\ queue'[p] = queue[p + 1]
<1>1. /\ Len(queue) \in Nat /\ 1 \in 1 .. Len(queue) /\ ev = queue[1]
      /\ queue' \in Seq(EventType) /\ Len(queue') = Len(queue) - 1
      /\ \A i \in 1 .. Len(queue) - 1 : queue'[i] = queue[i + 1]
  BY Served1, Ranges DEF TypeOK
<1> QED
  BY <1>1 DEF Q

\* The first event is served without a command: the count stays, grows to the
\* frame's, or is reset by an event of the link.
LEMMA Serve ==
  ASSUME TypeOK, Order, batch > 0, queue' = Tail(queue),
         UNCHANGED <<frames, out, got>>,
         \/ rxsn' = rxsn
         \/ rxsn' \in Nat /\ rxsn' > rxsn
         \/ ev.kind \in {"conn", "disc"} /\ rxsn' = 0
  PROVE  Order'
<1>1. /\ 1 \in Q /\ ev = queue[1] /\ G' = G
      /\ \A p \in Q' : /\ p \in Nat /\ p + 1 \in Q /\ 1 < p + 1
                       /\ queue'[p] = queue[p + 1]
  BY OnServe DEF G
<1>2. \A p, q \in Q' : p < q => p + 1 < q + 1
  BY <1>1
<1>3. InOrder'
  BY <1>1, <1>2 DEF Order, InOrder, IsData, At
<1>4. NoneYounger'
  BY <1>1 DEF Order, NoneYounger, IsData, At
<1>5. Counted'
  <2>1. \A i \in G : got[i] \in 1 .. Len(frames) /\ frames[got[i]].sn \in Nat
    BY Ranges
  <2>2. CASE rxsn' = rxsn \/ (rxsn' \in Nat /\ rxsn' > rxsn)
    <3>1. rxsn \in Nat /\ rxsn' \in Nat /\ rxsn <= rxsn'
      BY <2>2, Ranges
    <3>2. ASSUME NEW i \in G, frames[got[i]].sn <= rxsn
          PROVE  frames[got[i]].sn <= rxsn'
      BY <2>1, <3>1, <3>2
    <3> QED
      BY <1>1, <3>2 DEF Order, Counted, IsData, At
  <2>3. CASE ev.kind \in {"conn", "disc"}
    <3>1. IsTurn(1)
      BY <1>1, <2>3 DEF IsTurn
    <3>2. /\ \A p \in Q : 1 < p /\ IsData(p) => \A i \in G : got[i] < At(p)
          /\ out # Nothing => \A i \in G : got[i] < Len(frames)
      BY <1>1, <3>1 DEF Order, Turns
    <3>3. \A p \in Q' : IsData(p)' => \A i \in G : got[i] < At(p)'
      BY <1>1, <3>2 DEF IsData, At
    <3>7. \A p \in Q : IsData(p) => At(p) \in Nat
      BY Ranges
    <3>4. \A p \in Q' : IsData(p)' => At(p)' \in Nat
      BY <1>1, <3>7 DEF IsData, At
    <3>5. Len(frames) \in Nat
      BY Ranges
    <3>6. \A i \in G : /\ \A p \in Q' : IsData(p)' => got[i] # At(p)'
                       /\ out # Nothing => got[i] # Len(frames)
      BY <2>1, <3>2, <3>3, <3>4, <3>5
    <3> QED
      BY <1>1, <3>6 DEF Counted
  <2> QED
    BY <2>2, <2>3
<1>6. Turns'
  <2> SUFFICES ASSUME NEW q \in Q', IsTurn(q)'
               PROVE  /\ \A p \in Q' : q < p /\ IsData(p)' =>
                           /\ \A i \in G : got[i] < At(p)'
                           /\ \A r \in Q' : r < q /\ IsData(r)' => At(r)' < At(p)'
                      /\ out # Nothing =>
                           /\ \A i \in G : got[i] < Len(frames)
                           /\ \A r \in Q' : r < q /\ IsData(r)' => At(r)' < Len(frames)
    BY <1>1 DEF Turns
  <2>1. q + 1 \in Q /\ IsTurn(q + 1)
    BY <1>1 DEF IsTurn
  <2>2. \A p \in Q' : p + 1 \in Q /\ (IsData(p)' <=> IsData(p + 1)) /\ At(p)' = At(p + 1)
    BY <1>1 DEF IsData, At
  <2> QED
    BY <1>1, <1>2, <2>1, <2>2 DEF Order, Turns
<1> QED
  BY <1>3, <1>4, <1>5, <1>6 DEF Order

\* A frame becomes a command: it is younger than all that did before it.
LEMMA TakeIt ==
  ASSUME TypeOK, Order, batch > 0, ev.kind = "data", Taken, UNCHANGED <<frames, out>>
  PROVE  /\ \A i \in G : got[i] < piece.frame
         /\ Order'
<1> DEFINE f == piece.frame
           n == Len(got) + 1
           z == Len(queue)
<1>1. /\ 1 \in Q /\ IsData(1) /\ At(1) = f
      /\ z \in Nat /\ f \in 1 .. Len(frames)
      /\ \A p \in Q' : \/ p = z /\ queue'[p].kind = "cmd"
                       \/ /\ p \in Nat /\ p + 1 \in Q /\ 1 < p + 1
                          /\ queue'[p] = queue[p + 1]
  <2>1. /\ z \in Nat /\ 1 \in 1 .. z /\ ev = queue[1]
        /\ Tail(queue) \in Seq(EventType) /\ Len(Tail(queue)) = z - 1
        /\ \A i \in 1 .. z - 1 : Tail(queue)[i] = queue[i + 1]
    BY Served1, Ranges DEF TypeOK
  <2>2. Event("cmd", Nothing) \in EventType /\ Event("cmd", Nothing).kind = "cmd"
    BY NothingIsLoad DEF Event, EventType
  <2>3. /\ Len(queue') = z /\ queue'[z] = Event("cmd", Nothing)
        /\ \A i \in 1 .. z - 1 : queue'[i] = queue[i + 1]
    BY <2>1, <2>2 DEF Taken
  <2>4. 1 \in Q /\ IsData(1) /\ At(1) = f
    BY <2>1 DEF Q, IsData, At, piece
  <2>5. f \in 1 .. Len(frames)
    BY <2>4, Ranges
  <2>6. \A p \in 1 .. z : p = z \/ (p \in 1 .. z - 1 /\ p + 1 \in 1 .. z /\ 1 < p + 1)
    <3>1. z \in Nat
      OBVIOUS
    <3> HIDE DEF z
    <3> QED
      BY <2>1, <3>1
  <2> QED
    <3>1. \A p \in 1 .. z :
            \/ p = z /\ queue'[p].kind = "cmd"
            \/ p \in Nat /\ p + 1 \in 1 .. z /\ 1 < p + 1 /\ queue'[p] = queue[p + 1]
      BY <2>2, <2>3, <2>6
    <3> QED
      BY <2>1, <2>3, <2>4, <2>5, <3>1 DEF Q
<1>2. /\ n \in Nat /\ \A i \in G' : i \in G \/ i = n
      /\ \A i \in G : i \in Nat /\ got'[i] = got[i]
      /\ got'[n] = f
  <2>1. got \in Seq(1 .. Len(frames)) /\ got' = Append(got, f)
    BY Ranges DEF Taken
  <2> QED
    BY <1>1, <2>1 DEF G
<1>3. /\ rxsn \in Nat /\ rxsn' = frames[f].sn /\ rxsn < rxsn' /\ rxsn' \in Nat
      /\ \A i \in G : got[i] \in 1 .. Len(frames) /\ got[i] \in Nat /\ frames[got[i]].sn \in Nat
      /\ \A p \in Q : IsData(p) => At(p) \in Nat
  <2>1. rxsn \in Nat /\ \A g \in 1 .. Len(frames) : frames[g].sn \in Nat
    BY Ranges
  <2>2. \A i \in G : got[i] \in 1 .. Len(frames)
    BY Ranges
  <2>3. \A p \in Q : IsData(p) => At(p) \in 1 .. Len(frames)
    BY Ranges
  <2>4. rxsn' = frames[f].sn /\ rxsn < rxsn' /\ rxsn' \in Nat
    BY <1>1, <2>1 DEF Taken
  <2> QED BY <2>1, <2>2, <2>3, <2>4
<1> HIDE DEF f, n, z
<1>4. \A i \in G : got[i] < f
  <2>1. \A i \in G : got[i] <= f
    BY <1>1 DEF Order, NoneYounger
  <2>2. \A i \in G : got[i] = f => frames[f].sn <= rxsn
    BY <1>1 DEF Order, Counted
  <2>3. f \in Nat
    BY <1>1, <1>3
  <2> QED
    BY <1>3, <2>1, <2>2, <2>3
<1>5. \A p \in Q' : IsData(p)' =>
        p \in Nat /\ p + 1 \in Q /\ 1 < p + 1 /\ IsData(p + 1) /\ At(p)' = At(p + 1)
  BY <1>1 DEF IsData, At
<1>6. InOrder'
  <2>1. \A p, q \in Q' : p \in Nat /\ q \in Nat /\ p < q => p + 1 < q + 1
    OBVIOUS
  <2> QED
    BY <1>5, <2>1 DEF Order, InOrder
\* What waits behind the frame is not older.
<1>7. \A p \in Q' : IsData(p)' => f <= At(p)'
  BY <1>1, <1>5 DEF Order, InOrder
<1>8. NoneYounger'
  BY <1>2, <1>5, <1>7 DEF Order, NoneYounger
<1>9. Counted'
  <2>1. ASSUME NEW i \in G, frames[got[i]].sn <= rxsn
        PROVE  frames[got[i]].sn <= rxsn'
    BY <1>3, <2>1
  <2>2. frames[f].sn <= rxsn'
    BY <1>3
  <2> QED
    BY <1>2, <1>5, <2>1, <2>2 DEF Order, Counted
<1>10. Turns'
  <2> SUFFICES ASSUME NEW q \in Q', IsTurn(q)'
               PROVE  /\ \A p \in Q' : q < p /\ IsData(p)' =>
                           /\ \A i \in G' : got'[i] < At(p)'
                           /\ \A r \in Q' : r < q /\ IsData(r)' => At(r)' < At(p)'
                      /\ out # Nothing =>
                           /\ \A i \in G' : got'[i] < Len(frames)
                           /\ \A r \in Q' : r < q /\ IsData(r)' => At(r)' < Len(frames)
    BY DEF Turns
  <2>1. q \in Nat /\ q + 1 \in Q /\ 1 < q + 1 /\ IsTurn(q + 1)
    BY <1>1 DEF IsTurn
  <2>2. /\ \A p \in Q : q + 1 < p /\ IsData(p) =>
             /\ \A i \in G : got[i] < At(p)
             /\ \A r \in Q : r < q + 1 /\ IsData(r) => At(r) < At(p)
        /\ out # Nothing =>
             /\ \A i \in G : got[i] < Len(frames)
             /\ \A r \in Q : r < q + 1 /\ IsData(r) => At(r) < Len(frames)
    BY <2>1 DEF Order, Turns
  <2>3. ASSUME NEW p \in Q', q < p, IsData(p)'
        PROVE  /\ \A i \in G' : got'[i] < At(p)'
               /\ \A r \in Q' : r < q /\ IsData(r)' => At(r)' < At(p)'
    <3>1. p + 1 \in Q /\ q + 1 < p + 1 /\ IsData(p + 1) /\ At(p)' = At(p + 1)
      BY <1>5, <2>1, <2>3
    <3>2. f < At(p + 1) /\ \A i \in G : got[i] < At(p + 1)
      BY <1>1, <2>1, <2>2, <3>1
    <3>3. ASSUME NEW r \in Q', r < q, IsData(r)'
          PROVE  At(r)' < At(p)'
      <4>1. r + 1 \in Q /\ r + 1 < q + 1 /\ IsData(r + 1) /\ At(r)' = At(r + 1)
        BY <1>5, <2>1, <3>3
      <4> QED
        BY <2>2, <3>1, <4>1
    <3> QED
      BY <1>2, <3>1, <3>2, <3>3
  <2>4. ASSUME out # Nothing
        PROVE  /\ \A i \in G' : got'[i] < Len(frames)
               /\ \A r \in Q' : r < q /\ IsData(r)' => At(r)' < Len(frames)
    <3>1. f < Len(frames) /\ \A i \in G : got[i] < Len(frames)
      BY <1>1, <2>1, <2>2, <2>4
    <3>2. ASSUME NEW r \in Q', r < q, IsData(r)'
          PROVE  At(r)' < Len(frames)
      <4>1. r + 1 \in Q /\ r + 1 < q + 1 /\ IsData(r + 1) /\ At(r)' = At(r + 1)
        BY <1>5, <2>1, <3>2
      <4> QED
        BY <2>2, <2>4, <4>1
    <3> QED
      BY <1>2, <3>1, <3>2
  <2> QED
    BY <2>3, <2>4
<1> QED
  BY <1>4, <1>6, <1>8, <1>9, <1>10 DEF Order, f

LEMMA OrderStart == ASSUME Init PROVE Order /\ Offline
BY DEF Init, Order, InOrder, NoneYounger, Counted, Turns, Offline, Q, G

-----------------------------------------------------------------------------
(* The steps                                                               *)

Still == UNCHANGED <<frames, got>>
Kept == Order' /\ Offline'

LEMMA ConnectStep == ASSUME IInv, Connect PROVE Kept /\ Still
<1>1. Event("conn", Nothing) \in EventType /\ Event("conn", Nothing).kind # "data"
  BY NothingIsLoad DEF Event, EventType
<1>2. out' = Nothing /\ UNCHANGED <<frames, rxsn, got>> /\ Post(Event("conn", Nothing))
  BY DEF Connect, IInv, Offline
<1>3. Order'
  BY <1>1, <1>2, PostTurn DEF IInv
<1> QED
  BY <1>2, <1>3 DEF Offline, Kept, Still

LEMMA DisconnectStep == ASSUME IInv, Disconnect PROVE Kept /\ Still
<1>1. Event("disc", Nothing) \in EventType /\ Event("disc", Nothing).kind # "data"
  BY NothingIsLoad DEF Event, EventType
<1>2. out' = Nothing /\ UNCHANGED <<frames, rxsn, got>> /\ Post(Event("disc", Nothing))
  BY DEF Disconnect
<1>3. Order'
  BY <1>1, <1>2, PostTurn DEF IInv
<1> QED
  BY <1>2, <1>3 DEF Offline, Kept, Still

\* A frame's fragment is no Nothing.
LEMMA FragmentIs ==
  ASSUME TypeOK, NEW p \in Load, p.frame = Len(frames'), Len(frames') \in Nat, Len(frames') > 0
  PROVE  /\ p # Nothing
         /\ Event("data", p) \in EventType
         /\ Event("data", p).kind = "data" /\ Event("data", p).load.frame = Len(frames')
BY DEF Event, EventType, Nothing

LEMMA BeginFrameStep ==
  ASSUME IInv, NEW len \in FrameLens, BeginFrame(len)
  PROVE  Kept /\ Len(frames') = Len(frames) + 1 /\ got' = got
<1>1. TypeOK /\ TypeOK'
  BY BeginFrameType DEF IInv
<1>2. /\ Len(frames) \in Nat /\ Len(frames') = Len(frames) + 1
      /\ \A f \in 1 .. Len(frames) : frames'[f] = frames[f]
  <2>1. frames \in Seq(Frame)
    BY <1>1, Ranges
  <2> QED
    BY <2>1 DEF BeginFrame
<1>3. out' \in Load /\ out'.frame = Len(frames') /\ Write(out')
  BY <1>1, <1>2 DEF BeginFrame, Encode, TypeOK, PhoneOK
<1>4. UNCHANGED <<rxsn, got, link>> /\ link # 0
  BY DEF BeginFrame
<1>5. Order'
  <2>1. /\ out' # Nothing /\ Event("data", out') \in EventType
        /\ Event("data", out').kind = "data" /\ Event("data", out').load.frame = Len(frames')
    BY <1>1, <1>2, <1>3, FragmentIs
  <2>2. Len(frames') \in Nat
    BY <1>2
  <2> QED
    BY <1>1, <1>2, <1>3, <1>4, <2>1, <2>2, PostData DEF IInv, Write
<1> QED
  BY <1>2, <1>4, <1>5 DEF Kept, Offline

\* A fragment more of the frame, or the last one again
LEMMA MoreStep ==
  ASSUME IInv, SendFragment \/ RepeatFragment PROVE Kept /\ Still
<1>1. TypeOK /\ TypeOK'
  BY SendFragmentType, RepeatFragmentType DEF IInv
<1>2. out # Nothing /\ UNCHANGED <<frames, rxsn, got, link>> /\ out'.frame = out.frame
  BY DEF SendFragment, RepeatFragment, radio, AllSent, Encode
<1>3. /\ out' \in Load /\ out'.frame = Len(frames') /\ Len(frames') \in Nat /\ Len(frames') > 0
      /\ Len(frames') = Len(frames)
  <2>1. out.frame = Len(frames) /\ out.frame > 0 /\ Len(frames) \in Nat
    BY <1>1, <1>2, Ranges DEF TypeOK, PhoneOK
  <2>2. out' \in Load
    BY <1>1 DEF TypeOK, PhoneOK
  <2> QED
    BY <1>2, <2>1, <2>2
<1>4. Write(out')
  BY DEF SendFragment, RepeatFragment, radio, Post, Write
<1>5. /\ out' # Nothing /\ Event("data", out') \in EventType
      /\ Event("data", out').kind = "data" /\ Event("data", out').load.frame = Len(frames')
  BY <1>1, <1>3, FragmentIs
<1>6. Order'
  BY <1>1, <1>2, <1>3, <1>4, <1>5, PostData DEF IInv, Write
<1>7. link # 0
  BY <1>2 DEF IInv, Offline
<1> QED
  BY <1>2, <1>6, <1>7 DEF Kept, Offline, Still

LEMMA PassStep == ASSUME IInv, Pass PROVE Kept /\ Still
BY DEF Pass, radio, Kept, Still, Offline, IInv, Order, InOrder, NoneYounger, Counted, Turns,
       Q, G, IsData, IsTurn, At

LEMMA TurnStep == ASSUME IInv, HandleConn \/ HandleDisc \/ HandleCmd PROVE Kept /\ Still
<1>1. /\ batch > 0 /\ queue' = Tail(queue) /\ UNCHANGED <<radio, got>>
      /\ rxsn' = rxsn \/ (ev.kind \in {"conn", "disc"} /\ rxsn' = 0)
  BY DEF HandleConn, HandleDisc, HandleCmd, Serving, Served
<1>2. UNCHANGED <<frames, out, got, link>>
  BY <1>1 DEF radio
<1>3. Order'
  BY <1>1, <1>2, Serve DEF IInv
<1> QED
  BY <1>2, <1>3 DEF Kept, Still, Offline, IInv

LEMMA FragmentStep ==
  ASSUME IInv, NEW memory \in BOOLEAN, RefuseFragment \/ TakeAgain \/ TakeFragment(memory)
  PROVE  Kept /\ Still
<1>1. batch > 0 /\ queue' = Tail(queue) /\ UNCHANGED <<radio, got, rxsn>>
  BY DEF RefuseFragment, TakeAgain, TakeFragment, Serving, Served
<1>2. UNCHANGED <<frames, out, got, link>>
  BY <1>1 DEF radio
<1>3. Order'
  BY <1>1, <1>2, Serve DEF IInv
<1> QED
  BY <1>2, <1>3 DEF Kept, Still, Offline, IInv

LEMMA TakeFrameStep ==
  ASSUME IInv, NEW memory \in BOOLEAN, NEW refusal \in Refusals, TakeFrame(memory, refusal)
  PROVE  /\ Kept /\ UNCHANGED frames
         /\ \/ UNCHANGED got
            \/ /\ piece.frame \in 1 .. Len(frames)
               /\ \A i \in DOMAIN got : got[i] < piece.frame
               /\ got' = Append(got, piece.frame)
<1>1. batch > 0 /\ ev.kind = "data" /\ UNCHANGED <<frames, out, link>>
  BY DEF TakeFrame, Serving
<1>2. TypeOK /\ Order /\ Offline /\ piece.frame \in 1 .. Len(frames)
  BY <1>1, Served1 DEF IInv, TypeOK
<1>3. Offline'
  BY <1>1, <1>2 DEF Offline
<1>4. CASE Dropped
  <2>1. Order'
    BY <1>1, <1>2, <1>4, Serve DEF Dropped
  <2> QED
    BY <1>1, <1>3, <1>4, <2>1 DEF Dropped, Kept
<1>5. CASE LostAfter
  <2>1. frames[piece.frame].sn \in Nat
    BY <1>2, Ranges
  <2>2. Order'
    BY <1>1, <1>2, <1>5, <2>1, Serve DEF LostAfter
  <2> QED
    BY <1>1, <1>3, <1>5, <2>2 DEF LostAfter, Kept
<1>6. CASE Taken
  <2>1. Order' /\ \A i \in G : got[i] < piece.frame
    BY <1>1, <1>2, <1>6, TakeIt
  <2>2. DOMAIN got = G
    BY <1>2, Ranges DEF G
  <2> QED
    BY <1>1, <1>2, <1>3, <1>6, <2>1, <2>2 DEF Taken, Kept
<1> QED
  BY <1>2, <1>4, <1>5, <1>6, FrameFates

LEMMA Step ==
  ASSUME IInv, [Next]_vars
  PROVE  IInv' /\ [Channel!Next]_<<Len(frames), got>>
<1>1. TypeOK'
  BY TypeStep DEF IInv
<1>2. CASE \E len \in FrameLens : BeginFrame(len)
  <2>1. Kept /\ Len(frames') = Len(frames) + 1 /\ got' = got
    BY <1>2, BeginFrameStep
  <2> QED
    BY <1>1, <2>1 DEF Kept, IInv, Channel!Next, Channel!Send
<1>3. CASE \E memory \in BOOLEAN, refusal \in Refusals : TakeFrame(memory, refusal)
  <2>1. /\ Kept /\ UNCHANGED frames
        /\ \/ UNCHANGED got
           \/ /\ piece.frame \in 1 .. Len(frames)
              /\ \A i \in DOMAIN got : got[i] < piece.frame
              /\ got' = Append(got, piece.frame)
    BY <1>3, TakeFrameStep
  <2>2. UNCHANGED got \/ \E f \in 1 .. Len(frames) : Channel!Deliver(f)
    BY <2>1 DEF Channel!Deliver
  <2>3. UNCHANGED got \/ Channel!Next
    BY <2>2 DEF Channel!Next
  <2> QED
    BY <1>1, <2>1, <2>3 DEF Kept, IInv
<1>4. CASE \/ Connect \/ Disconnect \/ SendFragment \/ RepeatFragment \/ Pass
           \/ HandleConn \/ HandleDisc \/ HandleCmd \/ RefuseFragment \/ TakeAgain
           \/ \E memory \in BOOLEAN : TakeFragment(memory)
  <2>1. Kept /\ Still
    BY <1>4, ConnectStep, DisconnectStep, MoreStep, PassStep, TurnStep, FragmentStep
  <2> QED
    BY <1>1, <2>1 DEF Kept, Still, IInv
<1>5. CASE UNCHANGED vars
  BY <1>1, <1>5 DEF vars, radio, IInv, Order, InOrder, NoneYounger, Counted, Turns, Offline,
                    Q, G, IsData, IsTurn, At
<1> QED
  BY <1>2, <1>3, <1>4, <1>5 DEF Next, Phone, Handle

\* The invariant: what is queued, what was taken and what was counted agree.
THEOREM InvariantHolds == Spec => []IInv
<1>1. Init => IInv
  BY TypeStart, OrderStart DEF IInv
<1>2. IInv /\ [Next]_vars => IInv'
  BY Step
<1> QED
  BY <1>1, <1>2, PTL DEF Spec

\* Whatever is lost, repeated or mixed up on the way, a command is a frame that a
\* phone sent, and it is taken once and in the order of sending.
THEOREM Implementation == Spec => ImplementsChannel
<1>1. Init => Channel!Init
  BY DEF Init, Channel!Init
<1>2. IInv /\ [Next]_vars => [Channel!Next]_<<Len(frames), got>>
  BY Step
<1> QED
  BY <1>1, <1>2, InvariantHolds, PTL DEF Spec, ImplementsChannel, Channel!Spec

-----------------------------------------------------------------------------
(* Wholeness: a frame whose fragments all came, one after the other, finds *)
(* the decoder with exactly those before it.                               *)

\* A fragment of a frame that was begun, as the encoder makes them.
IsPiece(x) ==
  /\ x.frame \in 1 .. Len(frames) /\ x.num \in Nat /\ x.from \in Nat /\ x.size \in Nat
  /\ x.num <= x.from /\ x.size > 0 /\ x.from + x.size <= frames[x.frame].len
  /\ x.num = 0 => x.from = 0

\* The number of a fragment tells where in its frame it is.
Chained(x, y) ==
  x.frame = y.frame =>
    /\ y.num = x.num => y = x
    /\ y.num = x.num + 1 => y.from = x.from + x.size

\* The fragments there are: waiting, the last written and the last handled.
Known == ({intact, out} \cup {queue[p].load : p \in {i \in Q : IsData(i)}}) \ {Nothing}

Pieces ==
  /\ \A x \in Known : IsPiece(x)
  /\ \A x, y \in Known : Chained(x, y)
  /\ out # Nothing => \A x \in Known : x.frame = Len(frames) => x.num <= out.num

\* The frames of a link are numbered upwards, and the last is the one being sent.
Numbered ==
  /\ link \in 0 .. links
  /\ \A f \in 1 .. Len(frames) : frames[f].link \in 1 .. links /\ frames[f].len < NumLimit
  /\ \A g, f \in 1 .. Len(frames) :
       g < f /\ frames[g].link = frames[f].link => frames[g].sn < frames[f].sn
  /\ out # Nothing => link # 0 /\ frames[Len(frames)].link = link
  /\ link # 0 /\ out = Nothing => \A f \in 1 .. Len(frames) : frames[f].link # link

LinkAt(p) == frames[At(p)].link

\* Between the fragments of two links an event of the link waits, if the later
\* was told of its connection.
Parted ==
  /\ \A p, q \in Q :
       p < q /\ IsData(p) /\ IsData(q) /\ LinkAt(p) # LinkAt(q) /\ LinkAt(q) \notin deaf
         => \E r \in Q : p < r /\ r < q /\ IsTurn(r)
  /\ link # 0 /\ link \notin deaf
       => \A p \in Q : IsData(p) /\ LinkAt(p) # link => \E r \in Q : p < r /\ IsTurn(r)

\* The count is zero, or the number of a frame of link l, f or before, that was
\* taken or turned away.
CountOf(l, f) ==
  rxsn = 0 \/ \E g \in 1 .. f : /\ frames[g].link = l /\ frames[g].sn = rxsn
                                /\ (\E i \in G : got[i] = g) \/ g \in turned

\* The count is of the link of the fragment, or will be reset before it is read.
CountIsOwn ==
  /\ \A p \in Q : IsData(p) /\ LinkAt(p) \notin deaf
       => (\E r \in Q : r < p /\ IsTurn(r)) \/ CountOf(LinkAt(p), At(p))
  /\ link # 0 /\ link \notin deaf
       => (\E r \in Q : IsTurn(r)) \/ CountOf(link, Len(frames))

\* The last fragment handled is of no frame that goes on behind an event of the
\* link.
Behind ==
  \A q \in Q : IsTurn(q) =>
    /\ \A p \in Q : q < p /\ IsData(p) => intact.frame < At(p)
    /\ out # Nothing => intact.frame < Len(frames)

\* Fragments of frame f wait or may still be written.
GoesOn(f) == (out # Nothing /\ f = Len(frames)) \/ \E p \in Q : IsData(p) /\ At(p) = f

\* The pieces are those of frame f from its beginning up to the place n.
IsBegun(f, mem, n) ==
  /\ Len(mem) > 0
  /\ \A i \in DOMAIN mem :
       /\ mem[i].frame = f
       /\ mem[i].from = IF i = 1 THEN 0 ELSE mem[i - 1].from + mem[i - 1].size
  /\ mem[Len(mem)].from + mem[Len(mem)].size = n

\* The decoder holds the beginning of frame f, up to the place n.
HoldsUpTo(f, n) ==
  /\ dec.total = frames[f].len /\ dec.cnt = n
  /\ air.held /\ air.max = frames[f].len /\ air.off = n
  /\ IsBegun(f, air.mem, n)

Holding ==
  intact # Nothing =>
    LET f == intact.frame IN
    /\ dec.num = intact.num
    /\ frames[f].len <= FrameMax /\ f \notin turned /\ GoesOn(f) /\ ~Ended(intact)
         => HoldsUpTo(f, intact.from + intact.size)

WInv == Pieces /\ Numbered /\ Parted /\ CountIsOwn /\ Behind /\ Holding

\* What waits is what waited behind the first event, and commands.
Shifted ==
  /\ 1 \in Q /\ ev = queue[1]
  /\ \A p \in Q' : \/ queue'[p].kind = "cmd"
                   \/ p + 1 \in Q /\ 1 < p + 1 /\ queue'[p] = queue[p + 1]
  /\ \A r \in Q : 1 < r => r - 1 \in Q' /\ queue'[r - 1] = queue[r]

LEMMA ServedShifts ==
  ASSUME TypeOK, batch > 0,
         queue' = Tail(queue) \/ queue' = Append(Tail(queue), Event("cmd", Nothing))
  PROVE  Shifted
<1> DEFINE z == Len(queue)
<1>1. /\ z \in Nat /\ 1 \in 1 .. z /\ ev = queue[1]
      /\ Tail(queue) \in Seq(EventType) /\ Len(Tail(queue)) = z - 1
      /\ \A i \in 1 .. z - 1 : Tail(queue)[i] = queue[i + 1]
  BY Served1, Ranges DEF TypeOK
<1>2. Event("cmd", Nothing) \in EventType /\ Event("cmd", Nothing).kind = "cmd"
  BY NothingIsLoad DEF Event, EventType
<1>3. /\ Len(queue') \in {z - 1, z}
      /\ \A i \in 1 .. z - 1 : queue'[i] = queue[i + 1]
      /\ Len(queue') = z => queue'[z].kind = "cmd"
  <2>1. CASE queue' = Tail(queue)
    <3>1. Len(queue') = z - 1 /\ \A i \in 1 .. z - 1 : queue'[i] = queue[i + 1]
      BY <1>1, <2>1, Zenon
    <3>2. \A k \in Nat : k - 1 # k
      OBVIOUS
    <3>3. Len(queue') # z
      BY <1>1, <3>1, <3>2, Zenon
    <3> QED BY <3>1, <3>3, Zenon
  <2>2. CASE queue' = Append(Tail(queue), Event("cmd", Nothing))
    BY <1>1, <1>2, <2>2
  <2> QED BY <2>1, <2>2
<1> HIDE DEF z
<1>4. \A p \in 1 .. Len(queue') : p \in 1 .. z - 1 \/ (p = z /\ Len(queue') = z)
  BY <1>1, <1>3
<1>5. \A p \in 1 .. z - 1 : p + 1 \in 1 .. z /\ 1 < p + 1
  BY <1>1
<1>6. \A r \in 1 .. z : 1 < r => r - 1 \in 1 .. z - 1 /\ r - 1 \in 1 .. Len(queue') /\ (r - 1) + 1 = r
  BY <1>1, <1>3
<1> QED
  BY <1>1, <1>3, <1>4, <1>5, <1>6 DEF Shifted, Q, z

\* Event e may have been put behind what waits.
Grown(e) ==
  /\ Len(queue) + 1 \in Nat /\ Q \subseteq Nat
  /\ \A p \in Q' : p \in Q \/ (p = Len(queue) + 1 /\ queue'[p] = e)
  /\ \A r \in Q : r \in Q' /\ r < Len(queue) + 1 /\ queue'[r] = queue[r]

LEMMA PostGrows ==
  ASSUME TypeOK, NEW e \in EventType, Post(e) \/ UNCHANGED queue
  PROVE  Grown(e) /\ (~Full /\ Post(e) => Len(queue) + 1 \in Q' /\ queue'[Len(queue) + 1] = e)
<1>1. Len(queue) \in Nat
  BY Ranges
<1>2. CASE queue' = queue
  <2>1. Full \/ ~Post(e)
    <3>1. Len(Append(queue, e)) = Len(queue) + 1
      BY Ranges
    <3> QED
      BY <1>1, <1>2, <3>1 DEF Post
  <2> QED
    BY <1>1, <1>2, <2>1 DEF Grown, Q
<1>3. CASE queue' = Append(queue, e)
  BY <1>1, <1>3, OnPost DEF Grown, Q
<1> QED
  BY <1>2, <1>3 DEF Post

\* Frames are not changed, but one may be begun.
More ==
  /\ Len(frames) \in Nat /\ Len(frames') \in Nat /\ Len(frames) <= Len(frames')
  /\ \A f \in 1 .. Len(frames) : f \in 1 .. Len(frames') /\ frames'[f] = frames[f]

-----------------------------------------------------------------------------
(* Pieces and numbers *)

LEMMA KnownPieces ==
  ASSUME TypeOK, Pieces, More, Known' \subseteq Known
  PROVE  /\ \A x \in Known' : IsPiece(x)'
         /\ \A x, y \in Known' : Chained(x, y)
BY DEF Pieces, More, IsPiece

LEMMA PiecesKept ==
  ASSUME TypeOK, Pieces, UNCHANGED frames, out' \in {out, Nothing}, Known' \subseteq Known
  PROVE  Pieces'
<1>1. More
  BY Ranges DEF More
<1>2. out' # Nothing => \A x \in Known' : x.frame = Len(frames') => x.num <= out'.num
  BY DEF Pieces
<1> QED
  BY <1>1, <1>2, KnownPieces DEF Pieces, Chained

LEMMA PiecesMore ==
  ASSUME TypeOK, Pieces, More, NEW y, out' = y, Known' \subseteq Known \cup {y}, IsPiece(y)',
         \A x \in Known : Chained(x, y) /\ Chained(y, x),
         \A x \in Known : x.frame = Len(frames') => x.num <= y.num
  PROVE  Pieces'
<1>1. \A x \in Known : IsPiece(x)'
  BY DEF Pieces, More, IsPiece
<1>2. \A x \in Known' : IsPiece(x)'
  BY <1>1
<1>p. y.num \in Nat /\ y.num <= y.num /\ y.num # y.num + 1
  BY DEF IsPiece
<1>3. Chained(y, y)
  BY <1>p DEF Chained
<1>4. \A x, z \in Known' : Chained(x, z)
  BY <1>3 DEF Pieces
<1>5. \A x \in Known' : x.frame = Len(frames') => x.num <= y.num
  BY <1>p
<1> QED
  BY <1>2, <1>4, <1>5 DEF Pieces, Chained

-----------------------------------------------------------------------------
(* The events of the link are in their places *)

LEMMA PartedGrows ==
  ASSUME TypeOK, Parted, NEW e \in EventType, e.kind # "data", Grown(e),
         frames' = frames, deaf \subseteq deaf',
         \/ link' = 0
         \/ link' \in deaf'
         \/ Len(queue) + 1 \in Q' /\ queue'[Len(queue) + 1] = e /\ e.kind \in {"conn", "disc"}
  PROVE  Parted'
<1>1. \A p \in Q' : IsData(p)' => p \in Q /\ IsData(p) /\ LinkAt(p)' = LinkAt(p)
  BY DEF Grown, IsData, LinkAt, At
<1>2. \A r \in Q : r \in Q' /\ r < Len(queue) + 1 /\ (IsTurn(r)' <=> IsTurn(r))
  BY DEF Grown, IsTurn
<1>3. \A p, q \in Q' :
        p < q /\ IsData(p)' /\ IsData(q)' /\ LinkAt(p)' # LinkAt(q)' /\ LinkAt(q)' \notin deaf'
          => \E r \in Q' : p < r /\ r < q /\ IsTurn(r)'
  BY <1>1, <1>2 DEF Parted
<1>4. link' # 0 /\ link' \notin deaf'
        => \A p \in Q' : IsData(p)' /\ LinkAt(p)' # link' => \E r \in Q' : p < r /\ IsTurn(r)'
  BY <1>1, <1>2 DEF IsTurn
<1> QED
  BY <1>3, <1>4 DEF Parted

LEMMA PartedMore ==
  ASSUME TypeOK, Parted, NEW e \in EventType, e.kind = "data", e.load.frame = Len(frames'),
         Grown(e), More, UNCHANGED <<link, deaf>>,
         link # 0, frames'[Len(frames')].link = link
  PROVE  Parted'
<1> DEFINE n == Len(queue) + 1
<1>1. \A p \in Q : IsData(p) => At(p) \in 1 .. Len(frames)
  BY Ranges
<1>2. \A p \in Q' : IsData(p)' =>
        \/ p \in Q /\ IsData(p) /\ LinkAt(p)' = LinkAt(p)
        \/ p = n /\ LinkAt(p)' = link
  BY <1>1 DEF Grown, More, IsData, LinkAt, At
<1>3. /\ n \in Nat /\ Q \subseteq Nat
      /\ \A r \in Q : r \in Q' /\ r < n /\ (IsTurn(r)' <=> IsTurn(r))
  BY DEF Grown, IsTurn
<1> HIDE DEF n
<1>4. ASSUME NEW p \in Q', NEW q \in Q', p < q, IsData(p)', IsData(q)',
             LinkAt(p)' # LinkAt(q)', LinkAt(q)' \notin deaf'
      PROVE  \E r \in Q' : p < r /\ r < q /\ IsTurn(r)'
  <2>1. p \in Q /\ IsData(p) /\ LinkAt(p)' = LinkAt(p)
    <3>0. q \in Q \/ q = n
      BY <1>2, <1>4
    <3>a. n \in Nat /\ Q \subseteq Nat /\ \A r \in Q : r < n
      BY <1>3
    <3>1. q \in Nat /\ ~(n < q)
      <4>1. CASE q \in Q
        BY <3>a, <4>1
      <4>2. CASE q = n
        BY <3>a, <4>2
      <4> QED BY <3>0, <4>1, <4>2
    <3>2. p # n
      BY <1>4, <3>1
    <3> QED BY <1>2, <1>4, <3>2
  <2>2. CASE q \in Q /\ IsData(q) /\ LinkAt(q)' = LinkAt(q)
    BY <1>3, <1>4, <2>1, <2>2 DEF Parted
  <2>3. CASE q = n /\ LinkAt(q)' = link
    BY <1>3, <1>4, <2>1, <2>3 DEF Parted
  <2> QED BY <1>2, <1>4, <2>2, <2>3
<1>5. link' # 0 /\ link' \notin deaf'
        => \A p \in Q' : IsData(p)' /\ LinkAt(p)' # link' => \E r \in Q' : p < r /\ IsTurn(r)'
  BY <1>2, <1>3 DEF Parted
<1> QED
  BY <1>4, <1>5 DEF Parted

LEMMA PartedShifts ==
  ASSUME TypeOK, Parted, Shifted, UNCHANGED <<frames, link, deaf>>
  PROVE  Parted'
<1>1. /\ \A p \in Q' : IsData(p)' => p + 1 \in Q /\ 1 < p + 1 /\ IsData(p + 1)
                                      /\ LinkAt(p)' = LinkAt(p + 1)
      /\ \A r \in Q : 1 < r /\ IsTurn(r) => r - 1 \in Q' /\ IsTurn(r - 1)'
      /\ Q \subseteq Nat /\ Q' \subseteq Nat
  BY DEF Shifted, IsData, IsTurn, LinkAt, At, Q
<1>2. ASSUME NEW p \in Q', NEW q \in Q', p < q, IsData(p)', IsData(q)',
             LinkAt(p)' # LinkAt(q)', LinkAt(q)' \notin deaf'
      PROVE  \E r \in Q' : p < r /\ r < q /\ IsTurn(r)'
  <2>1. /\ p + 1 \in Q /\ q + 1 \in Q /\ 1 < p + 1 /\ p + 1 < q + 1 /\ IsData(p + 1) /\ IsData(q + 1)
        /\ LinkAt(p + 1) # LinkAt(q + 1) /\ LinkAt(q + 1) \notin deaf
    BY <1>1, <1>2
  <2>2. PICK r \in Q : p + 1 < r /\ r < q + 1 /\ IsTurn(r)
    BY <2>1 DEF Parted
  <2>3. r - 1 \in Q' /\ IsTurn(r - 1)' /\ p < r - 1 /\ r - 1 < q
    BY <1>1, <2>1, <2>2
  <2> QED BY <2>3
<1>3. ASSUME link # 0, link \notin deaf, NEW p \in Q', IsData(p)', LinkAt(p)' # link
      PROVE  \E r \in Q' : p < r /\ IsTurn(r)'
  <2>1. PICK r \in Q : p + 1 < r /\ IsTurn(r)
    BY <1>1, <1>3 DEF Parted
  <2>2. r - 1 \in Q' /\ IsTurn(r - 1)' /\ p < r - 1
    BY <1>1, <1>3, <2>1
  <2> QED BY <2>2
<1> QED
  BY <1>2, <1>3 DEF Parted

-----------------------------------------------------------------------------
(* The count is of the link *)

\* CountOf after the step.
CountOfNext(l, f) ==
  rxsn' = 0 \/ \E g \in 1 .. f : /\ frames'[g].link = l /\ frames'[g].sn = rxsn'
                                 /\ (\E i \in G' : got'[i] = g) \/ g \in turned'

LEMMA CountKept ==
  ASSUME TypeOK, More, UNCHANGED <<rxsn, got>>, turned \subseteq turned',
         NEW l, NEW f \in Nat, NEW h \in Nat, f <= h, f <= Len(frames), CountOf(l, f)
  PROVE  CountOfNext(l, h)
<1>1. CASE rxsn = 0
  BY <1>1 DEF CountOfNext
<1>2. CASE rxsn # 0
  <2>1. PICK g \in 1 .. f : /\ frames[g].link = l /\ frames[g].sn = rxsn
                            /\ (\E i \in G : got[i] = g) \/ g \in turned
    BY <1>2 DEF CountOf
  <2>2. g \in 1 .. h /\ frames'[g] = frames[g]
    BY DEF More
  <2>3. (\E i \in G' : got'[i] = g) \/ g \in turned'
    BY <2>1 DEF G
  <2> QED
    BY <2>1, <2>2, <2>3 DEF CountOfNext
<1> QED
  BY <1>1, <1>2

LEMMA CountGrows ==
  ASSUME TypeOK, CountIsOwn, NEW e \in EventType, e.kind # "data", Grown(e),
         UNCHANGED <<frames, rxsn, got, turned>>, deaf \subseteq deaf',
         \/ link' = 0
         \/ link' \in deaf'
         \/ Len(queue) + 1 \in Q' /\ queue'[Len(queue) + 1] = e /\ e.kind \in {"conn", "disc"}
  PROVE  CountIsOwn'
<1>0. More
  BY Ranges DEF More
<1>1. \A p \in Q' : IsData(p)' => p \in Q /\ IsData(p) /\ At(p)' = At(p) /\ LinkAt(p)' = LinkAt(p)
  BY DEF Grown, IsData, LinkAt, At
<1>2. \A r \in Q : r \in Q' /\ (IsTurn(r)' <=> IsTurn(r))
  BY DEF Grown, IsTurn
<1>3. ASSUME NEW p \in Q', IsData(p)', LinkAt(p)' \notin deaf'
      PROVE  (\E r \in Q' : r < p /\ IsTurn(r)') \/ CountOfNext(LinkAt(p)', At(p)')
  <2>1. /\ p \in Q /\ IsData(p) /\ LinkAt(p) \notin deaf /\ At(p)' = At(p) /\ LinkAt(p)' = LinkAt(p)
        /\ At(p) \in Nat /\ At(p) <= Len(frames)
    BY <1>1, <1>3, Ranges
  <2>2. CASE \E r \in Q : r < p /\ IsTurn(r)
    BY <1>2, <2>2
  <2>3. CASE CountOf(LinkAt(p), At(p))
    <3>1. At(p) <= At(p)
      BY <2>1
    <3> QED BY <1>0, <2>1, <2>3, <3>1, CountKept
  <2> QED BY <2>1, <2>2, <2>3 DEF CountIsOwn
<1>4. link' # 0 /\ link' \notin deaf' => \E r \in Q' : IsTurn(r)'
  BY DEF IsTurn
<1> QED
  BY <1>3, <1>4 DEF CountIsOwn, CountOf, CountOfNext

LEMMA CountMore ==
  ASSUME TypeOK, CountIsOwn, NEW e \in EventType, e.kind = "data", e.load.frame = Len(frames'),
         Grown(e), More, UNCHANGED <<link, deaf, rxsn, got, turned>>,
         link # 0, frames'[Len(frames')].link = link
  PROVE  CountIsOwn'
<1> DEFINE n == Len(queue) + 1
<1>0. /\ \A p \in Q : IsData(p) => At(p) \in 1 .. Len(frames) /\ At(p) \in Nat /\ At(p) <= Len(frames)
      /\ Len(frames) \in Nat
  BY Ranges
<1>1. \A p \in Q' : IsData(p)' =>
        \/ p \in Q /\ IsData(p) /\ At(p)' = At(p) /\ LinkAt(p)' = LinkAt(p)
        \/ p = n /\ At(p)' = Len(frames') /\ LinkAt(p)' = link
  <2>1. \A p \in Q' : p \in Q \/ (p = n /\ queue'[p] = e)
    BY DEF Grown
  <2>2. \A p \in Q : queue'[p] = queue[p]
    BY DEF Grown
  <2>3. \A p \in Q : IsData(p) => frames'[At(p)] = frames[At(p)]
    BY <1>0 DEF More
  <2>4. ASSUME NEW p \in Q, IsData(p)'
        PROVE  IsData(p) /\ At(p)' = At(p) /\ LinkAt(p)' = LinkAt(p)
    BY <2>2, <2>3, <2>4 DEF IsData, LinkAt, At
  <2>5. ASSUME NEW p \in Q', queue'[p] = e
        PROVE  At(p)' = Len(frames') /\ LinkAt(p)' = link
    BY <2>5 DEF LinkAt, At
  <2> QED BY <2>1, <2>4, <2>5
<1>2. \A r \in Q : r \in Q' /\ r < n /\ (IsTurn(r)' <=> IsTurn(r))
  BY DEF Grown, IsTurn
<1> HIDE DEF n
<1>3. link \notin deaf => (\E r \in Q : IsTurn(r)) \/ CountOfNext(link, Len(frames'))
  <2>1. CASE CountOf(link, Len(frames))
    <3>1. /\ Len(frames) \in Nat /\ Len(frames') \in Nat /\ Len(frames) <= Len(frames')
          /\ Len(frames) <= Len(frames) /\ turned \subseteq turned'
      BY DEF More
    <3> QED BY <2>1, <3>1, CountKept
  <2> QED BY <2>1 DEF CountIsOwn
<1>4. ASSUME NEW p \in Q', IsData(p)', LinkAt(p)' \notin deaf'
      PROVE  (\E r \in Q' : r < p /\ IsTurn(r)') \/ CountOfNext(LinkAt(p)', At(p)')
  <2>1. CASE p \in Q /\ IsData(p) /\ At(p)' = At(p) /\ LinkAt(p)' = LinkAt(p)
    <3>1. CASE \E r \in Q : r < p /\ IsTurn(r)
      BY <1>2, <3>1
    <3>2. CASE CountOf(LinkAt(p), At(p))
      <4>1. At(p) \in Nat /\ At(p) <= Len(frames) /\ At(p) <= At(p) /\ turned \subseteq turned'
        BY <1>0, <2>1
      <4> QED BY <2>1, <3>2, <4>1, CountKept
    <3> QED BY <1>4, <2>1, <3>1, <3>2 DEF CountIsOwn
  <2>2. CASE p = n /\ At(p)' = Len(frames') /\ LinkAt(p)' = link
    BY <1>2, <1>3, <1>4, <2>2
  <2> QED BY <1>1, <1>4, <2>1, <2>2
<1>5. link \notin deaf => (\E r \in Q' : IsTurn(r)') \/ CountOfNext(link, Len(frames'))
  BY <1>2, <1>3
<1> QED
  BY <1>4, <1>5 DEF CountIsOwn, CountOf, CountOfNext

\* An event is served: the count stays, is reset, as it is by every event of the
\* link, or becomes that of a frame that was taken or turned away.
LEMMA CountShifts ==
  ASSUME TypeOK, CountIsOwn, Parted, InOrder, Shifted, UNCHANGED <<frames, link, deaf>>,
         turned \subseteq turned',
         \/ rxsn' = 0
         \/ ~IsTurn(1) /\ UNCHANGED <<rxsn, got>>
         \/ /\ IsData(1) /\ rxsn' = frames[At(1)].sn
            /\ (\E i \in G' : got'[i] = At(1)) \/ At(1) \in turned'
  PROVE  CountIsOwn'
<1>0. /\ \A p \in Q : IsData(p) => At(p) \in 1 .. Len(frames) /\ At(p) \in Nat /\ At(p) <= Len(frames)
      /\ Len(frames) \in Nat /\ Q \subseteq Nat /\ Q' \subseteq Nat
      /\ \A k \in Nat : k <= k
  BY Ranges DEF Q
<1>m. More
  BY <1>0 DEF More
<1>1. /\ \A p \in Q' : IsData(p)' => p + 1 \in Q /\ 1 < p + 1 /\ IsData(p + 1)
                         /\ At(p)' = At(p + 1) /\ LinkAt(p)' = LinkAt(p + 1)
      /\ \A r \in Q : 1 < r /\ IsTurn(r) => r - 1 \in Q' /\ IsTurn(r - 1)'
      /\ 1 \in Q
  BY DEF Shifted, IsData, IsTurn, LinkAt, At
<1>t. \A r \in Q : IsTurn(r) /\ ~IsTurn(1) => 1 < r
  BY DEF Q
<1>2. CASE rxsn' = 0
  BY <1>2 DEF CountIsOwn, CountOf
<1>3. CASE ~IsTurn(1) /\ UNCHANGED <<rxsn, got>>
  <2>1. ASSUME NEW p \in Q', IsData(p)', LinkAt(p)' \notin deaf'
        PROVE  (\E r \in Q' : r < p /\ IsTurn(r)') \/ CountOfNext(LinkAt(p)', At(p)')
    <3>0. /\ p + 1 \in Q /\ IsData(p + 1) /\ At(p)' = At(p + 1) /\ LinkAt(p)' = LinkAt(p + 1)
          /\ LinkAt(p + 1) \notin deaf /\ p \in Nat
          /\ At(p + 1) \in Nat /\ At(p + 1) <= Len(frames) /\ At(p + 1) <= At(p + 1)
      BY <1>0, <1>1, <2>1
    <3>1. CASE \E r \in Q : r < p + 1 /\ IsTurn(r)
      <4>1. PICK r \in Q : r < p + 1 /\ IsTurn(r)
        BY <3>1
      <4>2. r - 1 \in Q' /\ IsTurn(r - 1)' /\ r - 1 < p
        BY <1>0, <1>1, <1>3, <1>t, <3>0, <4>1
      <4> QED BY <4>2
    <3>2. CASE CountOf(LinkAt(p + 1), At(p + 1))
      BY <1>m, <1>3, <3>0, <3>2, CountKept
    <3> QED BY <3>0, <3>1, <3>2 DEF CountIsOwn
  <2>2. link # 0 /\ link \notin deaf => (\E r \in Q' : IsTurn(r)') \/ CountOfNext(link, Len(frames))
    <3>1. CASE \E r \in Q : IsTurn(r)
      BY <1>1, <1>3, <1>t, <3>1
    <3>2. CASE CountOf(link, Len(frames))
      <4>1. Len(frames) <= Len(frames)
        BY <1>0
      <4> QED BY <1>0, <1>m, <1>3, <3>2, <4>1, CountKept
    <3> QED BY <3>1, <3>2 DEF CountIsOwn
  <2> QED BY <2>1, <2>2 DEF CountIsOwn, CountOf, CountOfNext
<1>4. CASE /\ IsData(1) /\ rxsn' = frames[At(1)].sn
           /\ (\E i \in G' : got'[i] = At(1)) \/ At(1) \in turned'
  <2>0. At(1) \in 1 .. Len(frames) /\ frames' = frames
    BY <1>0, <1>1, <1>4
  <2>a. ASSUME NEW f, At(1) \in 1 .. f
        PROVE  CountOfNext(LinkAt(1), f)
    BY <1>4, <2>0, <2>a DEF CountOfNext, LinkAt
  <2>1. ASSUME NEW p \in Q', IsData(p)', LinkAt(p)' \notin deaf'
        PROVE  (\E r \in Q' : r < p /\ IsTurn(r)') \/ CountOfNext(LinkAt(p)', At(p)')
    <3>0. /\ p + 1 \in Q /\ IsData(p + 1) /\ At(p)' = At(p + 1) /\ LinkAt(p)' = LinkAt(p + 1)
          /\ LinkAt(p + 1) \notin deaf /\ p \in Nat /\ 1 < p + 1 /\ At(p + 1) \in Nat
      BY <1>0, <1>1, <2>1
    <3>1. CASE LinkAt(1) = LinkAt(p + 1)
      <4>1. At(1) <= At(p + 1)
        BY <1>1, <1>4, <3>0 DEF InOrder
      <4>2. At(1) \in 1 .. At(p + 1)
        BY <2>0, <3>0, <4>1
      <4>3. CountOfNext(LinkAt(1), At(p + 1))
        BY <2>a, <4>2
      <4> QED BY <3>0, <3>1, <4>3
    <3>2. CASE LinkAt(1) # LinkAt(p + 1)
      <4>1. PICK r \in Q : 1 < r /\ r < p + 1 /\ IsTurn(r)
        BY <1>1, <1>4, <3>0, <3>2 DEF Parted
      <4>2. r - 1 \in Q' /\ IsTurn(r - 1)' /\ r - 1 < p
        BY <1>0, <1>1, <3>0, <4>1
      <4> QED BY <4>2
    <3> QED BY <3>1, <3>2
  <2>2. ASSUME link # 0, link \notin deaf
        PROVE  (\E r \in Q' : IsTurn(r)') \/ CountOfNext(link, Len(frames))
    <3>1. CASE LinkAt(1) = link
      BY <2>0, <2>a, <3>1
    <3>2. CASE LinkAt(1) # link
      BY <1>1, <1>4, <2>2, <3>2 DEF Parted
    <3> QED BY <3>1, <3>2
  <2> QED BY <2>1, <2>2 DEF CountIsOwn, CountOf, CountOfNext
<1> QED
  BY <1>2, <1>3, <1>4

-----------------------------------------------------------------------------
(* An event of the link is behind the frame it ended *)

LEMMA IntactOld ==
  ASSUME TypeOK, Pieces
  PROVE  intact.frame \in 0 .. Len(frames)
<1>1. Len(frames) \in Nat
  BY Ranges
<1>2. CASE intact = Nothing
  BY <1>1, <1>2, NothingIsLoad
<1>3. CASE intact # Nothing
  BY <1>1, <1>3 DEF Pieces, Known, IsPiece
<1> QED BY <1>2, <1>3

LEMMA BehindGrows ==
  ASSUME TypeOK, Behind, NEW e \in EventType, e.kind # "data", Grown(e),
         UNCHANGED <<frames, intact>>, out' = Nothing
  PROVE  Behind'
<1>1. \A p \in Q' : IsData(p)' => p \in Q /\ IsData(p) /\ At(p)' = At(p)
  BY DEF Grown, IsData, At
<1>2. /\ \A q \in Q' : q = Len(queue) + 1 \/ (q \in Q /\ (IsTurn(q)' => IsTurn(q)))
      /\ \A p \in Q : p \in Nat /\ p < Len(queue) + 1
      /\ Len(queue) + 1 \in Nat
  BY DEF Grown, IsTurn
<1>3. ASSUME NEW q \in Q', IsTurn(q)', NEW p \in Q', q < p, IsData(p)'
      PROVE  intact.frame < At(p)'
  <2>1. p \in Q /\ IsData(p) /\ At(p)' = At(p) /\ p \in Nat /\ p < Len(queue) + 1
    BY <1>1, <1>2, <1>3
  <2>2. q # Len(queue) + 1
    BY <1>2, <1>3, <2>1
  <2>3. q \in Q /\ IsTurn(q)
    BY <1>2, <1>3, <2>2
  <2> QED BY <1>3, <2>1, <2>3 DEF Behind
<1> QED
  BY <1>3 DEF Behind

LEMMA BehindMore ==
  ASSUME TypeOK, Pieces, Behind, NEW e \in EventType, e.kind = "data",
         e.load.frame = Len(frames'), Grown(e), More, intact' = intact,
         \/ Len(frames') = Len(frames) + 1
         \/ out # Nothing /\ frames' = frames
  PROVE  Behind'
<1>0. /\ intact.frame \in 0 .. Len(frames) /\ Len(frames) \in Nat
      /\ \A p \in Q : IsData(p) => At(p) \in 1 .. Len(frames)
  BY IntactOld, Ranges
<1>1. \A q \in Q' : IsTurn(q)' => q \in Q /\ IsTurn(q)
  BY DEF Grown, IsTurn
<1>2. \A p \in Q' : IsData(p)' =>
        \/ p \in Q /\ IsData(p) /\ At(p)' = At(p)
        \/ At(p)' = Len(frames')
  BY DEF Grown, IsData, At
<1>3. ASSUME NEW q \in Q', IsTurn(q)'
      PROVE  intact.frame < Len(frames')
  <2>1. CASE Len(frames') = Len(frames) + 1
    BY <1>0, <2>1
  <2>2. CASE out # Nothing /\ frames' = frames
    BY <1>1, <1>3, <2>2 DEF Behind
  <2> QED BY <2>1, <2>2
<1> QED
  BY <1>1, <1>2, <1>3 DEF Behind

LEMMA BehindShifts ==
  ASSUME TypeOK, Behind, Turns, Shifted, UNCHANGED <<frames, out>>,
         intact' \in {intact, Nothing} \/ (IsData(1) /\ intact' = queue[1].load)
  PROVE  Behind'
<1>0. /\ \A p \in Q : IsData(p) => At(p) \in 1 .. Len(frames)
      /\ Len(frames) \in Nat /\ Q \subseteq Nat /\ Q' \subseteq Nat
      /\ out # Nothing => Len(frames) > 0
  BY Ranges DEF Q, TypeOK, PhoneOK
<1>1. /\ \A p \in Q' : IsData(p)' => p + 1 \in Q /\ IsData(p + 1) /\ At(p)' = At(p + 1)
      /\ \A q \in Q' : IsTurn(q)' => q + 1 \in Q /\ 1 < q + 1 /\ IsTurn(q + 1)
      /\ 1 \in Q
  BY DEF Shifted, IsData, IsTurn, At
<1>2. \A q \in Q : 1 < q /\ IsTurn(q) =>
        /\ \A p \in Q : q < p /\ IsData(p) => intact'.frame < At(p)
        /\ out # Nothing => intact'.frame < Len(frames)
  <2>1. CASE intact' = intact
    BY <2>1 DEF Behind
  <2>2. CASE intact' = Nothing
    BY <1>0, <2>2, NothingIsLoad
  <2>3. CASE IsData(1) /\ intact' = queue[1].load
    BY <1>1, <2>3 DEF Turns, At
  <2> QED BY <2>1, <2>2, <2>3
<1>3. \A p, q \in Q' : q < p => q + 1 < p + 1
  BY <1>0
<1> QED
  BY <1>1, <1>2, <1>3 DEF Behind

-----------------------------------------------------------------------------
(* What is held stays held *)

LEMMA GoesOnKept ==
  ASSUME TypeOK, Pieces, More, NEW e \in EventType, Grown(e), NEW f \in 1 .. Len(frames),
         \/ e.kind # "data" /\ out' = Nothing
         \/ e.load.frame = Len(frames') /\ Len(frames') = Len(frames) + 1
         \/ e.load.frame = Len(frames') /\ out # Nothing /\ frames' = frames,
         GoesOn(f)'
  PROVE  GoesOn(f)
<1>1. Len(frames) \in Nat
  BY Ranges
<1>2. \A p \in Q' : IsData(p)' => \/ p \in Q /\ IsData(p) /\ At(p)' = At(p)
                                  \/ e.kind = "data" /\ At(p)' = e.load.frame
  BY DEF Grown, IsData, At
<1> QED
  BY <1>1, <1>2 DEF GoesOn

LEMMA GoesOnShifts ==
  ASSUME Shifted, UNCHANGED <<frames, out>>, NEW f, GoesOn(f)'
  PROVE  GoesOn(f)
<1>1. \A p \in Q' : IsData(p)' => p + 1 \in Q /\ IsData(p + 1) /\ At(p)' = At(p + 1)
  BY DEF Shifted, IsData, At
<1> QED
  BY <1>1 DEF GoesOn

LEMMA HoldingKept ==
  ASSUME TypeOK, Pieces, Holding, More, UNCHANGED <<dec, air, intact, turned>>,
         intact # Nothing /\ GoesOn(intact.frame)' => GoesOn(intact.frame)
  PROVE  Holding'
<1> SUFFICES ASSUME intact # Nothing PROVE Holding'
  BY DEF Holding
<1> DEFINE f == intact.frame
<1>1. f \in 1 .. Len(frames)
  BY DEF Pieces, Known, IsPiece
<1>2. frames'[f] = frames[f]
  BY <1>1 DEF More
<1>3. Ended(intact)' <=> Ended(intact)
  BY <1>2 DEF Ended
<1>4. dec.num = intact.num
  BY DEF Holding
<1>5. ASSUME frames[f].len <= FrameMax, f \notin turned, GoesOn(f), ~Ended(intact)
      PROVE  HoldsUpTo(f, intact.from + intact.size)
  BY <1>5 DEF Holding
<1> QED
  BY <1>2, <1>3, <1>4, <1>5 DEF Holding, HoldsUpTo, IsBegun

\* An event of the link: what was held goes on with nothing.
LEMMA HoldingEnds ==
  ASSUME TypeOK, Pieces, Holding, Behind, Shifted, IsTurn(1),
         UNCHANGED <<frames, out, dec, intact, turned>>
  PROVE  Holding'
<1> SUFFICES ASSUME intact # Nothing PROVE Holding'
  BY DEF Holding
<1>1. intact.frame \in 1 .. Len(frames) /\ Len(frames) \in Nat
  BY Ranges DEF Pieces, Known, IsPiece
<1>2. /\ \A p \in Q : 1 < p /\ IsData(p) => intact.frame < At(p)
      /\ out # Nothing => intact.frame < Len(frames)
  BY DEF Behind, Shifted
<1>3. \A p \in Q : IsData(p) => At(p) \in Nat
  BY Ranges
<1>4. \A p \in Q' : IsData(p)' => p + 1 \in Q /\ 1 < p + 1 /\ IsData(p + 1) /\ At(p)' = At(p + 1)
  BY DEF Shifted, IsData, At
<1>5. /\ \A p \in Q' : IsData(p)' => At(p)' # intact.frame
      /\ out # Nothing => intact.frame # Len(frames)
  BY <1>1, <1>2, <1>3, <1>4
<1>6. ~GoesOn(intact.frame)'
  BY <1>5 DEF GoesOn
<1> QED
  BY <1>6 DEF Holding

-----------------------------------------------------------------------------
(* The frames are numbered *)

LEMMA NumberedConnect == ASSUME TypeOK, Numbered, Offline, Connect PROVE Numbered'
<1>1. links \in Nat /\ link' = links + 1 /\ links' = links + 1 /\ UNCHANGED <<frames, out>> /\ out = Nothing
  BY DEF TypeOK, PhoneOK, Connect, Offline
<1>2. \A f \in 1 .. Len(frames) : frames[f].link \in 1 .. links
  BY DEF Numbered
<1>3. \A f \in 1 .. Len(frames) : frames[f].link \in 1 .. links + 1 /\ frames[f].link # links + 1
  BY <1>1, <1>2
<1> QED
  BY <1>1, <1>3 DEF Numbered

LEMMA NumberedBegin ==
  ASSUME TypeOK, TypeOK', Numbered, NEW len \in FrameLens, BeginFrame(len) PROVE Numbered' /\ More
<1> DEFINE n == Len(frames)
           fr == [len |-> len, link |-> link,
                  sn |-> 1 + (IF out = Nothing THEN 0 ELSE frames[n].sn)]
<1>1. /\ frames \in Seq(Frame) /\ n \in Nat /\ fr.len = len /\ fr.link = link
      /\ frames' = Append(frames, fr) /\ UNCHANGED <<link, links>> /\ link # 0
      /\ fr.sn = 1 + (IF out = Nothing THEN 0 ELSE frames[n].sn)
  BY Ranges DEF BeginFrame
<1>2. /\ Len(frames') = n + 1 /\ frames'[n + 1] = fr
      /\ \A f \in 1 .. n : frames'[f] = frames[f] /\ frames[f].sn \in Nat
  BY <1>1, Ranges
<1>3. out' # Nothing
  BY <1>1, <1>2, NothingIsLoad DEF BeginFrame, Encode
<1>4. len < NumLimit
  BY BleFrameAssumption
<1> HIDE DEF fr
<1>5. \A g \in 1 .. n : frames[g].link = link => frames[g].sn < fr.sn
  <2>1. CASE out = Nothing
    BY <1>1, <2>1 DEF Numbered
  <2>2. CASE out # Nothing
    <3> SUFFICES ASSUME NEW g \in 1 .. n, frames[g].link = link PROVE frames[g].sn < fr.sn
      OBVIOUS
    <3>1. /\ n \in 1 .. n /\ frames[n].link = link /\ frames[n].sn \in Nat /\ frames[g].sn \in Nat
          /\ fr.sn = 1 + frames[n].sn
      BY <1>1, <1>2, <2>2 DEF Numbered
    <3>2. g < n => frames[g].sn < frames[n].sn
      BY <2>2, <3>1 DEF Numbered
    <3> QED BY <1>1, <3>1, <3>2
  <2> QED BY <2>1, <2>2
<1> HIDE DEF n
<1>6. \A f \in 1 .. n + 1 : (f \in 1 .. n /\ frames'[f] = frames[f]) \/ (f = n + 1 /\ frames'[f] = fr)
  BY <1>1, <1>2
<1>7. link \in 1 .. links
  BY <1>1 DEF Numbered, TypeOK, PhoneOK
<1>8. /\ link' \in 0 .. links'
      /\ \A f \in 1 .. n + 1 : frames'[f].link \in 1 .. links /\ frames'[f].len < NumLimit
  BY <1>1, <1>4, <1>6, <1>7 DEF Numbered, n
<1>9. ASSUME NEW g \in 1 .. n + 1, NEW f \in 1 .. n + 1, g < f, frames'[g].link = frames'[f].link
      PROVE  frames'[g].sn < frames'[f].sn
  <2>1. g \in 1 .. n /\ frames'[g] = frames[g]
    BY <1>1, <1>6, <1>9 DEF n
  <2>2. CASE f \in 1 .. n /\ frames'[f] = frames[f]
    BY <1>9, <2>1, <2>2 DEF Numbered, n
  <2>3. CASE f = n + 1 /\ frames'[f] = fr
    BY <1>1, <1>5, <1>9, <2>1, <2>3
  <2> QED BY <1>6, <2>2, <2>3
<1>10. More
  BY <1>1, <1>2 DEF More, n
<1> QED
  BY <1>1, <1>2, <1>3, <1>8, <1>9, <1>10 DEF Numbered, n

LEMMA NumberedKept ==
  ASSUME Numbered, UNCHANGED <<link, links, frames>>, out' # Nothing <=> out # Nothing
  PROVE  Numbered'
BY DEF Numbered

LEMMA NumberedEnd ==
  ASSUME TypeOK, Numbered, UNCHANGED <<links, frames>>, link' = 0, out' = Nothing
  PROVE  Numbered'
BY DEF Numbered, TypeOK, PhoneOK

-----------------------------------------------------------------------------
(* The fragments of a frame follow one another *)

LEMMA EncodeIs ==
  ASSUME NEW f \in Nat, NEW len \in Nat, NEW n \in Nat, NEW cnt \in Nat, cnt < len,
         NEW x, x = Encode(f, len, n, cnt)
  PROVE  /\ x.frame = f /\ x.num = n /\ x.from = cnt
         /\ x.size \in Nat /\ x.size > 0 /\ cnt + x.size <= len
<1> DEFINE room == PacketLen - Header(len, n)
<1>1. VarLen(n) \in 1 .. 4 /\ VarLen(len) \in 1 .. 4 /\ PacketLen \in 10 .. 244
  BY VarLenType, BleFrameAssumption
<1>2. room \in Nat /\ room > 0
  BY <1>1 DEF Header
<1>3. /\ x.frame = f /\ x.num = n /\ x.from = cnt
      /\ x.size = IF len - cnt < room THEN len - cnt ELSE room
  BY DEF Encode
<1> HIDE DEF room
<1>4. len - cnt \in Nat /\ len - cnt > 0 /\ cnt + (len - cnt) = len
  BY SMT
<1> QED
  BY <1>2, <1>3, <1>4

LEMMA KnownGrows ==
  ASSUME NEW e, Grown(e), intact' = intact, e.kind = "data" => e.load \in Known \cup {out'}
  PROVE  Known' \subseteq Known \cup ({out'} \ {Nothing})
<1>1. \A p \in Q' : IsData(p)' => \/ p \in Q /\ IsData(p) /\ queue'[p].load = queue[p].load
                                  \/ queue'[p].load \in Known \cup {out'}
  BY DEF Grown, IsData
<1> QED
  BY <1>1 DEF Known

LEMMA KnownShifts ==
  ASSUME Shifted, out' = out,
         intact' \in {intact, Nothing} \/ (IsData(1) /\ intact' = queue[1].load)
  PROVE  Known' \subseteq Known
<1>1. \A p \in Q' : IsData(p)' => p + 1 \in Q /\ IsData(p + 1) /\ queue'[p].load = queue[p + 1].load
  BY DEF Shifted, IsData
<1>2. 1 \in Q
  BY DEF Shifted
<1>3. \A q \in Q : IsData(q) => queue[q].load \in Known \cup {Nothing}
  BY DEF Known
<1>4. intact' \in Known \cup {Nothing} /\ out' \in Known \cup {Nothing}
  BY <1>2, <1>3 DEF Known
<1>5. \A p \in Q' : IsData(p)' => queue'[p].load \in Known \cup {Nothing}
  BY <1>1, <1>3
<1> QED
  BY <1>4, <1>5 DEF Known

LEMMA PiecesBegin ==
  ASSUME TypeOK, Pieces, More, NEW len \in FrameLens, BeginFrame(len),
         Grown(Event("data", out'))
  PROVE  Pieces'
<1> DEFINE n == Len(frames)
<1>y. PICK y : y = Encode(n + 1, len, 0, 0)
  OBVIOUS
<1>0. n \in Nat /\ n + 1 \in Nat /\ len \in Nat /\ len > 0 /\ frames \in Seq(Frame)
  BY Ranges, BleFrameAssumption
<1>1. /\ y.frame = n + 1 /\ y.num = 0 /\ y.from = 0
      /\ y.size \in Nat /\ y.size > 0 /\ 0 + y.size <= len
  BY <1>y, <1>0, EncodeIs
<1>2. out' = y /\ intact' = intact /\ Len(frames') = n + 1 /\ frames'[n + 1].len = len
  BY <1>y, <1>0 DEF BeginFrame
<1>3. Event("data", out').kind = "data" /\ Event("data", out').load = out'
  BY DEF Event
<1>4. Known' \subseteq Known \cup {y}
  BY <1>2, <1>3, KnownGrows
<1> HIDE DEF n
<1>5. IsPiece(y)'
  BY <1>0, <1>1, <1>2 DEF IsPiece
<1>6. \A x \in Known : x.frame # n + 1 /\ x.frame # y.frame
  BY <1>0, <1>1 DEF Pieces, IsPiece, n
<1> QED
  BY <1>2, <1>4, <1>5, <1>6, PiecesMore DEF Chained

LEMMA PiecesSend ==
  ASSUME TypeOK, Pieces, Numbered, SendFragment, Grown(Event("data", out'))
  PROVE  Pieces'
<1>y. PICK y : y = Encode(out.frame, frames[out.frame].len, out.num + 1, out.from + out.size)
  OBVIOUS
<1>1. out # Nothing /\ ~Ended(out) /\ out' = y /\ UNCHANGED <<frames, intact>>
  BY <1>y DEF SendFragment, AllSent
<1>2. out \in Known /\ out.frame = Len(frames)
  BY <1>1 DEF Known, TypeOK, PhoneOK
<1>3. IsPiece(out)
  BY <1>2 DEF Pieces
<1>4. /\ out.frame \in Nat /\ out.num + 1 \in Nat /\ out.from + out.size \in Nat
      /\ frames[out.frame].len \in Nat
      /\ out.num + 1 <= out.from + out.size
      /\ out.from + out.size < frames[out.frame].len
  <2>1. frames[out.frame] \in Frame
    BY <1>3, Ranges DEF IsPiece
  <2>2. frames[out.frame].len \in Nat
    BY <2>1 DEF Frame
  <2>3. /\ out.num \in Nat /\ out.from \in Nat /\ out.size \in Nat /\ out.size > 0
        /\ out.num <= out.from /\ out.from + out.size <= frames[out.frame].len
        /\ out.from + out.size # frames[out.frame].len
    BY <1>1, <1>3 DEF IsPiece, Ended
  <2> QED BY <1>3, <2>2, <2>3 DEF IsPiece
<1>5. /\ y.frame = out.frame /\ y.num = out.num + 1 /\ y.from = out.from + out.size
      /\ y.size \in Nat /\ y.size > 0 /\ y.from + y.size <= frames[out.frame].len
  <2>1. PICK f, len, n, c : f = out.frame /\ len = frames[out.frame].len
                            /\ n = out.num + 1 /\ c = out.from + out.size
    OBVIOUS
  <2>2. f \in Nat /\ len \in Nat /\ n \in Nat /\ c \in Nat /\ c < len /\ y = Encode(f, len, n, c)
    BY <1>y, <1>4, <2>1
  <2>3. /\ y.frame = f /\ y.num = n /\ y.from = c
        /\ y.size \in Nat /\ y.size > 0 /\ c + y.size <= len
    BY <2>2, EncodeIs
  <2> QED BY <2>1, <2>3
<1>6. Known' \subseteq Known \cup {y}
  <2>1. Event("data", out').kind = "data" /\ Event("data", out').load = out'
    BY DEF Event
  <2> QED BY <1>1, <2>1, KnownGrows
<1>7. IsPiece(y)'
  BY <1>1, <1>3, <1>4, <1>5 DEF IsPiece
<1>8. \A x \in Known : x.frame = out.frame => x.num \in Nat /\ x.num <= out.num /\ (out.num = x.num => out = x)
  BY <1>1, <1>2 DEF Pieces, IsPiece, Chained
<1>9. \A x \in Known : Chained(x, y) /\ Chained(y, x)
  BY <1>3, <1>5, <1>8 DEF Chained, IsPiece
<1>10. \A x \in Known : x.frame = Len(frames') => x.num <= y.num
  BY <1>1, <1>2, <1>3, <1>5, <1>8 DEF IsPiece
<1>11. More
  BY <1>1, Ranges DEF More
<1> QED
  BY <1>1, <1>6, <1>7, <1>9, <1>10, <1>11, PiecesMore

-----------------------------------------------------------------------------
(* The fragment being handled *)

LEMMA NumbersRead ==
  ASSUME TypeOK, Pieces, Numbered, Shifted, batch > 0, ev.kind = "data"
  PROVE  /\ piece = queue[1].load /\ IsData(1) /\ 1 \in Q /\ piece \in Known /\ piece \in Load
         /\ IsPiece(piece)
         /\ number = piece.num /\ length = frames[piece.frame].len
         /\ length \in Nat /\ length > 0
<1>1. piece = queue[1].load /\ IsData(1) /\ 1 \in Q
  BY DEF Shifted, piece, IsData
<1>2. piece \in Load /\ piece.frame \in 1 .. Len(frames)
  BY Served1 DEF TypeOK
<1>3. piece \in Known
  <2>1. piece # Nothing
    BY <1>2 DEF Nothing
  <2> QED BY <1>1, <2>1 DEF Known
<1>4. IsPiece(piece)
  BY <1>3 DEF Pieces
<1>5. frames[piece.frame] \in Frame
  BY <1>2, Ranges
<1>6. frames[piece.frame].len \in Nat /\ frames[piece.frame].len > 0 /\ frames[piece.frame].len < NumLimit
  BY <1>2, <1>5 DEF Frame, Numbered
<1>7. piece.num \in Nat /\ piece.num < NumLimit
  BY <1>4, <1>6, Weights DEF IsPiece
<1>8. number = piece.num /\ length = frames[piece.frame].len
  <2>1. Value(Varint(piece.num)) = piece.num
    BY <1>7, HeaderIsRead
  <2>2. Value(Varint(frames[piece.frame].len)) = frames[piece.frame].len
    BY <1>6, HeaderIsRead
  <2> QED BY <2>1, <2>2 DEF number, length
<1> QED
  BY <1>1, <1>2, <1>3, <1>4, <1>6, <1>8

\* A fragment that goes on with those before it is in its place for the decoder.
LEMMA InPlace ==
  ASSUME TypeOK, Pieces, Numbered, Holding, Shifted, batch > 0, ev.kind = "data", Continues
  PROVE  /\ ~OutOfOrder /\ ~Repeated
         /\ piece.num # 0 =>
              /\ intact # Nothing /\ intact.frame = piece.frame
              /\ piece.from = intact.from + intact.size /\ ~Ended(intact)
<1>1. piece \in Known /\ IsPiece(piece) /\ number = piece.num
  BY NumbersRead
<1>2. CASE piece.num = 0
  BY <1>1, <1>2 DEF OutOfOrder, Repeated
<1>3. CASE piece.num # 0
  <2>1. intact.frame = piece.frame /\ intact.num = piece.num - 1
    BY <1>3 DEF Continues
  <2>2. intact # Nothing
    BY <1>1, <2>1, NothingIsLoad DEF IsPiece
  <2>3. intact \in Known /\ IsPiece(intact)
    BY <2>2 DEF Known, Pieces
  <2>4. piece.num = intact.num + 1 /\ dec.num = intact.num /\ intact.num \in Nat
    BY <1>1, <2>1, <2>2, <2>3 DEF IsPiece, Holding
  <2>5. piece.from = intact.from + intact.size
    BY <1>1, <2>1, <2>3, <2>4 DEF Pieces, Chained
  <2>6. ~Ended(intact)
    BY <1>1, <2>1, <2>3, <2>5 DEF Ended, IsPiece
  <2>7. ~OutOfOrder /\ ~Repeated
    BY <1>1, <2>4 DEF OutOfOrder, Repeated
  <2> QED BY <2>1, <2>2, <2>5, <2>6, <2>7
<1> QED BY <1>2, <1>3

LEMMA BegunMore ==
  ASSUME NEW f, NEW mem \in Seq(Load), NEW l \in Load, l.frame = f, l.from \in Nat, l.size \in Nat,
         (mem = <<>> /\ l.from = 0) \/ IsBegun(f, mem, l.from)
  PROVE  IsBegun(f, Append(mem, l), l.from + l.size)
<1> DEFINE new == Append(mem, l)
           n == Len(mem)
<1>1. /\ n \in Nat /\ Len(new) = n + 1 /\ DOMAIN new = 1 .. n + 1 /\ new[n + 1] = l
      /\ \A i \in 1 .. n : new[i] = mem[i] /\ i \in DOMAIN mem
      /\ mem = <<>> => n = 0
  OBVIOUS
<1> HIDE DEF new
<1>2. l.from = IF n + 1 = 1 THEN 0 ELSE new[n].from + new[n].size
  <2>1. CASE mem = <<>> /\ l.from = 0
    BY <1>1, <2>1
  <2>2. CASE IsBegun(f, mem, l.from)
    <3>1. n > 0 /\ mem[n].from + mem[n].size = l.from
      BY <2>2 DEF IsBegun
    <3>2. n \in 1 .. n /\ n + 1 # 1
      BY <1>1, <3>1
    <3> QED BY <1>1, <3>1, <3>2
  <2> QED BY <2>1, <2>2
<1>3. ASSUME NEW i \in 1 .. n
      PROVE  new[i].frame = f /\ new[i].from = IF i = 1 THEN 0 ELSE new[i - 1].from + new[i - 1].size
  <2>1. IsBegun(f, mem, l.from)
    BY <1>1, <1>3
  <2>2. mem[i].frame = f /\ mem[i].from = IF i = 1 THEN 0 ELSE mem[i - 1].from + mem[i - 1].size
    BY <1>1, <1>3, <2>1 DEF IsBegun
  <2>3. i # 1 => i - 1 \in 1 .. n
    BY <1>1, <1>3
  <2> QED BY <1>1, <1>3, <2>2, <2>3
<1> HIDE DEF n
<1>4. \A i \in 1 .. n + 1 : i \in 1 .. n \/ i = n + 1
  BY <1>1
<1>5. (n + 1) - 1 = n /\ n + 1 > 0
  BY <1>1
<1>6. \A i \in 1 .. n + 1 :
        new[i].frame = f /\ new[i].from = IF i = 1 THEN 0 ELSE new[i - 1].from + new[i - 1].size
  BY <1>1, <1>2, <1>3, <1>4, <1>5
<1>7. IsBegun(f, new, l.from + l.size)
  BY <1>1, <1>5, <1>6 DEF IsBegun
<1> QED BY <1>7 DEF new

-----------------------------------------------------------------------------
(* The decoder is ready for a fragment in its place *)

\* The decoder puts the fragment behind those before it in its frame.
Ready ==
  LET f == piece.frame
      a == Opened(Decoded, TRUE)
      n == piece.from + piece.size
  IN
  /\ Decoded.num = piece.num /\ Decoded.total = frames[f].len
  /\ Decoded.cnt = n /\ Decoded.load = piece
  /\ ~Refuses(Decoded, TRUE)
  /\ a.held /\ a.max = frames[f].len /\ a.off = piece.from /\ a.mem \in Seq(Load)
  /\ IsBegun(f, Append(a.mem, piece), n)

\* A frame being put together, as ble_data_unpack keeps it.
Room(m, o, q) == [held |-> TRUE, max |-> m, off |-> o, mem |-> q]

LEMMA RoomFields ==
  ASSUME NEW m, NEW o, NEW q
  PROVE  Room(m, o, q).held /\ Room(m, o, q).max = m /\ Room(m, o, q).off = o /\ Room(m, o, q).mem = q
BY DEF Room

LEMMA CutIs ==
  ASSUME NEW all \in Nat, NEW done \in Nat, piece \in Load, piece.size \in Nat,
         number = piece.num, done + piece.size <= all
  PROVE  Cut(all, done) = [num |-> piece.num, total |-> all, cnt |-> done + piece.size,
                           first |-> (piece.num = 0), load |-> piece]
<1>1. ~(all - done < piece.size)
  OBVIOUS
<1>2. [piece EXCEPT !.size = piece.size] = piece
  BY DEF Load
<1> QED BY <1>1, <1>2 DEF Cut

LEMMA IsReady ==
  ASSUME TypeOK, Pieces, Numbered, Holding, Shifted, batch > 0, ev.kind = "data", Continues,
         frames[piece.frame].len <= FrameMax, piece.frame \notin turned
  PROVE  Ready
<1> DEFINE f == piece.frame
           len == frames[f].len
<1>1. /\ piece \in Load /\ IsPiece(piece) /\ number = piece.num /\ length = len
      /\ len \in Nat /\ len > 0 /\ IsData(1) /\ 1 \in Q /\ At(1) = f
  BY NumbersRead DEF At
<1>2. /\ piece.num \in Nat /\ piece.from \in Nat /\ piece.size \in Nat
      /\ piece.from + piece.size <= len /\ (piece.num = 0 => piece.from = 0)
  BY <1>1 DEF IsPiece
<1>3. FrameMax \in Nat /\ len <= FrameMax
  BY BleFrameAssumption
<1>4. air \in AirType /\ air.mem \in Seq(Load) /\ <<>> \in Seq(Load)
  BY AirParts DEF TypeOK, DeviceOK
<1> HIDE DEF f, len
<1>5. CASE piece.num = 0
  <2>1. Decoded = [num |-> piece.num, total |-> len, cnt |-> 0 + piece.size,
                   first |-> TRUE, load |-> piece]
    <3>1. 0 \in Nat /\ 0 + piece.size <= len /\ number = 0
      BY <1>1, <1>2, <1>5
    <3> QED BY <1>1, <1>2, <1>5, <3>1, CutIs DEF Decoded
  <2>2. len \in 1 .. FrameMax /\ piece.from = 0 /\ 0 + piece.size = piece.from + piece.size
    BY <1>1, <1>2, <1>3, <1>5
  <2>3. /\ Opened(Decoded, TRUE) = Room(len, 0, <<>>)
        /\ ~Refuses(Decoded, TRUE)
    BY <2>1, <2>2 DEF Opened, Refuses, Room
  <2>4. IsBegun(f, Append(<<>>, piece), piece.from + piece.size)
    BY <1>1, <1>2, <1>4, <2>2, BegunMore DEF f
  <2>5. /\ Opened(Decoded, TRUE).held /\ Opened(Decoded, TRUE).max = len
        /\ Opened(Decoded, TRUE).off = piece.from /\ Opened(Decoded, TRUE).mem = <<>>
    <3> DEFINE r == Room(len, 0, <<>>)
    <3>1. r.held /\ r.max = len /\ r.off = 0 /\ r.mem = <<>>
      BY RoomFields
    <3>2. Opened(Decoded, TRUE) = r
      BY <2>3
    <3> HIDE DEF r
    <3> QED BY <2>2, <3>1, <3>2
  <2>6. /\ Decoded.num = piece.num /\ Decoded.total = len
        /\ Decoded.cnt = piece.from + piece.size /\ Decoded.load = piece
    BY <2>1, <2>2
  <2> QED BY <1>4, <2>3, <2>4, <2>5, <2>6 DEF Ready, f, len
<1>6. CASE piece.num # 0
  <2>1. intact # Nothing /\ intact.frame = f /\ piece.from = intact.from + intact.size /\ ~Ended(intact)
    BY <1>6, InPlace DEF f
  <2>2. GoesOn(f)
    BY <1>1 DEF GoesOn
  <2>3. HoldsUpTo(f, piece.from)
    BY <1>3, <2>1, <2>2 DEF Holding, f, len
  <2>4. /\ dec.total = len /\ dec.cnt = piece.from
        /\ air.held /\ air.max = len /\ air.off = piece.from /\ IsBegun(f, air.mem, piece.from)
    BY <2>3 DEF HoldsUpTo, len
  <2>5. Decoded = [num |-> piece.num, total |-> len, cnt |-> piece.from + piece.size,
                   first |-> FALSE, load |-> piece]
    <3>1. number # 0 /\ Decoded = Cut(len, piece.from)
      BY <1>1, <1>6, <2>4 DEF Decoded
    <3> QED BY <1>1, <1>2, <1>6, <3>1, CutIs
  <2>6. Opened(Decoded, TRUE) = air /\ ~Refuses(Decoded, TRUE)
    BY <2>5 DEF Opened, Refuses
  <2>7. IsBegun(f, Append(air.mem, piece), piece.from + piece.size)
    BY <1>1, <1>2, <1>4, <2>4, BegunMore DEF f
  <2> QED BY <1>4, <2>4, <2>5, <2>6, <2>7 DEF Ready, f, len
<1> QED BY <1>5, <1>6

\* What Ready says of the pieces, once the fragment is among them.
LEMMA ReadyStores ==
  ASSUME TypeOK, Pieces, Numbered, Shifted, batch > 0, ev.kind = "data", Ready,
         NEW s, s = Stored(Opened(Decoded, TRUE), Decoded.load)
  PROVE  /\ Complete(Decoded, Opened(Decoded, TRUE)) <=> Ended(piece)
         /\ s.held /\ s.max = frames[piece.frame].len /\ s.off = piece.from + piece.size
         /\ IsBegun(piece.frame, s.mem, piece.from + piece.size)
<1> DEFINE a == Opened(Decoded, TRUE)
           len == frames[piece.frame].len
           n == piece.from + piece.size
<1>1. /\ piece.from \in Nat /\ piece.size \in Nat /\ n <= len /\ len \in Nat /\ n \in Nat
  <2>1. IsPiece(piece) /\ length \in Nat /\ length = len
    BY NumbersRead
  <2> QED BY <2>1 DEF IsPiece
<1>2. /\ a.held /\ a.max = len /\ a.off = piece.from
      /\ IsBegun(piece.frame, Append(a.mem, piece), n)
      /\ Decoded.load = piece /\ Decoded.cnt = n /\ Decoded.total = len
  BY DEF Ready
<1>e. Ended(piece) <=> n = len
  BY DEF Ended
<1> HIDE DEF a, len, n
<1>3. a.off + piece.size = n
  BY <1>2 DEF n
<1>4. s = Room(len, n, Append(a.mem, piece))
  <2>1. ~(a.off + piece.size > a.max)
    BY <1>1, <1>2, <1>3
  <2>2. s = Stored(a, piece)
    BY <1>2 DEF a
  <2> QED BY <1>2, <1>3, <2>1, <2>2 DEF Stored, Room
<1>5. Complete(Decoded, a) <=> n = len
  BY <1>1, <1>2, <1>3 DEF Complete
<1>6. s.held /\ s.max = len /\ s.off = n /\ s.mem = Append(a.mem, piece)
  <2> DEFINE x == Append(a.mem, piece)
             r == Room(len, n, x)
  <2>0. s = r
    BY <1>4
  <2> HIDE DEF x
  <2>1. r.held /\ r.max = len /\ r.off = n /\ r.mem = x
    BY RoomFields
  <2> HIDE DEF r
  <2>2. s.held /\ s.max = len /\ s.off = n /\ s.mem = x
    BY <2>0, <2>1
  <2> QED BY <2>2 DEF x
<1> QED BY <1>2, <1>5, <1>6, <1>e DEF a, len, n

-----------------------------------------------------------------------------
(* The decoder holds what was handled *)

LEMMA HoldingAgain ==
  ASSUME TypeOK, Pieces, Numbered, Holding, Shifted, batch > 0, ev.kind = "data",
         OutOfOrder \/ Repeated, Note(TRUE)
  PROVE  Holding' /\ intact' = Nothing
<1>1. intact' = Nothing
  BY InPlace DEF Note
<1> QED BY <1>1 DEF Holding, Nothing

LEMMA HoldingTaken ==
  ASSUME TypeOK, Pieces, Numbered, Holding, Shifted, batch > 0, ev.kind = "data",
         UNCHANGED frames, intact' = IF Continues THEN piece ELSE Nothing,
         turned \subseteq turned', dec' = Decoded,
         Ready /\ ~Ended(piece) /\ piece.frame \notin turned'
           => air' = Stored(Opened(Decoded, TRUE), Decoded.load)
  PROVE  Holding'
<1>1. CASE ~Continues
  BY <1>1 DEF Holding, Nothing
<1>2. CASE Continues
  <2>1. PICK y : y = piece
    OBVIOUS
  <2>2. intact' = y /\ dec'.num = y.num
    BY <1>2, <2>1, NumbersRead DEF Decoded, Cut
  <2>3. ASSUME frames[y.frame].len <= FrameMax, y.frame \notin turned',
               ~(y.from + y.size = frames[y.frame].len)
        PROVE  /\ dec'.total = frames[y.frame].len /\ dec'.cnt = y.from + y.size
               /\ air'.held /\ air'.max = frames[y.frame].len /\ air'.off = y.from + y.size
               /\ IsBegun(y.frame, air'.mem, y.from + y.size)
    <3>1. Ready
      BY <1>2, <2>1, <2>3, IsReady
    <3>2. air' = Stored(Opened(Decoded, TRUE), Decoded.load)
      BY <2>1, <2>3, <3>1 DEF Ended
    <3>3. /\ air'.held /\ air'.max = frames[y.frame].len /\ air'.off = y.from + y.size
          /\ IsBegun(y.frame, air'.mem, y.from + y.size)
      <4>1. PICK s : s = Stored(Opened(Decoded, TRUE), Decoded.load)
        OBVIOUS
      <4>2. /\ s.held /\ s.max = frames[piece.frame].len /\ s.off = piece.from + piece.size
            /\ IsBegun(piece.frame, s.mem, piece.from + piece.size)
        BY <3>1, <4>1, ReadyStores
      <4>3. air' = s
        BY <3>2, <4>1
      <4> QED BY <2>1, <4>2, <4>3
    <3>4. dec'.total = frames[y.frame].len /\ dec'.cnt = y.from + y.size
      BY <2>1, <3>1 DEF Ready
    <3> QED BY <3>3, <3>4
  <2> QED BY <2>2, <2>3 DEF Holding, HoldsUpTo, Ended
<1> QED BY <1>1, <1>2

LEMMA HoldingFragment ==
  ASSUME TypeOK, Pieces, Numbered, Holding, Shifted,
         NEW memory \in BOOLEAN, TakeFragment(memory)
  PROVE  Holding'
<1>1. /\ batch > 0 /\ ev.kind = "data" /\ UNCHANGED frames /\ dec' = Decoded
      /\ intact' = IF Continues THEN piece ELSE Nothing
      /\ turned' = IF memory THEN turned ELSE turned \cup {piece.frame}
  BY DEF TakeFragment, Serving, radio, Note
<1>2. ASSUME Ready, piece.frame \notin turned'
      PROVE  air' = Stored(Opened(Decoded, TRUE), Decoded.load)
  <2>1. memory = TRUE
    BY <1>1, <1>2
  <2>2. ~Refuses(Decoded, TRUE)
    BY <1>2 DEF Ready
  <2> QED BY <2>1, <2>2 DEF TakeFragment
<1>3. turned \subseteq turned'
  BY <1>1
<1> QED BY <1>1, <1>2, <1>3, HoldingTaken

LEMMA HoldingFrame ==
  ASSUME TypeOK, Pieces, Numbered, Holding, Shifted,
         NEW memory \in BOOLEAN, NEW refusal \in Refusals, TakeFrame(memory, refusal)
  PROVE  Holding'
<1>1. /\ batch > 0 /\ ev.kind = "data" /\ UNCHANGED frames /\ dec' = Decoded
      /\ intact' = IF Continues THEN piece ELSE Nothing
      /\ turned \subseteq turned'
  BY DEF TakeFrame, Serving, Note
<1>2. Complete(Decoded, Opened(Decoded, TRUE))
  BY DEF TakeFrame
<1>3. ASSUME Ready PROVE Ended(piece)
  BY <1>1, <1>2, <1>3, ReadyStores
<1> QED BY <1>1, <1>3, HoldingTaken

-----------------------------------------------------------------------------
(* The steps *)

Whole == Pieces' /\ Numbered' /\ Parted' /\ CountIsOwn' /\ Behind' /\ Holding'

\* What becomes of the frame, and whether it was turned away
LEMMA FrameLot ==
  ASSUME TypeOK, NEW memory \in BOOLEAN, NEW refusal \in Refusals, TakeFrame(memory, refusal)
  PROVE  Dropped \/ (LostAfter /\ piece.frame \in turned') \/ Taken
<1> DEFINE ms == Stored(Opened(Decoded, TRUE), Decoded.load).mem
<1>0. batch > 0 /\ ev.kind = "data" /\ Complete(Decoded, Opened(Decoded, TRUE))
  BY DEF TakeFrame, Serving
<1>1. Checksum(ms) => ms[1].frame = piece.frame /\ IsFrame(ms[1].frame, ms)
  BY <1>0, WholeIsOwn
<1>2. turned' = IF memory /\ refusal = "none" /\ ~Full THEN turned ELSE turned \cup {piece.frame}
  BY DEF TakeFrame, Note
<1>3. \/ Dropped
      \/ /\ Checksum(ms) /\ frames[ms[1].frame].sn > rxsn
         /\ rxsn' = frames[ms[1].frame].sn
         /\ Execute(ms[1].frame, ms, memory /\ refusal = "none")
  BY DEF TakeFrame, Dropped
<1> HIDE DEF ms
<1>4. CASE Checksum(ms) /\ frames[ms[1].frame].sn > rxsn
         /\ rxsn' = frames[ms[1].frame].sn
         /\ Execute(ms[1].frame, ms, memory /\ refusal = "none")
  <2>1. CASE Full \/ ~(memory /\ refusal = "none")
    BY <1>1, <1>2, <1>4, <2>1 DEF Execute, LostAfter
  <2>2. CASE ~(Full \/ ~(memory /\ refusal = "none"))
    BY <1>1, <1>4, <2>2 DEF Execute, Taken
  <2> QED BY <2>1, <2>2
<1> QED BY <1>3, <1>4

\* A fragment is served: everything but what is held.
LEMMA WholeShifts ==
  ASSUME IInv, WInv, Shifted, IsData(1), UNCHANGED <<frames, link, links, out, deaf>>,
         intact' \in {piece, Nothing}, turned \subseteq turned',
         \/ UNCHANGED <<rxsn, got>>
         \/ /\ rxsn' = frames[piece.frame].sn
            /\ (\E i \in G' : got'[i] = piece.frame) \/ piece.frame \in turned'
  PROVE  Pieces' /\ Numbered' /\ Parted' /\ CountIsOwn' /\ Behind'
<1>1. /\ TypeOK /\ InOrder /\ Turns
      /\ Pieces /\ Numbered /\ Parted /\ CountIsOwn /\ Behind
  BY DEF IInv, Order, WInv
<1>2. piece = queue[1].load /\ ~IsTurn(1) /\ At(1) = piece.frame
  BY DEF Shifted, piece, IsData, IsTurn, At
<1>3. intact' \in {intact, Nothing} \/ (IsData(1) /\ intact' = queue[1].load)
  BY <1>2
<1>4. Pieces'
  BY <1>1, <1>3, KnownShifts, PiecesKept
<1>5. Numbered'
  BY <1>1, NumberedKept
<1>6. Parted'
  BY <1>1, PartedShifts
<1>7. CountIsOwn'
  BY <1>1, <1>2, CountShifts
<1>8. Behind'
  BY <1>1, <1>3, BehindShifts
<1> QED BY <1>4, <1>5, <1>6, <1>7, <1>8

LEMMA HeldFrame ==
  ASSUME TypeOK, Pieces, intact # Nothing PROVE intact.frame \in 1 .. Len(frames)
BY DEF Pieces, Known, IsPiece

\* The stack tells of a link, or of its end, if there is room.
LEMMA WholeTurn ==
  ASSUME IInv, WInv, NEW e \in EventType, e.kind \in {"conn", "disc"}, Post(e),
         UNCHANGED <<frames, dec, air, rxsn, got, intact, turned>>, out' = Nothing,
         deaf \subseteq deaf', link' = 0 \/ (Full => link' \in deaf')
  PROVE  Pieces' /\ Parted' /\ CountIsOwn' /\ Behind' /\ Holding'
<1>1. /\ TypeOK /\ Pieces /\ Parted /\ CountIsOwn /\ Behind /\ Holding
      /\ e.kind # "data"
  BY DEF IInv, WInv
<1>2. Grown(e) /\ (~Full => Len(queue) + 1 \in Q' /\ queue'[Len(queue) + 1] = e)
  BY <1>1, PostGrows
<1>3. \/ link' = 0 \/ link' \in deaf'
      \/ Len(queue) + 1 \in Q' /\ queue'[Len(queue) + 1] = e /\ e.kind \in {"conn", "disc"}
  BY <1>2
<1>4. Known' \subseteq Known
  BY <1>1, <1>2, KnownGrows
<1>5. Pieces'
  BY <1>1, <1>4, PiecesKept
<1>6. Parted'
  BY <1>1, <1>2, <1>3, PartedGrows
<1>7. CountIsOwn'
  BY <1>1, <1>2, <1>3, CountGrows
<1>8. Behind'
  BY <1>1, <1>2, BehindGrows
<1>9. Holding'
  <2>1. More
    BY <1>1, Ranges DEF More
  <2>2. intact # Nothing /\ GoesOn(intact.frame)' => GoesOn(intact.frame)
    <3>1. PICK f : f = intact.frame
      OBVIOUS
    <3>2. intact # Nothing => f \in 1 .. Len(frames)
      BY <1>1, <3>1, HeldFrame
    <3>3. intact # Nothing /\ GoesOn(f)' => GoesOn(f)
      BY <1>1, <1>2, <2>1, <3>2, GoesOnKept
    <3>4. GoesOn(intact.frame)' <=> GoesOn(f)'
      BY <3>1 DEF GoesOn
    <3> QED BY <3>1, <3>3, <3>4
  <2> QED BY <1>1, <2>1, <2>2, HoldingKept
<1> QED BY <1>5, <1>6, <1>7, <1>8, <1>9

\* The phone writes a fragment of the frame it is sending.
LEMMA WholeWrite ==
  ASSUME IInv, WInv, NEW e \in EventType, e.kind = "data", e.load.frame = Len(frames'), Grown(e),
         More, UNCHANGED <<link, deaf, dec, air, rxsn, got, intact, turned>>,
         link # 0, frames'[Len(frames')].link = link,
         \/ Len(frames') = Len(frames) + 1
         \/ out # Nothing /\ frames' = frames
  PROVE  Parted' /\ CountIsOwn' /\ Behind' /\ Holding'
<1>1. /\ TypeOK /\ Pieces /\ Parted /\ CountIsOwn /\ Behind /\ Holding
  BY DEF IInv, WInv
<1>2. Parted'
  BY <1>1, PartedMore
<1>3. CountIsOwn'
  BY <1>1, CountMore
<1>4. Behind'
  BY <1>1, BehindMore
<1>5. Holding'
  <2>1. PICK f : f = intact.frame
    OBVIOUS
  <2>2. intact # Nothing => f \in 1 .. Len(frames)
    BY <1>1, <2>1, HeldFrame
  <2>3. intact # Nothing /\ GoesOn(f)' => GoesOn(f)
    BY <1>1, <2>2, GoesOnKept
  <2>4. GoesOn(intact.frame)' <=> GoesOn(f)'
    BY <2>1 DEF GoesOn
  <2> QED BY <1>1, <2>1, <2>3, <2>4, HoldingKept
<1> QED BY <1>2, <1>3, <1>4, <1>5

LEMMA WholeConnect == ASSUME IInv, WInv, Connect PROVE Whole
<1>1. Event("conn", Nothing) \in EventType /\ Event("conn", Nothing).kind = "conn"
  BY NothingIsLoad DEF Event, EventType
<1>2. out' = Nothing /\ Post(Event("conn", Nothing))
      /\ UNCHANGED <<frames, dec, air, rxsn, got, intact, turned>>
      /\ deaf \subseteq deaf' /\ (Full => link' \in deaf')
  BY DEF Connect, IInv, Offline
<1>3. Numbered'
  BY NumberedConnect DEF IInv, WInv
<1>4. Pieces' /\ Parted' /\ CountIsOwn' /\ Behind' /\ Holding'
  BY <1>1, <1>2, WholeTurn
<1> QED BY <1>3, <1>4 DEF Whole

LEMMA WholeDisconnect == ASSUME IInv, WInv, Disconnect PROVE Whole
<1>1. Event("disc", Nothing) \in EventType /\ Event("disc", Nothing).kind = "disc"
  BY NothingIsLoad DEF Event, EventType
<1>2. /\ out' = Nothing /\ link' = 0 /\ Post(Event("disc", Nothing))
      /\ UNCHANGED <<links, frames, dec, air, rxsn, got, intact, turned>> /\ deaf \subseteq deaf'
  BY DEF Disconnect
<1>3. Numbered'
  BY <1>2, NumberedEnd DEF IInv, WInv
<1>4. Pieces' /\ Parted' /\ CountIsOwn' /\ Behind' /\ Holding'
  BY <1>1, <1>2, WholeTurn
<1> QED BY <1>3, <1>4 DEF Whole

LEMMA WholeBegin ==
  ASSUME IInv, WInv, NEW len \in FrameLens, BeginFrame(len) PROVE Whole
<1>1. /\ TypeOK /\ TypeOK' /\ Pieces /\ Numbered
  BY BeginFrameType DEF IInv, WInv
<1>2. Numbered' /\ More
  BY <1>1, NumberedBegin
<1>3. /\ UNCHANGED <<link, deaf, dec, air, rxsn, got, intact, turned>> /\ link # 0
      /\ Write(out')
  BY DEF BeginFrame
<1>4. /\ Len(frames) \in Nat /\ Len(frames') = Len(frames) + 1 /\ frames'[Len(frames')].link = link
  <2>1. frames \in Seq(Frame)
    BY <1>1, Ranges
  <2>2. PICK f : frames' = Append(frames, f) /\ f.link = link
    BY DEF BeginFrame
  <2> QED BY <2>1, <2>2
<1>5. out' \in Load /\ out'.frame = Len(frames')
  BY <1>1, <1>4 DEF BeginFrame, Encode, TypeOK, PhoneOK
<1>6. PICK e : e = Event("data", out')
  OBVIOUS
<1>7. e \in EventType /\ e.kind = "data" /\ e.load = out' /\ (Post(e) \/ UNCHANGED queue)
  BY <1>3, <1>5, <1>6 DEF Event, EventType, Write
<1>8. Grown(e)
  BY <1>1, <1>7, PostGrows
<1>9. Parted' /\ CountIsOwn' /\ Behind' /\ Holding'
  BY <1>2, <1>3, <1>4, <1>5, <1>7, <1>8, WholeWrite
<1>10. Pieces'
  BY <1>1, <1>2, <1>6, <1>8, PiecesBegin
<1> QED BY <1>2, <1>9, <1>10 DEF Whole

LEMMA WholeSend == ASSUME IInv, WInv, SendFragment \/ RepeatFragment PROVE Whole
<1>1. /\ TypeOK /\ TypeOK' /\ Pieces /\ Numbered
  BY SendFragmentType, RepeatFragmentType DEF IInv, WInv
<1>2. /\ UNCHANGED <<link, links, frames, deaf, dec, air, rxsn, got, intact, turned>>
      /\ out # Nothing /\ out'.frame = out.frame /\ Write(out')
  BY DEF SendFragment, RepeatFragment, radio, AllSent, Encode, Post, Write
<1>3. /\ Len(frames) \in Nat /\ out'.frame = Len(frames') /\ out'.frame > 0 /\ out' \in Load
      /\ link # 0 /\ frames'[Len(frames')].link = link
  BY <1>1, <1>2, Ranges DEF TypeOK, PhoneOK, Numbered
<1>4. out' # Nothing
  BY <1>3, NothingIsLoad
<1>5. More
  BY <1>1, <1>2, Ranges DEF More
<1>6. PICK e : e = Event("data", out')
  OBVIOUS
<1>7. e \in EventType /\ e.kind = "data" /\ e.load = out' /\ (Post(e) \/ UNCHANGED queue)
  BY <1>2, <1>3, <1>6 DEF Event, EventType, Write
<1>8. Grown(e)
  BY <1>1, <1>7, PostGrows
<1>9. Parted' /\ CountIsOwn' /\ Behind' /\ Holding'
  BY <1>2, <1>3, <1>5, <1>7, <1>8, WholeWrite
<1>10. Pieces'
  <2>1. CASE SendFragment
    BY <1>1, <1>6, <1>8, <2>1, PiecesSend
  <2>2. CASE RepeatFragment
    <3>1. out' = out
      BY <2>2 DEF RepeatFragment, radio
    <3>2. out' \in Known
      BY <1>2, <3>1 DEF Known
    <3>3. Known' \subseteq Known
      BY <1>2, <1>7, <1>8, <3>2, KnownGrows
    <3> QED BY <1>1, <1>2, <3>1, <3>3, PiecesKept
  <2> QED BY <2>1, <2>2
<1>11. Numbered'
  BY <1>1, <1>2, <1>4, NumberedKept
<1> QED BY <1>9, <1>10, <1>11 DEF Whole

LEMMA WholeStill ==
  ASSUME WInv, UNCHANGED <<radio, queue, dec, air, rxsn, got, intact, turned, deaf>>
  PROVE  Whole
<1>1. UNCHANGED <<link, links, frames, out>> /\ Q' = Q /\ G' = G
  BY DEF radio, Q, G
<1>2. Known' = Known
  BY <1>1 DEF Known, IsData
<1>3. Pieces'
  BY <1>1, <1>2 DEF WInv, Pieces, IsPiece, Chained
<1>4. Numbered'
  BY <1>1 DEF WInv, Numbered
<1>5. Parted'
  BY <1>1 DEF WInv, Parted, IsData, IsTurn, LinkAt, At
<1>6. CountIsOwn'
  BY <1>1 DEF WInv, CountIsOwn, CountOf, IsData, IsTurn, LinkAt, At
<1>7. Behind'
  BY <1>1 DEF WInv, Behind, IsData, IsTurn, At
<1>8. Holding'
  BY <1>1 DEF WInv, Holding, HoldsUpTo, GoesOn, Ended, IsData, At
<1> QED BY <1>3, <1>4, <1>5, <1>6, <1>7, <1>8 DEF Whole

\* An event of the link, or a command, is served.
LEMMA WholeServe == ASSUME IInv, WInv, HandleConn \/ HandleDisc \/ HandleCmd PROVE Whole
<1>1. /\ TypeOK /\ InOrder /\ Turns
      /\ Pieces /\ Numbered /\ Parted /\ CountIsOwn /\ Behind /\ Holding
  BY DEF IInv, Order, WInv
<1>2. /\ batch > 0 /\ queue' = Tail(queue)
      /\ UNCHANGED <<link, links, frames, out, dec, got, intact, turned, deaf>>
      /\ \/ ev.kind \in {"conn", "disc"} /\ rxsn' = 0
         \/ ev.kind = "cmd" /\ UNCHANGED <<rxsn, air>>
  BY DEF HandleConn, HandleDisc, HandleCmd, Serving, Served, radio
<1>3. Shifted
  BY <1>1, <1>2, ServedShifts
<1>4. \/ IsTurn(1) /\ rxsn' = 0
      \/ ~IsTurn(1) /\ UNCHANGED <<rxsn, got, air>>
  BY <1>2, <1>3 DEF Shifted, IsTurn
<1>5. Pieces'
  BY <1>1, <1>2, <1>3, KnownShifts, PiecesKept
<1>6. Numbered'
  BY <1>1, <1>2, NumberedKept
<1>7. Parted'
  BY <1>1, <1>2, <1>3, PartedShifts
<1>8. CountIsOwn'
  BY <1>1, <1>2, <1>3, <1>4, CountShifts
<1>9. Behind'
  BY <1>1, <1>2, <1>3, BehindShifts
<1>10. Holding'
  <2>1. CASE IsTurn(1)
    BY <1>1, <1>2, <1>3, <2>1, HoldingEnds
  <2>2. CASE UNCHANGED air
    <3>1. More
      BY <1>1, <1>2, Ranges DEF More
    <3>2. PICK f : f = intact.frame
      OBVIOUS
    <3>3. GoesOn(f)' => GoesOn(f)
      BY <1>2, <1>3, GoesOnShifts
    <3>4. GoesOn(intact.frame)' <=> GoesOn(f)'
      BY <1>2, <3>2 DEF GoesOn
    <3> QED BY <1>1, <1>2, <2>2, <3>1, <3>2, <3>3, <3>4, HoldingKept
  <2> QED BY <1>4, <2>1, <2>2
<1> QED BY <1>5, <1>6, <1>7, <1>8, <1>9, <1>10 DEF Whole

LEMMA WholeFragment ==
  ASSUME IInv, WInv, NEW memory \in BOOLEAN, RefuseFragment \/ TakeAgain \/ TakeFragment(memory)
  PROVE  Whole
<1>1. TypeOK /\ Pieces /\ Numbered /\ Holding
  BY DEF IInv, WInv
<1>2. /\ batch > 0 /\ ev.kind = "data" /\ queue' = Tail(queue)
      /\ UNCHANGED <<link, links, frames, out, rxsn, got, deaf>>
      /\ intact' \in {piece, Nothing} /\ turned \subseteq turned'
  BY DEF RefuseFragment, TakeAgain, TakeFragment, Serving, Served, radio, Note
<1>3. Shifted
  BY <1>1, <1>2, ServedShifts
<1>4. IsData(1)
  BY <1>2, <1>3 DEF Shifted, IsData
<1>5. Pieces' /\ Numbered' /\ Parted' /\ CountIsOwn' /\ Behind'
  BY <1>2, <1>3, <1>4, WholeShifts
<1>6. Holding'
  <2>1. CASE RefuseFragment \/ TakeAgain
    <3>1. (OutOfOrder \/ Repeated) /\ Note(TRUE)
      BY <2>1 DEF RefuseFragment, TakeAgain
    <3> QED BY <1>1, <1>2, <1>3, <3>1, HoldingAgain
  <2>2. CASE TakeFragment(memory)
    BY <1>1, <1>3, <2>2, HoldingFragment
  <2> QED BY <2>1, <2>2
<1> QED BY <1>5, <1>6 DEF Whole

LEMMA WholeFrame == ASSUME IInv, WInv, NEW memory \in BOOLEAN, NEW refusal \in Refusals, TakeFrame(memory, refusal) PROVE Whole
<1>1. TypeOK /\ Pieces /\ Numbered /\ Holding
  BY DEF IInv, WInv
<1>2. /\ batch > 0 /\ ev.kind = "data" /\ batch' = batch - 1
      /\ UNCHANGED <<link, links, frames, out, deaf>>
      /\ intact' \in {piece, Nothing} /\ turned \subseteq turned'
  BY DEF TakeFrame, Serving, Note
<1>3. Dropped \/ (LostAfter /\ piece.frame \in turned') \/ Taken
  BY <1>1, FrameLot
<1>4. Shifted
  BY <1>1, <1>2, <1>3, ServedShifts DEF Dropped, LostAfter, Taken
<1>5. IsData(1)
  BY <1>2, <1>4 DEF Shifted, IsData
<1>6. \/ UNCHANGED <<rxsn, got>>
      \/ /\ rxsn' = frames[piece.frame].sn
         /\ (\E i \in G' : got'[i] = piece.frame) \/ piece.frame \in turned'
  <2>1. CASE Taken
    <3>1. got \in Seq(1 .. Len(frames)) /\ piece.frame \in 1 .. Len(frames)
      BY <1>1, <1>2, Ranges, Served1 DEF TypeOK
    <3>2. /\ Len(got) + 1 \in 1 .. Len(got')
          /\ got'[Len(got) + 1] = piece.frame
      BY <2>1, <3>1 DEF Taken
    <3> QED BY <2>1, <3>2 DEF Taken, G
  <2> QED BY <1>3, <2>1 DEF Dropped, LostAfter
<1>7. Pieces' /\ Numbered' /\ Parted' /\ CountIsOwn' /\ Behind'
  BY <1>2, <1>4, <1>5, <1>6, WholeShifts
<1>8. Holding'
  BY <1>1, <1>4, HoldingFrame
<1> QED BY <1>7, <1>8 DEF Whole

LEMMA WholeStart == ASSUME Init PROVE WInv
<1>1. Known = {} /\ Q = {} /\ frames = <<>> /\ out = Nothing /\ intact = Nothing /\ link = 0 /\ links = 0
  BY DEF Init, Known, Q
<1> QED
  BY <1>1 DEF WInv, Pieces, Numbered, Parted, CountIsOwn, Behind, Holding

LEMMA WholeStep == ASSUME IInv, WInv, [Next]_vars PROVE WInv'
<1>1. Whole => WInv'
  BY DEF Whole, WInv
<1>2. CASE Pass \/ UNCHANGED vars
  <2>1. UNCHANGED <<radio, queue, dec, air, rxsn, got, intact, turned, deaf>>
    BY <1>2 DEF Pass, vars
  <2> QED BY <1>1, <2>1, WholeStill
<1>3. CASE Phone
  BY <1>1, <1>3, WholeBegin, WholeSend DEF Phone
<1>4. CASE Handle
  BY <1>1, <1>4, WholeServe, WholeFragment, WholeFrame DEF Handle
<1> QED
  BY <1>1, <1>2, <1>3, <1>4, WholeConnect, WholeDisconnect DEF Next

\* The invariant of wholeness: the decoder holds what the fragments that came
\* without a gap have brought, and the count is of the link it is compared on.
THEOREM WholenessHolds == Spec => [](IInv /\ WInv)
<1>1. Init => IInv /\ WInv
  BY TypeStart, OrderStart, WholeStart DEF IInv
<1>2. IInv /\ WInv /\ [Next]_vars => IInv' /\ WInv'
  BY Step, WholeStep
<1> QED
  BY <1>1, <1>2, PTL DEF Spec

LEMMA FirstIn == ASSUME NEW q \in Seq(Load), Len(q) > 0 PROVE 1 \in DOMAIN q
OBVIOUS

\* The frame that a fragment completes is put together of all its pieces.
LEMMA PutTogether ==
  ASSUME TypeOK, Pieces, Numbered, Shifted, batch > 0, ev.kind = "data", Ready, Ended(piece),
         NEW ms, ms = Stored(Opened(Decoded, TRUE), Decoded.load).mem
  PROVE  ms[1].frame = piece.frame /\ Checksum(ms) /\ IsFrame(piece.frame, ms)
<1>1. PICK s : s = Stored(Opened(Decoded, TRUE), Decoded.load)
  OBVIOUS
<1>2. s.mem \in Seq(Load)
  <2>1. Opened(Decoded, TRUE) \in AirType /\ Decoded.load \in Load
    BY OpenedType, DecodedType DEF DecType
  <2>2. s \in AirType
    BY <1>1, <2>1, StoredType
  <2> QED BY <2>2, AirParts
<1>3. IsBegun(piece.frame, s.mem, piece.from + piece.size)
  BY <1>1, ReadyStores
<1>4. ms = s.mem /\ piece.from + piece.size = frames[piece.frame].len
  BY <1>1 DEF Ended
<1>5. IsFrame(piece.frame, ms)
  BY <1>3, <1>4 DEF IsBegun, IsFrame
<1>6. ms[1].frame = piece.frame
  <2>1. 1 \in DOMAIN ms
    <3>1. ms \in Seq(Load)
      BY <1>2, <1>4
    <3>2. Len(ms) > 0
      BY <1>3, <1>4 DEF IsBegun
    <3> QED BY <3>1, <3>2, FirstIn, Zenon
  <2> QED BY <1>5, <2>1 DEF IsFrame
<1> QED BY <1>5, <1>6 DEF Checksum

\* Was the frame's number counted, so was the frame itself.
LEMMA CountedWasTaken ==
  ASSUME TypeOK, Numbered, CountIsOwn, 1 \in Q, IsData(1), LinkAt(1) \notin deaf,
         At(1) \notin turned, frames[At(1)].sn <= rxsn
  PROVE  \E i \in G : got[i] = At(1)
<1>1. /\ At(1) \in 1 .. Len(frames) /\ Len(frames) \in Nat /\ rxsn \in Nat
      /\ \A f \in 1 .. Len(frames) : frames[f].sn \in Nat
  BY Ranges
<1>2. frames[At(1)].sn > 0
  <2>1. frames[At(1)] \in Frame
    BY <1>1, Ranges
  <2> QED BY <2>1 DEF Frame
<1>3. CountOf(LinkAt(1), At(1))
  <2>1. ~ \E r \in Q : r < 1
    BY DEF Q
  <2> QED BY <2>1 DEF CountIsOwn
<1>4. PICK g \in 1 .. At(1) : /\ frames[g].link = frames[At(1)].link /\ frames[g].sn = rxsn
                              /\ (\E i \in G : got[i] = g) \/ g \in turned
  BY <1>1, <1>2, <1>3 DEF CountOf, LinkAt
<1>5. ~(g < At(1))
  <2>1. g \in 1 .. Len(frames)
    BY <1>1
  <2> QED BY <1>1, <1>4, <2>1 DEF Numbered
<1>6. g = At(1)
  BY <1>1, <1>5
<1> QED BY <1>4, <1>6

LEMMA WholeTaken ==
  ASSUME IInv, WInv, [Next]_vars,
         intact' # intact, intact' # Nothing, Ended(intact'),
         NEW f, f = intact'.frame,
         frames[f].len <= FrameMax, frames[f].link \notin deaf, f \notin turned'
  PROVE  \E i \in DOMAIN got' : got'[i] = f
<1>1. TypeOK /\ Pieces /\ Numbered /\ Holding /\ CountIsOwn
  BY DEF IInv, WInv
<1>2. ASSUME NEW room, Note(room), batch > 0, ev.kind = "data", Shifted
      PROVE  Continues /\ intact' = piece /\ f = piece.frame /\ Ended(piece) /\ f \notin turned /\ Ready
             /\ room
  <2>1. Continues /\ intact' = piece /\ f = piece.frame /\ room /\ turned' = turned
    BY <1>2 DEF Note
  <2>2. Ready
    BY <1>1, <1>2, <2>1, IsReady
  <2> QED BY <2>1, <2>2
<1>3. ASSUME RefuseFragment \/ TakeAgain
      PROVE  FALSE
  <2>1. /\ batch > 0 /\ ev.kind = "data" /\ queue' = Tail(queue)
        /\ OutOfOrder \/ Repeated
        /\ Note(TRUE)
    BY <1>3 DEF RefuseFragment, TakeAgain, Serving, Served
  <2> QED BY <1>1, <2>1, ServedShifts, HoldingAgain
<1>4. ASSUME NEW memory \in BOOLEAN, TakeFragment(memory)
      PROVE  FALSE
  <2>1. batch > 0 /\ ev.kind = "data" /\ queue' = Tail(queue) /\ Note(memory)
    BY <1>4 DEF TakeFragment, Serving, Served
  <2>2. Shifted
    BY <1>1, <2>1, ServedShifts
  <2>3. Ready /\ Ended(piece) /\ memory = TRUE
    BY <1>2, <2>1, <2>2
  <2>4. ~Refuses(Decoded, TRUE) /\ Complete(Decoded, Opened(Decoded, TRUE))
    BY <1>1, <2>1, <2>2, <2>3, ReadyStores DEF Ready
  <2> QED BY <1>4, <2>3, <2>4 DEF TakeFragment
<1>5. ASSUME NEW memory \in BOOLEAN, NEW refusal \in Refusals, TakeFrame(memory, refusal)
      PROVE  \E i \in DOMAIN got' : got'[i] = f
  <2>1. batch > 0 /\ ev.kind = "data" /\ Note(memory /\ refusal = "none" /\ ~Full)
    BY <1>5 DEF TakeFrame, Serving
  <2>2. Shifted
    BY <1>1, <1>5, <2>1, FrameLot, ServedShifts DEF Dropped, LostAfter, Taken
  <2>3. Ready /\ Ended(piece) /\ memory /\ refusal = "none" /\ ~Full /\ f = piece.frame /\ f \notin turned
    BY <1>2, <2>1, <2>2
  <2>4. PICK ms : ms = Stored(Opened(Decoded, TRUE), Decoded.load).mem
    OBVIOUS
  <2>5. ms[1].frame = f /\ Checksum(ms) /\ IsFrame(f, ms)
    BY <1>1, <2>1, <2>2, <2>3, <2>4, PutTogether
  <2>6. /\ got \in Seq(1 .. Len(frames)) /\ got' \in Seq(1 .. Len(frames'))
        /\ f \in 1 .. Len(frames)
    <3>1. TypeOK'
      BY <1>1, TypeStep
    <3> QED BY <1>1, <2>1, <2>3, <3>1, Served1 DEF TypeOK, DeviceOK
  <2>7. CASE frames[f].sn <= rxsn /\ UNCHANGED got
    <3>1. 1 \in Q /\ IsData(1) /\ At(1) = f /\ LinkAt(1) \notin deaf
      BY <1>1, <2>1, <2>2, <2>3 DEF Shifted, IsData, At, LinkAt, piece
    <3>2. \E i \in G : got[i] = f
      BY <1>1, <2>3, <2>7, <3>1, CountedWasTaken
    <3> QED BY <2>6, <2>7, <3>2 DEF G
  <2>8. CASE Execute(f, ms, memory /\ refusal = "none")
    <3>1. got' = Append(got, f)
      BY <2>3, <2>5, <2>8 DEF Execute
    <3>2. Len(got) + 1 \in DOMAIN got' /\ got'[Len(got) + 1] = f
      BY <2>6, <3>1
    <3> QED BY <3>2
  <2>9. (frames[f].sn <= rxsn /\ UNCHANGED got) \/ Execute(f, ms, memory /\ refusal = "none")
    BY <1>5, <2>3, <2>4, <2>5 DEF TakeFrame
  <2> QED BY <2>7, <2>8, <2>9
<1>6. CASE UNCHANGED vars \/ Connect \/ Disconnect \/ Phone \/ Pass \/ HandleConn \/ HandleDisc \/ HandleCmd
  BY <1>6 DEF vars, Connect, Disconnect, Phone, BeginFrame, SendFragment, RepeatFragment, Pass,
              HandleConn, HandleDisc, HandleCmd
<1> QED BY <1>3, <1>4, <1>5, <1>6 DEF Next, Handle

\* tuya_ble_mutli_tsf_protocol.c:399: whatever was lost, repeated or mixed up
\* before it, a frame whose fragments came one after the other becomes a command,
\* unless there was no memory or no room for it, or the device is in a state in
\* which it does not take the command.
THEOREM WholeFramesTaken == Spec => WholeIsTaken
<1>1. IInv /\ WInv /\ [Next]_vars =>
        [LET f == intact'.frame IN
         /\ intact' # intact /\ intact' # Nothing
         /\ Ended(intact')
         /\ frames[f].len <= FrameMax /\ frames[f].link \notin deaf
         /\ f \notin turned'
         => f \in {got'[i] : i \in DOMAIN got'}]_vars
  BY WholeTaken
<1> QED
  BY <1>1, WholenessHolds, PTL DEF Spec, WholeIsTaken
=============================================================================
