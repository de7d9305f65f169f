---------------------------- MODULE BleSchedProofs ----------------------------
(***************************************************************************)
(* The event ring of the SDK is a bounded first-in first-out channel, for  *)
(* every size of the ring and every set of events, although its slots are  *)
(* filled outside the critical section that takes them.                    *)
(*                                                                         *)
(* The invariant says where the indices are: what is being filled is one   *)
(* slot of those queued and never the first one while its event is being   *)
(* handled, and the end of a pass lies between the two ends of the queue.  *)
(***************************************************************************)
EXTENDS BleSched, SequenceTheorems, TLAPS

\* How far t is behind s, and the i-th slot from s on.
Dist(s, t) == IF t >= s THEN t - s ELSE Size + 1 - s + t
Slot(s, i) == IF s + i - 1 <= Size THEN s + i - 1 ELSE s + i - 2 - Size

\* What the reader will find in slot i, when fs are being filled over d.
Shown(fs, d, i) ==
  IF \E f \in fs : f.slot = i THEN (CHOOSE f \in fs : f.slot = i).event ELSE d[i]

\* One slot being filled.
One(s, e) == {[slot |-> s, event |-> e]}

TypeOK ==
  /\ data \in [Slots -> Events \cup {NoEvent}]
  /\ start \in Slots /\ end \in Slots /\ endIx \in Slots
  /\ pc \in {"idle", "loop", "handle"}

OneFilled ==
  /\ filling = {} \/ \E e \in Events : \E i \in 1 .. Dist(start, end) :
                       filling = One(Slot(start, i), e)
  /\ pc = "loop" => filling = {}

AllShown ==
  \A i \in 1 .. Dist(start, end) : Shown(filling, data, Slot(start, i)) \in Events

Handled ==
  pc = "handle" => /\ evt = data[start]
                   /\ \A f \in filling : f.slot # start

Pass ==
  /\ pc \in {"loop", "handle"} => Dist(start, endIx) <= Dist(start, end)
  /\ pc = "handle" => Dist(start, endIx) > 0

IInv == TypeOK /\ OneFilled /\ AllShown /\ Handled /\ Pass

-----------------------------------------------------------------------------
(* The indices of the ring.                                                *)

(* A distance is one of the ring; the slot at a distance is a slot, and    *)
(* other distances lead to other slots.                                    *)
LEMMA Ring ==
  ASSUME NEW s \in Slots, NEW t \in Slots
  PROVE  /\ Dist(s, t) \in 0 .. Size
         /\ Dist(s, t) = 0 <=> s = t
         /\ Slot(s, 1) = s
         /\ Slot(s, Dist(s, t) + 1) = t
         /\ \A i \in 1 .. Size + 1 : Slot(s, i) \in Slots
         /\ \A i, j \in 1 .. Size + 1 : Slot(s, i) = Slot(s, j) => i = j
  BY BleSchedAssumption, SMT DEF Slots, Dist, Slot

(* Moving the end on lengthens the queue by one, unless it is full. *)
LEMMA EndMoves ==
  ASSUME NEW s \in Slots, NEW t \in Slots, NextIndex(t) # s
  PROVE  /\ NextIndex(t) \in Slots
         /\ Dist(s, NextIndex(t)) = Dist(s, t) + 1
         /\ Dist(s, t) < Size
  BY BleSchedAssumption, SMT DEF Slots, Dist, NextIndex

(* Moving the start on shortens it by one, and renumbers its slots. *)
LEMMA StartMoves ==
  ASSUME NEW s \in Slots, NEW t \in Slots, s # t
  PROVE  /\ NextIndex(s) \in Slots
         /\ Dist(NextIndex(s), t) = Dist(s, t) - 1
         /\ \A i \in 1 .. Size : Slot(NextIndex(s), i) = Slot(s, i + 1)
  BY BleSchedAssumption, SMT DEF Slots, Dist, Slot, NextIndex

(* What is shown of a slot: the event being filled into it, or its own. *)
LEMMA ShownEmpty ==
  ASSUME NEW d, NEW i
  PROVE  Shown({}, d, i) = d[i]
  BY DEF Shown

LEMMA ShownFilling ==
  ASSUME NEW s, NEW e, NEW d, NEW i
  PROVE  Shown(One(s, e), d, i) = IF i = s THEN e ELSE d[i]
<1> DEFINE f == [slot |-> s, event |-> e]
<1>1. f.slot = s /\ f.event = e
  OBVIOUS
<1>2. (CHOOSE g \in {f} : g.slot = s) = f
  BY <1>1
<1> QED BY <1>1, <1>2 DEF Shown, One

(* The queue as its reader sees it, in these terms. *)
LEMMA ContentsIs ==
  Contents = [i \in 1 .. Dist(start, end) |-> Shown(filling, data, Slot(start, i))]
  BY DEF Contents, Queued, At, Dist, Slot, Shown

-----------------------------------------------------------------------------
(* Every step keeps the invariant and is one of the channel.               *)

(* A ring with nothing in it. *)
LEMMA InitIInv == Init => IInv /\ Channel!Init
<1> SUFFICES ASSUME Init PROVE IInv /\ Channel!Init
  OBVIOUS
<1>1. TypeOK /\ start = end /\ filling = {} /\ pc = "idle"
  BY BleSchedAssumption DEF Init, TypeOK, Slots
<1>2. Dist(start, end) = 0
  BY <1>1, Ring DEF TypeOK
<1>3. 1 .. 0 = {}
  OBVIOUS
<1>4. IInv
  BY <1>1, <1>2, <1>3 DEF IInv, OneFilled, AllShown, Handled, Pass
<1>5. Contents = <<>>
  <2>1. Contents = [i \in 1 .. 0 |-> Shown(filling, data, Slot(start, i))]
    BY <1>2, ContentsIs
  <2> QED BY <2>1, <1>3
<1> QED BY <1>4, <1>5 DEF Channel!Init, Init

(* The queue is a sequence of events, as long as the distance of its ends. *)
LEMMA ContentsType ==
  ASSUME NEW fs, NEW d, NEW s, NEW n \in 0 .. Size, NEW c,
         \A i \in 1 .. n : Shown(fs, d, Slot(s, i)) \in Events,
         c = [i \in 1 .. n |-> Shown(fs, d, Slot(s, i))]
  PROVE  /\ c \in Seq(Events) /\ Len(c) = n
         /\ \A i \in 1 .. n : c[i] = Shown(fs, d, Slot(s, i))
<1>1. n \in Nat
  BY BleSchedAssumption
<1>2. c \in [1 .. n -> Events]
  OBVIOUS
<1>3. c \in Seq(Events)
  BY <1>1, <1>2, SeqDef
<1> QED BY <1>1, <1>2, <1>3, LenProperties

(* The same before and after a step that keeps the invariant. *)
LEMMA ContentsNow ==
  ASSUME IInv
  PROVE  /\ Contents \in Seq(Events) /\ Len(Contents) = Dist(start, end)
         /\ Dist(start, end) \in 0 .. Size
         /\ \A i \in 1 .. Dist(start, end) : Contents[i] = Shown(filling, data, Slot(start, i))
<1>1. Dist(start, end) \in 0 .. Size
  BY Ring DEF IInv, TypeOK
<1> QED BY <1>1, ContentsIs, ContentsType DEF IInv, AllShown

LEMMA ContentsNext ==
  ASSUME TypeOK', AllShown'
  PROVE  /\ Contents' \in Seq(Events) /\ Len(Contents') = Dist(start', end')
         /\ \A i \in 1 .. Dist(start', end') :
               Contents'[i] = Shown(filling', data', Slot(start', i))
<1>1. Dist(start', end') \in 0 .. Size
  BY Ring DEF TypeOK
<1>2. Contents' = [i \in 1 .. Dist(start', end') |-> Shown(filling', data', Slot(start', i))]
  BY DEF Contents, Queued, At, Dist, Slot, Shown
<1> QED BY <1>1, <1>2, ContentsType DEF AllShown

(* Where nothing moves and the same is shown, the queue is the same. *)
LEMMA Same ==
  ASSUME IInv, TypeOK', UNCHANGED <<start, end>>,
         \A i \in 1 .. Dist(start, end) :
           Shown(filling', data', Slot(start, i)) = Shown(filling, data, Slot(start, i))
  PROVE  AllShown' /\ Contents' = Contents
<1>1. AllShown'
  BY DEF IInv, AllShown
<1> QED BY <1>1, ContentsNow, ContentsNext, SeqEqual

(* A slot taken at the end that shows an event appends it. *)
LEMMA Appends ==
  ASSUME IInv, TypeOK', NEW e \in Events, ~Full,
         end' = NextIndex(end), start' = start,
         Shown(filling', data', end) = e,
         \A i \in 1 .. Dist(start, end) :
           Shown(filling', data', Slot(start, i)) = Shown(filling, data, Slot(start, i))
  PROVE  /\ AllShown' /\ Dist(start', end') = Dist(start, end) + 1
         /\ Contents' = Append(Contents, e) /\ Len(Contents) < Size
<1> DEFINE n == Dist(start, end)
<1>1. Dist(start', end') = n + 1 /\ n < Size
  BY EndMoves DEF IInv, TypeOK, Full
<1>2. n \in Nat /\ Slot(start, n + 1) = end
  BY Ring, BleSchedAssumption DEF IInv, TypeOK
<1> HIDE DEF n
<1>3. \A i \in 1 .. n + 1 : Shown(filling', data', Slot(start', i)) =
                            IF i = n + 1 THEN e ELSE Shown(filling, data, Slot(start, i))
  BY <1>2 DEF n
<1>4. AllShown'
  <2>1. \A i \in 1 .. n + 1 : i = n + 1 \/ i \in 1 .. n
    BY <1>2
  <2>2. \A i \in 1 .. n : Shown(filling, data, Slot(start, i)) \in Events
    BY DEF n, IInv, AllShown
  <2> QED BY <1>1, <1>3, <2>1, <2>2 DEF AllShown
<1>5. /\ Contents \in Seq(Events) /\ Len(Contents) = n
      /\ \A i \in 1 .. n : Contents[i] = Shown(filling, data, Slot(start, i))
  BY ContentsNow DEF n
<1>6. /\ Contents' \in Seq(Events) /\ Len(Contents') = n + 1
      /\ \A i \in 1 .. n + 1 : Contents'[i] = Shown(filling', data', Slot(start', i))
  BY <1>1, <1>4, ContentsNext
<1>7. /\ Append(Contents, e) \in Seq(Events) /\ Len(Append(Contents, e)) = n + 1
      /\ \A i \in 1 .. n + 1 :
            Append(Contents, e)[i] = IF i = n + 1 THEN e ELSE Contents[i]
  BY <1>2, <1>5
<1>8. \A i \in 1 .. n + 1 : Contents'[i] = Append(Contents, e)[i]
  <2>1. \A i \in 1 .. n + 1 : i = n + 1 \/ i \in 1 .. n
    BY <1>2
  <2> QED BY <1>3, <1>5, <1>6, <1>7, <2>1
<1>9. Contents' = Append(Contents, e)
  BY <1>6, <1>7, <1>8, SeqEqual
<1> QED BY <1>1, <1>4, <1>5, <1>9 DEF n

(* The start moved on with nothing being filled drops the first event. *)
LEMMA Drops ==
  ASSUME IInv, TypeOK', start # end,
         start' = NextIndex(start), UNCHANGED <<data, end, filling>>
  PROVE  /\ AllShown' /\ Dist(start', end') = Dist(start, end) - 1
         /\ Contents # <<>> /\ Contents' = Tail(Contents)
         /\ Head(Contents) = Shown(filling, data, start)
<1> DEFINE n == Dist(start, end)
<1>1. n \in 1 .. Size /\ Slot(start, 1) = start
  BY Ring, BleSchedAssumption DEF IInv, TypeOK
<1>2. /\ Dist(start', end') = n - 1
      /\ \A i \in 1 .. Size : Slot(start', i) = Slot(start, i + 1)
  BY StartMoves DEF IInv, TypeOK
<1> HIDE DEF n
<1>3. \A i \in 1 .. n - 1 : i \in 1 .. Size /\ i + 1 \in 1 .. n
  BY <1>1, BleSchedAssumption
<1>4. \A i \in 1 .. n - 1 :
         Shown(filling', data', Slot(start', i)) = Shown(filling, data, Slot(start, i + 1))
  BY <1>2, <1>3
<1>5. AllShown'
  BY <1>2, <1>3, <1>4 DEF IInv, AllShown, n
<1>6. /\ Contents \in Seq(Events) /\ Len(Contents) = n
      /\ \A i \in 1 .. n : Contents[i] = Shown(filling, data, Slot(start, i))
  BY ContentsNow DEF n
<1>7. /\ Contents' \in Seq(Events) /\ Len(Contents') = n - 1
      /\ \A i \in 1 .. n - 1 : Contents'[i] = Shown(filling', data', Slot(start', i))
  BY <1>2, <1>5, ContentsNext
<1>8. Contents # <<>>
  BY <1>1, <1>6
<1>9. /\ Tail(Contents) \in Seq(Events) /\ Len(Tail(Contents)) = n - 1
      /\ \A i \in 1 .. n - 1 : Tail(Contents)[i] = Contents[i + 1]
  BY <1>6, <1>8, HeadTailProperties
<1>10. Contents' = Tail(Contents)
  BY <1>3, <1>4, <1>6, <1>7, <1>9, SeqEqual
<1>11. Head(Contents) = Contents[1]
  BY <1>6, <1>8
<1> QED BY <1>1, <1>2, <1>5, <1>6, <1>8, <1>10, <1>11 DEF n

(* tuya_ble_sched_event_put takes a slot: its event is queued from then on. *)
LEMMA TakeSlotStep ==
  ASSUME IInv, NEW e \in Events, TakeSlot(e)
  PROVE  IInv' /\ Channel!Send(e)
<1> DEFINE n == Dist(start, end)
<1>1. /\ filling = {} /\ filling' = One(end, e)
      /\ end' = NextIndex(end) /\ ~Full /\ pc \in {"idle", "handle"}
      /\ UNCHANGED <<data, start, pc, endIx, evt, recv>>
  BY DEF TakeSlot, One
<1>2. TypeOK'
  BY <1>1, EndMoves DEF IInv, TypeOK, Full
<1>3. n \in 0 .. Size /\ Slot(start, n + 1) = end /\ Dist(start, end') = n + 1
  BY <1>1, Ring, EndMoves DEF IInv, TypeOK, Full
<1>4. \A i \in 1 .. n : Slot(start, i) # end
  BY <1>3, Ring, BleSchedAssumption DEF IInv, TypeOK
<1>5. /\ Shown(filling', data', end) = e
      /\ \A i \in 1 .. n :
           Shown(filling', data', Slot(start, i)) = Shown(filling, data, Slot(start, i))
  <2>1. Shown(filling', data', end) = e
    BY <1>1, ShownEmpty, ShownFilling
  <2>2. ASSUME NEW i \in 1 .. n
        PROVE  Shown(filling', data', Slot(start, i)) = Shown(filling, data, Slot(start, i))
    <3>1. Shown(filling', data', Slot(start, i)) = data[Slot(start, i)]
      <4>1. Slot(start, i) # end
        BY <1>4
      <4>2. Shown(filling', data', Slot(start, i)) =
               IF Slot(start, i) = end THEN e ELSE data'[Slot(start, i)]
        BY <1>1, ShownEmpty, ShownFilling
      <4> QED BY <1>1, <4>1, <4>2
    <3>2. Shown(filling, data, Slot(start, i)) = data[Slot(start, i)]
      BY <1>1, ShownEmpty, ShownFilling
    <3> QED BY <3>1, <3>2
  <2> QED BY <2>1, <2>2
<1>6. AllShown' /\ Contents' = Append(Contents, e) /\ Len(Contents) < Size
  BY <1>1, <1>2, <1>5, Appends
<1>7. OneFilled'
  <2>1. n + 1 \in 1 .. n + 1
    BY <1>3, BleSchedAssumption
  <2>2. filling' = One(Slot(start', n + 1), e)
    BY <1>1, <1>3
  <2>3. Dist(start', end') = n + 1
    BY <1>1, <1>3
  <2> HIDE DEF n
  <2> QED BY <1>1, <2>1, <2>2, <2>3 DEF OneFilled
<1>8. Pass'
  BY <1>1, <1>3, Ring, BleSchedAssumption DEF IInv, TypeOK, Pass
<1>9. Handled'
  <2>1. pc = "handle" => end # start
    BY <1>3, Ring, BleSchedAssumption DEF IInv, TypeOK, Pass
  <2> QED BY <1>1, <2>1 DEF IInv, Handled, One
<1> QED BY <1>1, <1>2, <1>6, <1>7, <1>8, <1>9 DEF IInv, Channel!Send

(* An interrupt puts an event, whatever the main loop is doing. *)
LEMMA IsrPutStep ==
  ASSUME IInv, NEW e \in Events, IsrPut(e)
  PROVE  IInv' /\ Channel!Send(e)
<1> DEFINE n == Dist(start, end)
<1>1. /\ ~Full /\ data' = [data EXCEPT ![end] = e] /\ end' = NextIndex(end)
      /\ UNCHANGED <<start, pc, endIx, evt, filling, recv>>
  BY DEF IsrPut
<1>2. TypeOK'
  BY <1>1, EndMoves DEF IInv, TypeOK, Full
<1>3. n \in 0 .. Size /\ Slot(start, n + 1) = end /\ Dist(start, end') = n + 1
  BY <1>1, Ring, EndMoves DEF IInv, TypeOK, Full
<1>4. \A i \in 1 .. n : Slot(start, i) # end /\ Slot(start, i) \in Slots
  <2>1. \A i \in 1 .. n : Slot(start, i) # end
    BY <1>3, Ring, BleSchedAssumption DEF IInv, TypeOK
  <2>2. \A i \in 1 .. n : i \in 1 .. Size + 1
    BY <1>3, BleSchedAssumption
  <2> QED BY <2>1, <2>2, Ring DEF IInv, TypeOK
<1>5. /\ data'[end] = e
      /\ \A i \in Slots : i # end => data'[i] = data[i]
  BY <1>1 DEF IInv, TypeOK
<1>6. \A i \in Slots : Shown(filling', data', i) = IF i = end THEN e ELSE Shown(filling, data, i)
  <2>1. end \in Slots
    BY DEF IInv, TypeOK
  <2>2. CASE filling = {}
    <3>1. \A i \in Slots : Shown(filling, data, i) = data[i]
      BY <2>2, ShownEmpty, ShownFilling
    <3>2. filling' = {}
      BY <1>1, <2>2
    <3>3. \A i \in Slots : Shown(filling', data', i) = data'[i]
      BY <3>2, ShownEmpty, ShownFilling
    <3> QED BY <1>5, <3>1, <3>3
  <2>3. ASSUME NEW f \in Events, NEW j \in 1 .. n,
               filling = One(Slot(start, j), f),
               NEW i \in Slots
        PROVE  Shown(filling', data', i) = IF i = end THEN e ELSE Shown(filling, data, i)
    <3>1. Slot(start, j) # end /\ filling' = filling
      BY <1>1, <1>4
    <3>2. CASE i = Slot(start, j)
      BY <2>3, <3>1, <3>2, ShownEmpty, ShownFilling
    <3>3. CASE i # Slot(start, j)
      <4>1. Shown(filling, data, i) = data[i]
        BY <2>3, <3>3, ShownEmpty, ShownFilling
      <4>2. filling' = One(Slot(start, j), f)
        BY <2>3, <3>1
      <4>3. Shown(filling', data', i) = data'[i]
        BY <3>3, <4>2, ShownEmpty, ShownFilling
      <4> QED BY <1>5, <2>3, <4>1, <4>3
    <3> QED BY <3>2, <3>3
  <2> QED BY <2>2, <2>3 DEF IInv, OneFilled
<1>7. AllShown' /\ Contents' = Append(Contents, e) /\ Len(Contents) < Size
  <2>1. end \in Slots
    BY DEF IInv, TypeOK
  <2> QED BY <1>1, <1>2, <1>4, <1>6, <2>1, Appends
<1>8. OneFilled'
  <2>1. \A i \in 1 .. n : i \in 1 .. n + 1
    BY <1>3, BleSchedAssumption
  <2>2. Dist(start', end') = n + 1
    BY <1>1, <1>3
  <2> QED BY <1>1, <2>1, <2>2 DEF IInv, OneFilled
<1>9. Pass'
  BY <1>1, <1>3, Ring, BleSchedAssumption DEF IInv, TypeOK, Pass
<1>10. Handled'
  <2>1. pc = "handle" => end # start /\ start \in Slots
    BY <1>3, Ring, BleSchedAssumption DEF IInv, TypeOK, Pass
  <2> QED BY <1>1, <1>5, <2>1 DEF IInv, Handled
<1> QED BY <1>1, <1>2, <1>7, <1>8, <1>9, <1>10 DEF IInv, Channel!Send

(* A slot is filled: the reader saw its event there already. *)
LEMMA FillSlotStep ==
  ASSUME IInv, FillSlot
  PROVE  IInv' /\ UNCHANGED <<Contents, recv>>
<1> DEFINE n == Dist(start, end)
<1>1. filling' = {} /\ UNCHANGED <<start, end, pc, endIx, evt, recv>>
  BY DEF FillSlot
<1>2. PICK e \in Events, j \in 1 .. n : filling = One(Slot(start, j), e)
  BY DEF FillSlot, IInv, OneFilled
<1>3. data' = [data EXCEPT ![Slot(start, j)] = e]
  <2>1. PICK f \in filling : data' = [data EXCEPT ![f.slot] = f.event]
    BY DEF FillSlot
  <2>2. f.slot = Slot(start, j) /\ f.event = e
    BY <1>2 DEF One
  <2> QED BY <2>1, <2>2
<1>4. n \in 0 .. Size
  BY Ring DEF IInv, TypeOK
<1>5. \A i \in 1 .. n : Slot(start, i) \in Slots
  <2>1. \A i \in 1 .. n : i \in 1 .. Size + 1
    BY <1>4, BleSchedAssumption
  <2> QED BY <2>1, Ring DEF IInv, TypeOK
<1>6. TypeOK'
  BY <1>1, <1>3 DEF IInv, TypeOK
<1>7. ASSUME NEW i \in 1 .. n
      PROVE  Shown(filling', data', Slot(start, i)) = Shown(filling, data, Slot(start, i))
  <2>1. Shown(filling', data', Slot(start, i)) = data'[Slot(start, i)]
    BY <1>1, ShownEmpty
  <2>2. Shown(filling, data, Slot(start, i)) =
          IF Slot(start, i) = Slot(start, j) THEN e ELSE data[Slot(start, i)]
    BY <1>2, ShownFilling
  <2> QED BY <1>3, <1>5, <2>1, <2>2 DEF IInv, TypeOK
<1>8. AllShown' /\ Contents' = Contents
  BY <1>1, <1>6, <1>7, Same
<1>9. Handled'
  <2>1. pc = "handle" => Slot(start, j) # start /\ start \in Slots
    BY <1>2 DEF IInv, TypeOK, Handled, One
  <2> QED BY <1>1, <1>3, <2>1 DEF IInv, TypeOK, Handled
<1>10. OneFilled' /\ Pass'
  BY <1>1 DEF IInv, OneFilled, Pass
<1> QED BY <1>1, <1>6, <1>8, <1>9, <1>10 DEF IInv

(* A pass begins, and its next event is looked at: nothing moves. *)
LEMMA LookStep ==
  ASSUME IInv, ExecuteStart \/ ExecuteTake
  PROVE  IInv' /\ UNCHANGED <<Contents, recv>>
<1>1. UNCHANGED <<data, start, end, filling, recv>>
  BY DEF ExecuteStart, ExecuteTake
<1>2. filling = {}
  BY DEF ExecuteStart, ExecuteTake, IInv, OneFilled
<1>3. TypeOK'
  BY <1>1 DEF IInv, TypeOK, ExecuteStart, ExecuteTake
<1>4. AllShown' /\ Contents' = Contents
  BY <1>1, <1>3, Same
<1>5. OneFilled'
  BY <1>1, <1>2 DEF OneFilled
<1>6. Handled' /\ Pass'
  <2>1. CASE ExecuteStart
    <3>1. Dist(start', endIx') <= Dist(start', end') /\ pc' = "loop"
      <4>1. Dist(start, end) \in 0 .. Size
        BY Ring DEF IInv, TypeOK
      <4>2. Dist(start', endIx') = Dist(start, end) /\ Dist(start', end') = Dist(start, end)
        BY <1>1, <2>1 DEF ExecuteStart
      <4> QED BY <2>1, <4>1, <4>2, BleSchedAssumption DEF ExecuteStart
    <3> QED BY <3>1 DEF Handled, Pass
  <2>2. CASE ExecuteTake /\ start = endIx
    BY <2>2 DEF ExecuteTake, Handled, Pass
  <2>3. CASE ExecuteTake /\ start # endIx
    <3>1. pc = "loop" /\ pc' = "handle" /\ evt' = data[start] /\ endIx' = endIx
      BY <2>3 DEF ExecuteTake
    <3>2. Dist(start, endIx) > 0
      BY <2>3, Ring, BleSchedAssumption DEF IInv, TypeOK
    <3> QED BY <1>1, <1>2, <3>1, <3>2 DEF IInv, Handled, Pass
  <2> QED BY <2>1, <2>2, <2>3
<1> QED BY <1>1, <1>3, <1>4, <1>5, <1>6 DEF IInv

(* A handler returns: its event was the first of the queue, and leaves it. *)
LEMMA ExecuteNextStep ==
  ASSUME IInv, ExecuteNext
  PROVE  IInv' /\ Channel!Receive
<1>1. /\ pc = "handle" /\ filling = {} /\ start' = NextIndex(start)
      /\ pc' = "loop" /\ recv' = evt
      /\ UNCHANGED <<data, end, endIx, evt, filling>>
  BY DEF ExecuteNext
<1>2. /\ Dist(start, endIx) \in 0 .. Size /\ Dist(start, end) \in 0 .. Size
      /\ 0 < Dist(start, endIx) /\ Dist(start, endIx) <= Dist(start, end)
  BY <1>1, Ring DEF IInv, TypeOK, Pass
<1>3. start # end /\ start # endIx
  BY <1>2, Ring, BleSchedAssumption DEF IInv, TypeOK
<1>4. TypeOK'
  BY <1>1, <1>3, StartMoves DEF IInv, TypeOK
<1>5. /\ AllShown' /\ Dist(start', end') = Dist(start, end) - 1
      /\ Contents # <<>> /\ Contents' = Tail(Contents)
      /\ Head(Contents) = Shown(filling, data, start)
  BY <1>1, <1>3, <1>4, Drops
<1>6. recv' = Head(Contents)
  BY <1>1, <1>5, ShownEmpty DEF IInv, Handled
<1>7. Dist(start', endIx') = Dist(start, endIx) - 1
  BY <1>1, <1>3, StartMoves DEF IInv, TypeOK
<1>8. OneFilled' /\ Handled' /\ Pass'
  BY <1>1, <1>2, <1>5, <1>7, BleSchedAssumption DEF OneFilled, Handled, Pass
<1> QED BY <1>4, <1>5, <1>6, <1>8 DEF IInv, Channel!Receive

-----------------------------------------------------------------------------
(* What a reader should know of.                                           *)

(* Each step keeps the invariant, and is a step of the channel or none. *)
LEMMA Step ==
  ASSUME IInv, [Next]_vars
  PROVE  IInv' /\ [Channel!Next]_<<Contents, recv>>
<1>1. CASE \E e \in Events : TakeSlot(e) \/ IsrPut(e)
  BY <1>1, TakeSlotStep, IsrPutStep DEF Channel!Next
<1>2. CASE FillSlot \/ ExecuteStart \/ ExecuteTake
  BY <1>2, FillSlotStep, LookStep
<1>3. CASE ExecuteNext
  BY <1>3, ExecuteNextStep DEF Channel!Next
<1>4. CASE UNCHANGED vars
  <2>1. IInv'
    BY <1>4 DEF vars, IInv, TypeOK, OneFilled, AllShown, Handled, Pass
  <2>2. UNCHANGED <<Contents, recv>>
    BY <1>4 DEF vars, Contents, Queued, At
  <2> QED BY <2>1, <2>2
<1> QED BY <1>1, <1>2, <1>3, <1>4 DEF Next, Execute

(* The indices, the slot being filled and the end of the pass agree, in    *)
(* every state that senders, interrupts and the main loop can reach.       *)
THEOREM RingCoherent == Spec => []IInv
<1>1. Init => IInv
  BY InitIInv
<1>2. IInv /\ [Next]_vars => IInv'
  BY Step
<1> QED BY <1>1, <1>2, PTL DEF Spec

(* The event ring implements the bounded channel: an event accepted is     *)
(* handled once, after those accepted before it, and none is accepted      *)
(* beyond its size.                                                        *)
THEOREM Implementation == Spec => ImplementsChannel
<1>1. Init => Channel!Init
  BY InitIInv
<1>2. IInv /\ [Next]_vars => [Channel!Next]_<<Contents, recv>>
  BY Step
<1> QED BY <1>1, <1>2, RingCoherent, PTL DEF Spec, ImplementsChannel, Channel!Spec
=============================================================================
