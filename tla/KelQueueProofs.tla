---------------------------- MODULE KelQueueProofs ----------------------------
(***************************************************************************)
(* The task queue, for every size and every set of messages.  Whoever      *)
(* sends, the count stays below what was sent.  A queue that interrupts    *)
(* alone fill hands over the oldest message, although its count is too low *)
(* (Laid: the messages lie behind the write index).  A queue only the main *)
(* loop fills strands nothing and is a bounded first-in first-out channel: *)
(* its count is then exact (Exact), its write index is as far behind its   *)
(* read index as the count says (Placed), and the message being moved is   *)
(* where the copy under way has put it (Carried).                          *)
(***************************************************************************)
EXTENDS KelQueue, SequenceTheorems, TLAPS

Sending == {"enqCopy", "enqLoadWr", "enqStoreWr", "enqLoadUsed", "enqStoreUsed"}
Taking  == {"deqCopy", "deqAdvance", "deqLoadUsed", "deqStoreUsed"}

TypeOK ==
  /\ buf \in [Slots -> Msgs \cup {NoMsg}]
  /\ rd \in Slots /\ wr \in Slots
  /\ used \in Nat /\ tokens \in Nat /\ reg \in Nat
  /\ pc \in {"idle"} \cup Sending \cup Taking
  /\ owed \in Seq(Msgs \cup {NoMsg})
  /\ msg \in Msgs \cup {NoMsg}

\* Whoever sends: the count and the copy of it under way.
Counted ==
  /\ used <= Len(owed)
  /\ pc \in Taking => used > 0
  /\ pc \in {"enqStoreUsed", "deqStoreUsed"} => reg <= used
  /\ pc = "deqStoreUsed" => reg > 0

CInv == TypeOK /\ Counted

-----------------------------------------------------------------------------
(* Any queue.                                                              *)

(* An index moved on by one is an index of the ring. *)
LEMMA Wraps ==
  ASSUME NEW i \in Nat
  PROVE  (i + 1) % Size \in Slots
  BY KelQueueAssumption, SMT DEF Slots

(* An empty queue is counted as such. *)
LEMMA InitCInv == Init => CInv
<1> SUFFICES ASSUME Init PROVE CInv
  OBVIOUS
<1>1. 0 \in Slots
  BY KelQueueAssumption DEF Slots
<1> QED BY <1>1 DEF Init, CInv, TypeOK, Counted, Taking

(* Every load and store of the main loop and every interrupt keeps it so. *)
LEMMA StepCInv == CInv /\ [Next]_vars => CInv'
<1> SUFFICES ASSUME CInv, [Next]_vars PROVE CInv'
  OBVIOUS
<1> USE DEF CInv
<1>1. CASE \E m \in Msgs : SendStart(m)
  BY <1>1 DEF SendStart, Goto, ring, TypeOK, Counted, Sending, Taking
<1>2. CASE SendCopy
  BY <1>2 DEF SendCopy, Goto, TypeOK, Counted, Sending, Taking
<1>3. CASE SendLoadWr
  <2>1. wr \in Nat
    BY DEF TypeOK, Slots
  <2> QED BY <1>3, <2>1 DEF SendLoadWr, Goto, ring, TypeOK, Counted, Sending, Taking
<1>4. CASE SendStoreWr
  <2>1. wr' \in Slots
    BY <1>4, Wraps DEF SendStoreWr, TypeOK
  <2> QED BY <1>4, <2>1 DEF SendStoreWr, Goto, TypeOK, Counted, Sending, Taking
<1>5. CASE SendLoadUsed
  BY <1>5 DEF SendLoadUsed, Goto, ring, TypeOK, Counted, Sending, Taking
<1>6. CASE SendStoreUsed
  <2>1. owed' \in Seq(Msgs \cup {NoMsg}) /\ Len(owed') = Len(owed) + 1
    BY <1>6 DEF SendStoreUsed, TypeOK
  <2>2. used' = reg + 1 /\ reg <= used /\ Len(owed) \in Nat
    BY <1>6 DEF SendStoreUsed, Goto, TypeOK, Counted
  <2>3. Counted'
    BY <1>6, <2>1, <2>2 DEF SendStoreUsed, Goto, TypeOK, Counted, Taking
  <2> QED BY <1>6, <2>1, <2>2, <2>3 DEF SendStoreUsed, Goto, TypeOK
<1>7. CASE \E m \in Msgs : IsrSend(m)
  <2>1. PICK m \in Msgs : IsrSend(m)
    BY <1>7
  <2>2. owed' \in Seq(Msgs \cup {NoMsg}) /\ Len(owed') = Len(owed) + 1 /\ Len(owed) \in Nat
    BY <2>1 DEF IsrSend, TypeOK
  <2>3. wr' \in Slots
    BY <2>1, Wraps DEF IsrSend, TypeOK, Slots
  <2>4. Counted'
    BY <2>1, <2>2 DEF IsrSend, TypeOK, Counted, Taking
  <2> QED BY <2>1, <2>2, <2>3, <2>4 DEF IsrSend, TypeOK
<1>8. CASE WaitFails
  BY <1>8 DEF WaitFails, ring, TypeOK, Counted, Taking
<1>9. CASE WaitStart
  BY <1>9 DEF WaitStart, Goto, ring, TypeOK, Counted, Sending, Taking
<1>10. CASE WaitCopy
  BY <1>10 DEF WaitCopy, Goto, ring, TypeOK, Counted, Sending, Taking
<1>11. CASE WaitAdvance
  <2>1. rd' \in Slots
    BY <1>11, Wraps DEF WaitAdvance, TypeOK, Slots
  <2> QED BY <1>11, <2>1 DEF WaitAdvance, Goto, TypeOK, Counted, Sending, Taking
<1>12. CASE WaitLoadUsed
  BY <1>12 DEF WaitLoadUsed, Goto, ring, TypeOK, Counted, Sending, Taking
<1>13. CASE WaitStoreUsed
  <2>1. used' = reg - 1 /\ 0 < reg /\ reg <= used /\ used <= Len(owed)
    BY <1>13 DEF WaitStoreUsed, Goto, TypeOK, Counted
  <2>2. owed # <<>>
    BY <2>1 DEF TypeOK
  <2>3. /\ owed' \in Seq(Msgs \cup {NoMsg}) /\ Len(owed') = Len(owed) - 1
        /\ Len(owed) \in Nat
    BY <1>13, <2>2, HeadTailProperties DEF WaitStoreUsed, TypeOK
  <2>4. Counted'
    BY <1>13, <2>1, <2>3 DEF WaitStoreUsed, Goto, TypeOK, Counted, Taking
  <2> QED BY <1>13, <2>1, <2>3, <2>4 DEF WaitStoreUsed, Goto, TypeOK
<1>14. CASE UNCHANGED vars
  BY <1>14 DEF vars, ring, TypeOK, Counted
<1> QED BY <1>1, <1>2, <1>3, <1>4, <1>5, <1>6, <1>7, <1>8, <1>9, <1>10, <1>11, <1>12,
           <1>13, <1>14 DEF Next, MainStep

(* The count is never above what was sent and not received, and never      *)
(* brought below zero, wherever an interrupt comes in.                     *)
THEOREM CountInvariance == Spec => []CInv
  BY InitCInv, StepCInv, PTL DEF Spec

-----------------------------------------------------------------------------
(* A queue that only the main loop fills: its count.                       *)

Main == senders = {"main"}

Exact ==
  /\ used = Len(owed) /\ used <= Size
  /\ tokens = IF pc \in Taking THEN used - 1 ELSE used
  /\ pc \in {"enqStoreUsed", "deqStoreUsed"} => reg = used
  /\ pc \in Sending => used < Size

EInv == Main => Exact

(* It counts what was sent when nothing was. *)
LEMMA InitEInv == Init => EInv
  BY KelQueueAssumption DEF Init, EInv, Exact, Taking, Sending

(* A step of the main loop keeps it exact. *)
LEMMA StepEInv == CInv /\ EInv /\ [Next]_vars => EInv'
<1> SUFFICES ASSUME CInv, EInv, [Next]_vars, Main' PROVE Exact'
  BY DEF EInv
<1>1. Main
  BY DEF Main, Next, MainStep, vars, SendStart, IsrSend, SendCopy, SendLoadWr, SendStoreWr,
         SendLoadUsed, SendStoreUsed, WaitFails, WaitStart, WaitCopy, WaitAdvance,
         WaitLoadUsed, WaitStoreUsed
<1>2. Exact
  BY <1>1 DEF EInv
<1> USE <1>2, KelQueueAssumption DEF CInv, TypeOK
<1>3. CASE \E m \in Msgs : SendStart(m)
  BY <1>3 DEF SendStart, Goto, ring, Exact, Sending, Taking
<1>4. CASE SendCopy \/ SendLoadWr \/ SendStoreWr \/ SendLoadUsed
  BY <1>4 DEF SendCopy, SendLoadWr, SendStoreWr, SendLoadUsed, Goto, ring, Exact, Sending, Taking
<1>5. CASE SendStoreUsed
  <2>1. Len(owed') = Len(owed) + 1
    BY <1>5 DEF SendStoreUsed
  <2> QED BY <1>5, <2>1 DEF SendStoreUsed, Goto, Exact, Sending, Taking
<1>6. CASE \E m \in Msgs : IsrSend(m)
  BY <1>1, <1>6 DEF Main, IsrSend
<1>7. CASE WaitFails
  BY <1>7 DEF WaitFails, Exact, Taking
<1>8. CASE WaitStart \/ WaitCopy \/ WaitAdvance \/ WaitLoadUsed
  BY <1>8 DEF WaitStart, WaitCopy, WaitAdvance, WaitLoadUsed, Goto, ring, Exact, Sending, Taking
<1>9. CASE WaitStoreUsed
  <2>1. owed # <<>>
    BY <1>9 DEF WaitStoreUsed, Goto, Counted, Taking
  <2>2. Len(owed') = Len(owed) - 1
    BY <1>9, <2>1, HeadTailProperties DEF WaitStoreUsed
  <2> QED BY <1>9, <2>2 DEF WaitStoreUsed, Goto, Exact, Sending, Taking
<1>10. CASE UNCHANGED vars
  BY <1>10 DEF vars, ring, Exact
<1> QED BY <1>3, <1>4, <1>5, <1>6, <1>7, <1>8, <1>9, <1>10 DEF Next, MainStep

(* Where only the main loop sends, a message accepted is one the task is   *)
(* told of: with every os event served none is waiting.                    *)
THEOREM NothingIsStranded == Spec => []MainNeverStrands
<1>1. CInv /\ EInv => MainNeverStrands
  BY DEF CInv, TypeOK, EInv, Main, Exact, Taking, MainNeverStrands, NothingStranded
<1>2. Spec => [](CInv /\ EInv)
  BY InitCInv, StepCInv, InitEInv, StepEInv, PTL DEF Spec
<1> QED BY <1>1, <1>2, PTL

-----------------------------------------------------------------------------
(* Such a queue: its ring.                                                 *)

\* The i-th slot from s on, what n of them hold, and the slot after s.
Slot(s, i) == IF s + i - 1 < Size THEN s + i - 1 ELSE s + i - 1 - Size
View(b, s, n) == [i \in 1 .. n |-> b[Slot(s, i)]]
After(s) == IF s + 1 < Size THEN s + 1 ELSE 0

\* The oldest message's slot, and the one behind the youngest.
First == IF Receiving THEN (rd + Size - 1) % Size ELSE rd
Last  == Slot(First, used + 1)

Placed ==
  /\ wr = IF pc \in {"enqLoadUsed", "enqStoreUsed"} THEN After(Last) ELSE Last
  /\ pc = "enqStoreWr" => reg = wr

Carried ==
  /\ pc \in Sending => msg \in Msgs
  /\ pc \in Sending \ {"enqCopy"} => buf[Last] = msg
  /\ pc \in Taking \ {"deqCopy"} => buf[First] = msg

RInv == Main => Placed /\ Carried

(* The slots of the ring, and their order. *)
LEMMA Ring ==
  ASSUME NEW s \in Slots
  PROVE  /\ After(s) \in Slots /\ (s + 1) % Size = After(s)
         /\ (After(s) + Size - 1) % Size = s
         /\ Slot(s, 1) = s
         /\ \A i \in 1 .. Size + 1 : Slot(s, i) \in Slots
         /\ \A i \in 1 .. Size : Slot(After(s), i) = Slot(s, i + 1)
         /\ \A i \in 1 .. Size : After(Slot(s, i)) = Slot(s, i + 1)
         /\ \A i, j \in 1 .. Size : Slot(s, i) = Slot(s, j) => i = j
<1>1. Size \in Nat \ {0} /\ s \in 0 .. Size - 1
  BY KelQueueAssumption DEF Slots
<1>2. /\ (s + 1) % Size = After(s)
      /\ (After(s) + Size - 1) % Size = s
  BY <1>1, SMT DEF After
<1>3. /\ After(s) \in Slots
      /\ \A i \in 1 .. Size + 1 : Slot(s, i) \in Slots
  BY <1>1, SMT DEF After, Slot, Slots
<1>4. /\ Slot(s, 1) = s
      /\ \A i \in 1 .. Size : Slot(After(s), i) = Slot(s, i + 1)
      /\ \A i \in 1 .. Size : After(Slot(s, i)) = Slot(s, i + 1)
      /\ \A i, j \in 1 .. Size : Slot(s, i) = Slot(s, j) => i = j
  BY <1>1, SMT DEF After, Slot
<1> QED BY <1>2, <1>3, <1>4

(* The slot the model computes with a remainder is the i-th one. *)
LEMMA SlotIs ==
  ASSUME NEW s \in Slots, NEW i \in 1 .. Size
  PROVE  (s + i - 1) % Size = Slot(s, i)
  BY KelQueueAssumption, SMT DEF Slots, Slot

(* The oldest message has a slot, before and after a step. *)
LEMMA FirstIs ==
  ASSUME NEW r \in Slots
  PROVE  (r + Size - 1) % Size \in Slots
  BY KelQueueAssumption, SMT DEF Slots

(* What n slots hold is a sequence of that length. *)
LEMMA ViewType ==
  ASSUME NEW b \in [Slots -> Msgs \cup {NoMsg}], NEW s \in Slots, NEW n \in 0 .. Size
  PROVE  /\ View(b, s, n) \in Seq(Msgs \cup {NoMsg}) /\ Len(View(b, s, n)) = n
         /\ \A i \in 1 .. n : View(b, s, n)[i] = b[Slot(s, i)]
<1>1. \A i \in 1 .. n : i \in 1 .. Size + 1
  BY KelQueueAssumption
<1>2. \A i \in 1 .. n : b[Slot(s, i)] \in Msgs \cup {NoMsg}
  BY <1>1, Ring
<1>3. View(b, s, n) \in [1 .. n -> Msgs \cup {NoMsg}] /\ n \in Nat
  BY <1>2, KelQueueAssumption DEF View
<1>4. View(b, s, n) \in Seq(Msgs \cup {NoMsg})
  BY <1>3, SeqDef
<1> QED BY <1>3, <1>4, LenProperties DEF View

(* One slot more appends what it holds. *)
LEMMA ViewGrows ==
  ASSUME NEW b \in [Slots -> Msgs \cup {NoMsg}], NEW s \in Slots, NEW n \in 0 .. Size - 1
  PROVE  View(b, s, n + 1) = Append(View(b, s, n), b[Slot(s, n + 1)])
<1> DEFINE v == View(b, s, n)  w == View(b, s, n + 1)  m == b[Slot(s, n + 1)]
<1>1. n \in 0 .. Size /\ n + 1 \in 0 .. Size /\ n + 1 \in 1 .. Size + 1 /\ n \in Nat
  BY KelQueueAssumption
<1>2. /\ v \in Seq(Msgs \cup {NoMsg}) /\ Len(v) = n
      /\ \A i \in 1 .. n : v[i] = b[Slot(s, i)]
  BY <1>1, ViewType
<1>3. /\ w \in Seq(Msgs \cup {NoMsg}) /\ Len(w) = n + 1
      /\ \A i \in 1 .. n + 1 : w[i] = b[Slot(s, i)]
  BY <1>1, ViewType
<1>4. m \in Msgs \cup {NoMsg}
  BY <1>1, Ring
<1> HIDE DEF v, w, m
<1>5. /\ Append(v, m) \in Seq(Msgs \cup {NoMsg}) /\ Len(Append(v, m)) = n + 1
      /\ \A i \in 1 .. n + 1 : Append(v, m)[i] = IF i = n + 1 THEN m ELSE v[i]
  BY <1>1, <1>2, <1>4
<1>6. \A i \in 1 .. n + 1 : i = n + 1 \/ i \in 1 .. n
  BY <1>1
<1>7. \A i \in 1 .. n + 1 : w[i] = Append(v, m)[i]
  BY <1>2, <1>3, <1>5, <1>6 DEF m
<1>8. w = Append(v, m)
  BY <1>3, <1>5, <1>7, SeqEqual
<1> QED BY <1>8 DEF v, w, m

(* One slot less at the front drops what it held. *)
LEMMA ViewShrinks ==
  ASSUME NEW b \in [Slots -> Msgs \cup {NoMsg}], NEW s \in Slots, NEW n \in 1 .. Size
  PROVE  /\ View(b, s, n) # <<>> /\ Head(View(b, s, n)) = b[s]
         /\ View(b, After(s), n - 1) = Tail(View(b, s, n))
<1> DEFINE v == View(b, s, n)  w == View(b, After(s), n - 1)
<1>1. /\ n \in 0 .. Size /\ n - 1 \in 0 .. Size /\ 1 \in 1 .. n
      /\ \A i \in 1 .. n - 1 : i + 1 \in 1 .. n /\ i \in 1 .. Size
  BY KelQueueAssumption
<1>2. /\ v \in Seq(Msgs \cup {NoMsg}) /\ Len(v) = n
      /\ \A i \in 1 .. n : v[i] = b[Slot(s, i)]
  BY <1>1, ViewType
<1>3. After(s) \in Slots /\ Slot(s, 1) = s
      /\ \A i \in 1 .. n - 1 : Slot(After(s), i) = Slot(s, i + 1)
  BY <1>1, Ring
<1>4. /\ w \in Seq(Msgs \cup {NoMsg}) /\ Len(w) = n - 1
      /\ \A i \in 1 .. n - 1 : w[i] = b[Slot(After(s), i)]
  BY <1>1, <1>3, ViewType
<1> HIDE DEF v, w
<1>5. v # <<>> /\ Head(v) = b[s]
  BY <1>1, <1>2, <1>3
<1>6. /\ Tail(v) \in Seq(Msgs \cup {NoMsg}) /\ Len(Tail(v)) = n - 1
      /\ \A i \in 1 .. n - 1 : Tail(v)[i] = v[i + 1]
  BY <1>2, <1>5, HeadTailProperties
<1>7. \A i \in 1 .. n - 1 : w[i] = Tail(v)[i]
  BY <1>1, <1>2, <1>3, <1>4, <1>6
<1>8. w = Tail(v)
  BY <1>4, <1>6, <1>7, SeqEqual
<1> QED BY <1>5, <1>8 DEF v, w

(* What is written into the slot behind them is not in view. *)
LEMMA ViewKept ==
  ASSUME NEW b \in [Slots -> Msgs \cup {NoMsg}], NEW s \in Slots, NEW n \in 0 .. Size - 1,
         NEW m
  PROVE  /\ View([b EXCEPT ![Slot(s, n + 1)] = m], s, n) = View(b, s, n)
         /\ [b EXCEPT ![Slot(s, n + 1)] = m][Slot(s, n + 1)] = m
<1>1. n + 1 \in 1 .. Size /\ n + 1 \in 1 .. Size + 1
  BY KelQueueAssumption
<1>2. \A i \in 1 .. n : i \in 1 .. Size /\ i \in 1 .. Size + 1 /\ i # n + 1
  BY KelQueueAssumption
<1>3. \A i \in 1 .. n : Slot(s, i) # Slot(s, n + 1) /\ Slot(s, i) \in Slots
  BY <1>1, <1>2, Ring
<1>4. Slot(s, n + 1) \in Slots
  BY <1>1, Ring
<1> QED BY <1>3, <1>4 DEF View

(* The queue as its reader sees it, before and after a step. *)
LEMMA ContentsIs ==
  ASSUME TypeOK, used <= Size
  PROVE  First \in Slots /\ Contents = View(buf, First, used)
<1>1. First \in Slots
  BY FirstIs DEF TypeOK, First
<1>2. Contents = [i \in 1 .. used |-> buf[(First + i - 1) % Size]]
  BY DEF Contents, First
<1>3. \A i \in 1 .. used : i \in 1 .. Size
  BY KelQueueAssumption DEF TypeOK
<1> QED BY <1>1, <1>2, <1>3, SlotIs DEF View

LEMMA ContentsNext ==
  ASSUME TypeOK', used' <= Size
  PROVE  First' \in Slots /\ Contents' = View(buf', First', used')
<1>1. First' \in Slots
  BY FirstIs DEF TypeOK, First
<1>2. Contents' = [i \in 1 .. used' |-> buf'[(First' + i - 1) % Size]]
  BY DEF Contents, First
<1>3. \A i \in 1 .. used' : i \in 1 .. Size
  BY KelQueueAssumption DEF TypeOK
<1> QED BY <1>1, <1>2, <1>3, SlotIs DEF View

(* The ring begins empty. *)
LEMMA InitRInv == Init => RInv /\ Channel!Init
<1> SUFFICES ASSUME Init PROVE RInv /\ Channel!Init
  OBVIOUS
<1>1. TypeOK /\ used = 0 /\ pc = "idle" /\ rd = 0 /\ wr = 0 /\ recv = NoMsg
  BY InitCInv DEF CInv, Init
<1>2. RInv
  BY <1>1, KelQueueAssumption
  DEF RInv, Placed, Carried, Last, First, Receiving, Slot, Sending, Taking
<1>3. Contents = <<>>
  BY <1>1 DEF Contents
<1> QED BY <1>1, <1>2, <1>3 DEF Channel!Init

(* A step of the main loop moves the ring along, and only the two that     *)
(* count a message in or out change the queue.                             *)
LEMMA StepRInv ==
  ASSUME CInv, EInv, RInv, [Next]_vars, CInv', EInv', Main
  PROVE  Main' /\ RInv' /\ [Channel!Next]_<<Contents, recv>>
<1>1. Main'
  BY DEF Main, Next, MainStep, vars, SendStart, IsrSend, SendCopy, SendLoadWr, SendStoreWr,
         SendLoadUsed, SendStoreUsed, WaitFails, WaitStart, WaitCopy, WaitAdvance,
         WaitLoadUsed, WaitStoreUsed
<1> SUFFICES RInv' /\ [Channel!Next]_<<Contents, recv>>
  BY <1>1
<1>2. TypeOK /\ Exact /\ Placed /\ Carried /\ TypeOK' /\ Exact'
  BY <1>1 DEF CInv, EInv, RInv
<1>3. First \in Slots /\ Contents = View(buf, First, used)
  BY <1>2, ContentsIs DEF Exact
<1>4. First' \in Slots /\ Contents' = View(buf', First', used')
  BY <1>2, ContentsNext DEF Exact
<1>5. used \in 0 .. Size /\ used + 1 \in 1 .. Size + 1
  BY <1>2, KelQueueAssumption DEF TypeOK, Exact
<1>6. Last \in Slots /\ After(Last) \in Slots /\ (Last + 1) % Size = After(Last)
  BY <1>3, <1>5, Ring DEF Last
<1> USE <1>2
<1>7. ASSUME Placed', Carried', Contents' = Contents, recv' = recv
      PROVE  RInv' /\ [Channel!Next]_<<Contents, recv>>
  BY <1>7 DEF RInv
<1>8. ASSUME UNCHANGED <<buf, First, used>>
      PROVE  Contents' = Contents /\ Last' = Last
  BY <1>3, <1>4, <1>8 DEF Last
<1>9. CASE \E m \in Msgs : SendStart(m)
  <2>1. UNCHANGED <<buf, First, used, wr, recv>> /\ pc' = "enqCopy" /\ msg' \in Msgs
        /\ pc = "idle"
    BY <1>9 DEF SendStart, Goto, ring, First, Receiving
  <2> QED BY <1>7, <1>8, <2>1 DEF Placed, Carried, Taking, Sending
<1>10. CASE SendCopy
  <2>1. /\ pc = "enqCopy" /\ pc' = "enqLoadWr" /\ buf' = [buf EXCEPT ![wr] = msg]
        /\ UNCHANGED <<First, used, wr, msg, recv>>
    BY <1>10 DEF SendCopy, Goto, First, Receiving
  <2>2. used \in 0 .. Size - 1 /\ wr = Last
    BY <2>1, KelQueueAssumption DEF TypeOK, Exact, Placed, Sending
  <2>3. View(buf', First, used) = View(buf, First, used) /\ buf'[Last] = msg
    BY <1>3, <2>1, <2>2, ViewKept DEF TypeOK, Last
  <2>4. Last' = Last /\ Contents' = Contents
    BY <1>3, <1>4, <2>1, <2>3 DEF Last
  <2> QED BY <1>7, <2>1, <2>2, <2>3, <2>4 DEF Placed, Carried, Sending, Taking
<1>11. CASE SendLoadWr
  <2>1. UNCHANGED <<buf, First, used, wr, msg, recv>> /\ pc = "enqLoadWr" /\ pc' = "enqStoreWr"
        /\ reg' = wr
    BY <1>11 DEF SendLoadWr, Goto, ring, First, Receiving
  <2> QED BY <1>7, <1>8, <2>1 DEF Placed, Carried, Taking, Sending
<1>12. CASE SendStoreWr
  <2>1. /\ UNCHANGED <<buf, First, used, msg, recv>> /\ wr' = (reg + 1) % Size
        /\ pc = "enqStoreWr" /\ pc' = "enqLoadUsed"
    BY <1>12 DEF SendStoreWr, Goto, First, Receiving
  <2>2. reg = Last
    BY <2>1 DEF Placed
  <2> QED BY <1>6, <1>7, <1>8, <2>1, <2>2 DEF Placed, Carried, Taking, Sending
<1>13. CASE SendLoadUsed
  <2>1. UNCHANGED <<buf, First, used, wr, msg, recv>> /\ pc = "enqLoadUsed" /\ pc' = "enqStoreUsed"
    BY <1>13 DEF SendLoadUsed, Goto, ring, First, Receiving
  <2> QED BY <1>7, <1>8, <2>1 DEF Placed, Carried, Taking, Sending
<1>14. CASE SendStoreUsed
  <2>1. /\ UNCHANGED <<buf, First, wr, msg, recv>> /\ used' = used + 1
        /\ pc = "enqStoreUsed" /\ pc' = "idle"
    BY <1>14 DEF SendStoreUsed, Goto, First, Receiving, Exact
  <2>2. used \in 0 .. Size - 1 /\ msg \in Msgs /\ buf[Last] = msg /\ wr = After(Last)
    BY <2>1, KelQueueAssumption DEF TypeOK, Exact, Placed, Carried, Sending
  <2>3. Contents' = Append(Contents, msg) /\ Len(Contents) = used
    BY <1>3, <1>4, <1>5, <2>1, <2>2, ViewGrows, ViewType DEF TypeOK, Last
  <2>4. Channel!Send(msg)
    BY <2>1, <2>2, <2>3, KelQueueAssumption DEF Channel!Send
  <2>5. Last' = After(Last)
    <3>1. used + 1 \in 1 .. Size
      BY <2>2, KelQueueAssumption
    <3> QED BY <1>3, <2>1, <3>1, Ring DEF Last
  <2>6. Placed' /\ Carried'
    BY <2>1, <2>2, <2>5 DEF Placed, Carried, Sending, Taking
  <2> QED BY <2>2, <2>4, <2>6 DEF RInv, Channel!Next
<1>15. CASE \E m \in Msgs : IsrSend(m)
  BY <1>15 DEF Main, IsrSend
<1>16. CASE WaitFails \/ WaitStart
  <2>1. /\ UNCHANGED <<buf, First, used, wr, msg, recv>>
        /\ pc = "idle" /\ pc' \in {"idle", "deqCopy"}
    BY <1>16 DEF WaitFails, WaitStart, Goto, ring, First, Receiving
  <2> QED BY <1>7, <1>8, <2>1 DEF Placed, Carried, Taking, Sending
<1>17. CASE WaitCopy
  <2>1. /\ UNCHANGED <<buf, First, used, wr, recv>> /\ msg' = buf[First]
        /\ pc = "deqCopy" /\ pc' = "deqAdvance"
    BY <1>17 DEF WaitCopy, Goto, ring, First, Receiving
  <2> QED BY <1>7, <1>8, <2>1 DEF Placed, Carried, Taking, Sending
<1>18. CASE WaitAdvance
  <2>1. /\ UNCHANGED <<buf, used, wr, msg, recv>> /\ rd' = (rd + 1) % Size
        /\ pc = "deqAdvance" /\ pc' = "deqLoadUsed" /\ First = rd
    BY <1>18 DEF WaitAdvance, Goto, First, Receiving
  <2>2. First' = First
    BY <2>1, Ring DEF TypeOK, First, Receiving
  <2> QED BY <1>7, <1>8, <2>1, <2>2 DEF Placed, Carried, Taking, Sending
<1>19. CASE WaitLoadUsed
  <2>1. /\ UNCHANGED <<buf, First, used, wr, msg, recv>>
        /\ pc = "deqLoadUsed" /\ pc' = "deqStoreUsed"
    BY <1>19 DEF WaitLoadUsed, Goto, ring, First, Receiving
  <2> QED BY <1>7, <1>8, <2>1 DEF Placed, Carried, Taking, Sending
<1>20. CASE WaitStoreUsed
  <2>1. /\ UNCHANGED <<buf, wr, rd>> /\ used' = used - 1 /\ recv' = msg
        /\ pc = "deqStoreUsed" /\ pc' = "idle" /\ First' = rd
    BY <1>20 DEF WaitStoreUsed, Goto, First, Receiving, Exact
  <2>2. used \in 1 .. Size /\ buf[First] = msg /\ wr = Last
    BY <2>1, <1>5, KelQueueAssumption DEF CInv, Counted, Placed, Carried, Taking
  <2>3. First' = After(First)
    <3>1. First = (rd + Size - 1) % Size
      BY <2>1 DEF First, Receiving
    <3>2. After(First) = rd
      <4>1. rd \in 0 .. Size - 1 /\ Size \in Nat \ {0}
        BY KelQueueAssumption DEF TypeOK, Slots
      <4> QED BY <3>1, <4>1, SMT DEF After
    <3> QED BY <2>1, <3>2
  <2>4. Contents # <<>> /\ Head(Contents) = msg /\ Contents' = Tail(Contents)
    BY <1>3, <1>4, <2>1, <2>2, <2>3, ViewShrinks, SMTT(20) DEF TypeOK
  <2>5. Channel!Receive
    BY <2>1, <2>4 DEF Channel!Receive
  <2>6. Last' = Last
    <3>1. used' + 1 = used
      BY <2>1, <2>2, KelQueueAssumption
    <3> QED BY <1>3, <2>2, <2>3, <3>1, Ring DEF Last
  <2>7. Placed' /\ Carried'
    BY <2>1, <2>2, <2>6 DEF Placed, Carried, Sending, Taking
  <2> QED BY <2>5, <2>7 DEF RInv, Channel!Next
<1>21. CASE UNCHANGED vars
  <2>1. UNCHANGED <<buf, First, used, wr, reg, pc, msg, recv>>
    BY <1>21 DEF vars, ring, First, Receiving
  <2> QED BY <1>7, <1>8, <2>1 DEF Placed, Carried
<1> QED BY <1>9, <1>10, <1>11, <1>12, <1>13, <1>14, <1>15, <1>16, <1>17, <1>18, <1>19,
           <1>20, <1>21 DEF Next, MainStep

(* The count, the indices and the message being moved agree at every load  *)
(* and store.                                                              *)
THEOREM RingInvariance == Spec => [](CInv /\ EInv /\ RInv)
<1>1. Init => CInv /\ EInv /\ RInv
  BY InitCInv, InitEInv, InitRInv
<1>2. ASSUME CInv, EInv, RInv, [Next]_vars PROVE CInv' /\ EInv' /\ RInv'
  <2>1. CInv' /\ EInv'
    BY <1>2, StepCInv, StepEInv
  <2>2. CASE Main
    BY <1>2, <2>1, <2>2, StepRInv
  <2>3. CASE ~Main
    <3>1. ~Main'
      BY <1>2, <2>3
      DEF Main, Next, MainStep, vars, SendStart, IsrSend, SendCopy, SendLoadWr, SendStoreWr,
          SendLoadUsed, SendStoreUsed, WaitFails, WaitStart, WaitCopy, WaitAdvance,
          WaitLoadUsed, WaitStoreUsed
    <3> QED BY <2>1, <3>1 DEF RInv
  <2> QED BY <2>1, <2>2, <2>3
<1> QED BY <1>1, <1>2, PTL DEF Spec

(* A queue that no interrupt fills implements the bounded channel: what a  *)
(* send accepted is received once, in order, and none beyond its size.     *)
THEOREM Implementation == Spec => ImplementsChannel
<1>1. Init => Channel!Init
  BY InitRInv
<1>2. CInv /\ EInv /\ RInv /\ (CInv /\ EInv)' /\ [Next]_vars =>
        [senders = {"main"} => [Channel!Next]_<<Contents, recv>>]_vars
  BY StepRInv DEF Main
<1> QED BY <1>1, <1>2, RingInvariance, PTL DEF Spec, ImplementsChannel

-----------------------------------------------------------------------------
(* A queue that interrupts alone fill.  The messages lie behind wr, the    *)
(* youngest first, as many of them as the ring has slots; where the oldest *)
(* is follows from wr but for whole turns of the ring.                     *)

Isr == senders = {"isr"}

\* The j-th slot before w.
Back(w, j) == IF w >= j THEN w - j ELSE w - j + Size

Laid ==
  /\ pc \notin Sending
  /\ \A j \in 1 .. Size : j <= Len(owed) => buf[Back(wr, j)] = owed[Len(owed) + 1 - j]
  /\ \E k \in Nat : First + Len(owed) = wr + k * Size
  /\ pc \in Taking \ {"deqCopy"} /\ Len(owed) <= Size => msg = owed[1]

LInv == Isr => Laid

(* The slots behind an index, when it moves on by one. *)
LEMMA BackSlots ==
  ASSUME NEW w \in Slots
  PROVE  /\ Back(After(w), 1) = w
         /\ \A j \in 1 .. Size : Back(w, j) \in Slots
         /\ \A j \in 2 .. Size : Back(After(w), j) = Back(w, j - 1) /\ Back(w, j - 1) # w
<1>1. Size \in Nat \ {0} /\ w \in 0 .. Size - 1
  BY KelQueueAssumption DEF Slots
<1> QED BY <1>1, SMT DEF Back, After, Slots

(* A turn more, and a turn less. *)
LEMMA Turns ==
  ASSUME NEW k \in Nat
  PROVE  /\ k * Size \in Nat /\ (k + 1) * Size = k * Size + Size
         /\ k > 0 => k - 1 \in Nat /\ k * Size = (k - 1) * Size + Size
         /\ k > 1 => k * Size >= 2 * Size
         /\ k = 0 => k * Size = 0
         /\ k = 1 => k * Size = Size
<1>1. Size \in Nat
  BY KelQueueAssumption
<1>2. k * Size \in Nat /\ (k + 1) * Size = k * Size + Size
  BY <1>1, SMT
<1>3. k > 0 => k - 1 \in Nat /\ k * Size = (k - 1) * Size + Size
  BY <1>1, SMT
<1>4. ASSUME k > 1 PROVE k * Size >= 2 * Size
  <2>1. PICK i \in Nat : k = i + 2
    <3>1. k - 2 \in Nat /\ k = (k - 2) + 2
      BY <1>4
    <3> QED BY <3>1
  <2>2. k * Size = i * Size + 2 * Size /\ i * Size \in Nat
    BY <1>1, <2>1, SMT
  <2> QED BY <1>1, <2>2
<1> QED BY <1>1, <1>2, <1>3, <1>4

(* Where the oldest message is, when no more wait than the ring holds. *)
LEMMA OldestIsFirst ==
  ASSUME TypeOK, Laid, First \in Slots, 0 < Len(owed), Len(owed) <= Size
  PROVE  buf[First] = owed[1]
<1> PICK n : n = Len(owed)
  OBVIOUS
<1>1. n \in 1 .. Size /\ Size \in Nat /\ First \in 0 .. Size - 1 /\ wr \in 0 .. Size - 1
  BY KelQueueAssumption DEF TypeOK, Slots
<1>2. PICK k \in Nat : First + n = wr + k * Size
  BY DEF Laid
<1>3. ~(k > 1)
  BY <1>1, <1>2, Turns
<1>4. k = 0 \/ k = 1
  BY <1>3
<1>5. Back(wr, n) = First
  <2>1. CASE k = 0
    <3>1. First + n = wr
      BY <1>1, <1>2, <2>1, Turns
    <3> QED BY <1>1, <3>1 DEF Back
  <2>2. CASE k = 1
    <3>1. First + n = wr + Size
      BY <1>2, <2>2, Turns
    <3> QED BY <1>1, <3>1 DEF Back
  <2> QED BY <1>4, <2>1, <2>2
<1>6. n + 1 - n = 1
  BY <1>1
<1> QED BY <1>1, <1>5, <1>6 DEF Laid

(* The ring begins empty. *)
LEMMA InitLInv == Init => LInv
<1> SUFFICES ASSUME Init PROVE Laid
  BY DEF LInv
<1>1. First = 0 /\ Len(owed) = 0 /\ wr = 0 /\ pc = "idle"
  BY DEF Init, First, Receiving
<1>2. 0 \in Nat /\ 0 + 0 = 0 + 0 * Size
  BY Turns
<1>3. \E k \in Nat : First + Len(owed) = wr + k * Size
  BY <1>1, <1>2
<1>4. \A j \in 1 .. Size : ~(j <= Len(owed))
  BY <1>1, KelQueueAssumption
<1> QED BY <1>1, <1>3, <1>4 DEF Laid, Sending, Taking

(* An interrupt lays a message before wr, and the task takes the oldest. *)
LEMMA StepLInv == CInv /\ LInv /\ [Next]_vars /\ CInv' => LInv'
<1> SUFFICES ASSUME CInv, LInv, [Next]_vars, CInv', Isr' PROVE Laid'
  BY DEF LInv
<1>1. Isr
  BY DEF Isr, Next, MainStep, vars, SendStart, IsrSend, SendCopy, SendLoadWr, SendStoreWr,
         SendLoadUsed, SendStoreUsed, WaitFails, WaitStart, WaitCopy, WaitAdvance,
         WaitLoadUsed, WaitStoreUsed
<1>2. Laid /\ TypeOK /\ Counted /\ TypeOK'
  BY <1>1 DEF LInv, CInv
<1>3. First \in Slots /\ Size \in Nat \ {0} /\ Len(owed) \in Nat /\ wr \in Slots /\ rd \in Slots
  BY <1>2, FirstIs, KelQueueAssumption DEF TypeOK, First
<1>4. ASSUME UNCHANGED <<buf, wr, First, owed>>, pc' \notin Sending,
             pc' \in Taking \ {"deqCopy"} /\ Len(owed) <= Size => msg' = owed[1]
      PROVE  Laid'
  BY <1>2, <1>4 DEF Laid
<1>5. CASE \E m \in Msgs : IsrSend(m)
  <2>1. PICK m \in Msgs : IsrSend(m)
    BY <1>5
  <2> PICK n : n = Len(owed)
    OBVIOUS
  <2>2. /\ buf' = [buf EXCEPT ![wr] = m] /\ wr' = After(wr) /\ First' = First
        /\ owed' = Append(owed, m) /\ pc' = pc /\ msg' = msg
    BY <1>3, <2>1, Ring DEF IsrSend, First, Receiving
  <2>3. /\ n \in Nat /\ Len(owed') = n + 1
        /\ \A i \in 1 .. n : owed'[i] = owed[i]
        /\ owed'[n + 1] = m
    BY <1>2, <2>2 DEF TypeOK
  <2>4. ASSUME NEW j \in 1 .. Size, j <= n + 1
        PROVE  buf'[Back(wr', j)] = owed'[n + 1 + 1 - j]
    <3>1. CASE j = 1
      <4>1. Back(wr', j) = wr /\ n + 1 + 1 - j = n + 1
        BY <1>3, <2>2, <2>3, <3>1, BackSlots
      <4> QED BY <1>2, <1>3, <2>2, <2>3, <4>1 DEF TypeOK
    <3>2. CASE j # 1
      <4>1. j \in 2 .. Size /\ j - 1 \in 1 .. Size /\ j - 1 <= n
            /\ n + 1 + 1 - j = n + 1 - (j - 1) /\ n + 1 - (j - 1) \in 1 .. n
        BY <1>3, <2>3, <2>4, <3>2
      <4>2. Back(wr', j) = Back(wr, j - 1) /\ Back(wr, j - 1) # wr /\ Back(wr, j - 1) \in Slots
        BY <1>3, <2>2, <4>1, BackSlots
      <4>3. buf'[Back(wr', j)] = buf[Back(wr, j - 1)]
        BY <1>2, <2>2, <4>2 DEF TypeOK
      <4>4. buf[Back(wr, j - 1)] = owed[n + 1 - (j - 1)]
        BY <1>2, <4>1 DEF Laid
      <4> QED BY <2>3, <4>1, <4>3, <4>4
    <3> QED BY <3>1, <3>2
  <2>5. \E k \in Nat : First' + Len(owed') = wr' + k * Size
    <3>1. PICK k \in Nat : First + n = wr + k * Size
      BY <1>2 DEF Laid
    <3>2. First \in Nat /\ wr \in Nat /\ k * Size \in Nat /\ (k + 1) * Size = k * Size + Size
      BY <1>3, Turns DEF Slots
    <3>3. CASE wr + 1 < Size
      <4>1. wr' = wr + 1
        BY <2>2, <3>3 DEF After
      <4>2. First + (n + 1) = (wr + 1) + k * Size
        BY <2>3, <3>1, <3>2, SMTT(20)
      <4>3. First' + Len(owed') = wr' + k * Size
        BY <2>2, <2>3, <4>1, <4>2
      <4> QED BY <4>3
    <3>4. CASE ~(wr + 1 < Size)
      <4>1. wr' = 0 /\ wr + 1 = Size
        BY <1>3, <2>2, <3>4 DEF After, Slots
      <4>2. First' + Len(owed') = wr' + (k + 1) * Size /\ k + 1 \in Nat
        BY <1>3, <2>2, <2>3, <3>1, <3>2, <4>1
      <4> QED BY <4>2
    <3> QED BY <3>3, <3>4
  <2>6. pc' \in Taking \ {"deqCopy"} /\ Len(owed') <= Size => msg' = owed'[1]
    <3> SUFFICES ASSUME pc' \in Taking \ {"deqCopy"}, Len(owed') <= Size
                 PROVE  msg' = owed'[1]
      OBVIOUS
    <3>1. n > 0
      BY <1>2, <2>2 DEF Counted, TypeOK
    <3>2. 1 \in 1 .. n /\ n <= Size
      BY <1>3, <2>3, <3>1
    <3> QED BY <1>2, <2>2, <2>3, <3>2 DEF Laid
  <2>7. pc' \notin Sending
    BY <1>2, <2>2 DEF Laid
  <2> QED BY <2>3, <2>4, <2>5, <2>6, <2>7 DEF Laid
<1>6. CASE WaitFails \/ WaitStart
  <2>1. UNCHANGED <<buf, wr, First, owed>> /\ pc' \in {"idle", "deqCopy"}
    BY <1>6 DEF WaitFails, WaitStart, Goto, ring, First, Receiving
  <2> QED BY <1>4, <2>1 DEF Sending, Taking
<1>7. CASE WaitCopy
  <2>1. /\ UNCHANGED <<buf, wr, First, owed>> /\ pc = "deqCopy" /\ pc' = "deqAdvance"
        /\ msg' = buf[First]
    BY <1>7 DEF WaitCopy, Goto, ring, First, Receiving
  <2>2. 0 < Len(owed)
    BY <1>2, <2>1 DEF Counted, TypeOK, Taking
  <2> QED BY <1>2, <1>3, <1>4, <2>1, <2>2, OldestIsFirst DEF Sending
<1>8. CASE WaitAdvance \/ WaitLoadUsed
  <2>1. /\ UNCHANGED <<buf, wr, owed, msg>>
        /\ pc \in {"deqAdvance", "deqLoadUsed"} /\ pc' \in {"deqLoadUsed", "deqStoreUsed"}
    BY <1>8 DEF WaitAdvance, WaitLoadUsed, Goto, ring
  <2>2. First' = First
    BY <1>3, <1>8, Ring DEF WaitAdvance, WaitLoadUsed, Goto, ring, First, Receiving
  <2> QED BY <1>2, <1>4, <2>1, <2>2 DEF Laid, Sending, Taking
<1>9. CASE WaitStoreUsed
  <2> PICK n : n = Len(owed)
    OBVIOUS
  <2>1. UNCHANGED <<buf, wr, rd>> /\ owed' = Tail(owed) /\ pc' = "idle" /\ pc = "deqStoreUsed"
    BY <1>9 DEF WaitStoreUsed, Goto
  <2>2. n \in Nat \ {0} /\ owed # <<>>
    BY <1>2, <2>1 DEF Counted, TypeOK, Taking
  <2>3. Len(owed') = n - 1 /\ \A i \in 1 .. n - 1 : owed'[i] = owed[i + 1]
    BY <1>2, <2>1, <2>2, HeadTailProperties DEF TypeOK
  <2>4. ASSUME NEW j \in 1 .. Size, j <= n - 1
        PROVE  buf'[Back(wr', j)] = owed'[n - 1 + 1 - j]
    <3>1. n - 1 + 1 - j \in 1 .. n - 1 /\ (n - 1 + 1 - j) + 1 = n + 1 - j /\ j <= n
      BY <1>3, <2>2, <2>4
    <3>2. buf[Back(wr, j)] = owed[n + 1 - j]
      BY <1>2, <3>1 DEF Laid
    <3> QED BY <2>1, <2>3, <3>1, <3>2
  <2>5. First' = After(First)
    <3>1. First = (rd + Size - 1) % Size /\ First' = rd
      BY <2>1 DEF First, Receiving
    <3>2. After(First) = rd
      <4>1. rd \in 0 .. Size - 1 /\ Size \in Nat \ {0}
        BY <1>3 DEF Slots
      <4> QED BY <3>1, <4>1, SMT DEF After
    <3> QED BY <3>1, <3>2
  <2>6. \E k \in Nat : First' + Len(owed') = wr' + k * Size
    <3> PICK f : f = First
      OBVIOUS
    <3>1. PICK k \in Nat : f + n = wr + k * Size
      BY <1>2 DEF Laid
    <3>2. f \in 0 .. Size - 1 /\ wr \in 0 .. Size - 1 /\ k * Size \in Nat
      BY <1>3, Turns DEF Slots
    <3>3. CASE f + 1 < Size
      <4>1. First' = f + 1
        BY <2>5, <3>3 DEF After
      <4> QED BY <2>1, <2>2, <2>3, <3>1, <3>2, <4>1
    <3>4. CASE ~(f + 1 < Size)
      <4>1. First' = 0 /\ f + 1 = Size
        BY <1>3, <2>5, <3>2, <3>4 DEF After
      <4>2. ASSUME k = 0 PROVE FALSE
        <5>1. k * Size = 0
          BY <4>2, Turns
        <5>2. f + n = wr
          BY <3>1, <3>2, <5>1
        <5> QED BY <2>2, <3>2, <4>1, <5>2
      <4>3. k > 0
        BY <4>2
      <4>4. k - 1 \in Nat /\ k * Size = (k - 1) * Size + Size /\ (k - 1) * Size \in Nat
        BY <4>3, Turns
      <4>5. First' + Len(owed') = wr' + (k - 1) * Size
        BY <1>3, <2>1, <2>2, <2>3, <3>1, <3>2, <4>1, <4>4
      <4> QED BY <4>4, <4>5
    <3> QED BY <3>3, <3>4
  <2> QED BY <2>1, <2>3, <2>4, <2>6 DEF Laid, Sending, Taking
<1>10. CASE \/ \E m \in Msgs : SendStart(m)
            \/ SendCopy \/ SendLoadWr \/ SendStoreWr \/ SendLoadUsed \/ SendStoreUsed
  BY <1>1, <1>2, <1>10 DEF Isr, Laid, SendStart, SendCopy, SendLoadWr, SendStoreWr, SendLoadUsed,
                           SendStoreUsed, Goto, Sending
<1>11. CASE UNCHANGED vars
  <2>1. UNCHANGED <<buf, wr, First, owed, pc, msg>>
    BY <1>11 DEF vars, ring, First, Receiving
  <2> QED BY <1>2, <1>4, <2>1 DEF Laid
<1> QED BY <1>5, <1>6, <1>7, <1>8, <1>9, <1>10, <1>11 DEF Next, MainStep

(* Whoever sends, a message is taken only when one waits; and where only   *)
(* interrupts send it is the oldest, whatever the count has lost, for a    *)
(* ring of every size.                                                     *)
THEOREM OldestFirst == Spec => []OldestIsTaken
<1>1. ASSUME CInv, LInv PROVE OldestIsTaken
  <2> SUFFICES ASSUME pc = "deqAdvance"
               PROVE  /\ owed # <<>>
                      /\ Isr /\ Len(owed) <= Size => msg = Head(owed)
    BY DEF OldestIsTaken, Isr
  <2>1. Len(owed) > 0 /\ owed \in Seq(Msgs \cup {NoMsg})
    BY <1>1 DEF CInv, Counted, TypeOK, Taking
  <2>2. owed # <<>> /\ Head(owed) = owed[1]
    BY <2>1
  <2> QED BY <1>1, <2>2 DEF LInv, Laid, Taking
<1>2. Spec => [](CInv /\ LInv)
  BY InitCInv, StepCInv, InitLInv, StepLInv, PTL DEF Spec
<1> QED BY <1>1, <1>2, PTL
=============================================================================
