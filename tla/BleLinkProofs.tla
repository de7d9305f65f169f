----------------------------- MODULE BleLinkProofs -----------------------------
(***************************************************************************)
(* BleLink's invariants, for every size of the queue, every number of      *)
(* links and every set of commands.                                        *)
(*                                                                         *)
(* What the SDK believes is right once the last link event waiting in the  *)
(* queue is served (LastEventTells), and is right now if none waits.  What *)
(* needs pairing comes from a link that has paired, since commands keep    *)
(* the order of their frames (InOrder), so that the random number cannot   *)
(* be that of a link whose connection has yet to be served (Trusted).      *)
(***************************************************************************)
EXTENDS BleLink, TLAPS

IsLink(e) == e.kind \in {"conn", "disc"}
IsAsk(e) == e.kind \in {"data", "cmd"}
Ix == 1 .. Len(queue)

OneLink == link \in {0, links}

NoneWaits == \A i \in Ix : ~IsLink(queue[i])

Believed ==
  /\ link = 0 => status \in Unconn /\ rand = 0
  /\ link # 0 /\ ~closing => status \notin Unconn

LastTells ==
  \E i \in Ix :
    /\ IsLink(queue[i]) /\ (queue[i].kind = "conn" <=> link # 0)
    /\ \A j \in Ix : j > i => ~IsLink(queue[j])

\* The last link event that waits agrees with the link; if none does, the status does.
LastEventTells == links \notin confused => (NoneWaits /\ Believed) \/ LastTells

NoUpdateAlone == links \notin confused /\ link = 0 => ~ota

\* What was queued before a connection is of an earlier link.
ConnFirst == \A i, j \in Ix : i < j /\ queue[j].kind = "conn" => queue[i].link < queue[j].link

\* Frames and commands keep their order, and a command comes before a frame.
InOrder ==
  \A i, j \in Ix :
    /\ i < j /\ IsAsk(queue[i]) /\ queue[i].kind = queue[j].kind
         => queue[i].link <= queue[j].link
    /\ queue[i].kind = "cmd" /\ queue[j].kind = "data" => queue[i].link <= queue[j].link

RandIsOld == \A i \in Ix : IsAsk(queue[i]) => rand <= queue[i].link

\* A command that was decrypted with the random number.
IsKeyed(e) == e.kind = "cmd" /\ e.cmd \notin {"info", "anomaly"}

RandIsKept ==
  \A j \in Ix : IsKeyed(queue[j]) =>
    /\ rand \in {0, queue[j].link}
    /\ \A i \in Ix : i < j /\ queue[i].kind = "cmd" => queue[i].link = queue[j].link

Gone(m) == rand # m /\ link # m /\ \A i \in Ix : IsAsk(queue[i]) => queue[i].link # m
Waits(m) == \E i \in Ix : queue[i].kind = "conn" /\ queue[i].link = m

Trusted ==
  status = "BONDING_CONN" =>
    \A m \in 1 .. links : m \in paired \cup confused \/ Waits(m) \/ Gone(m)

IInv ==
  /\ TypeOK /\ OneLink
  /\ LastEventTells /\ NoUpdateAlone
  /\ ConnFirst /\ InOrder /\ RandIsOld /\ RandIsKept /\ Trusted
  /\ ProtectedIsPaired

Order == ConnFirst /\ InOrder /\ RandIsOld /\ RandIsKept

-----------------------------------------------------------------------------
(* Queues                                                                  *)

\* What a queue holds when its first event is gone.
LEMMA TailOf ==
  ASSUME NEW S, NEW q \in Seq(S), q # <<>>
  PROVE  /\ Tail(q) \in Seq(S) /\ Len(q) \in Nat \ {0} /\ Len(Tail(q)) = Len(q) - 1
         /\ \A i \in 1 .. Len(q) - 1 : Tail(q)[i] = q[i + 1]
         /\ Head(q) = q[1] /\ q[1] \in S
OBVIOUS

\* What it holds when an event has joined it.
LEMMA AppendTo ==
  ASSUME NEW S, NEW q \in Seq(S), NEW e \in S
  PROVE  /\ Append(q, e) \in Seq(S) /\ Len(Append(q, e)) = Len(q) + 1
         /\ \A i \in 1 .. Len(q) : Append(q, e)[i] = q[i]
         /\ Append(q, e)[Len(q) + 1] = e
OBVIOUS

\* The events in the queue are events, of links there have been.
LEMMA Queued ==
  ASSUME TypeOK, NEW i \in Ix
  PROVE  /\ queue[i] \in Events
         /\ queue[i].link \in 1 .. links /\ queue[i].cmd \in Commands \cup {"none"}
         /\ queue[i].kind \in {"conn", "disc", "data", "cmd"}
<1>1. queue[i] \in Events
  BY DEF TypeOK, Ix
<1>2. queue[i].link <= links
  BY DEF TypeOK, Ix
<1> QED
  BY <1>1, <1>2 DEF TypeOK, Events

\* Serving an event disturbs no order.
LEMMA TailKeepsPlaces ==
  ASSUME TypeOK, Order, queue # <<>>, queue' = Tail(queue)
  PROVE  ConnFirst' /\ InOrder'
<1>1. Len(queue) \in Nat \ {0} /\ Ix' = 1 .. Len(queue) - 1
      /\ \A i \in Ix' : i + 1 \in Ix /\ queue'[i] = queue[i + 1]
  BY TailOf DEF TypeOK, Ix
<1>2. ConnFirst'
  BY <1>1 DEF Order, ConnFirst, Ix
<1>3. InOrder'
  BY <1>1 DEF Order, InOrder, IsAsk, Ix
<1> QED
  BY <1>2, <1>3

\* Nor does it, if no new random number is made, unsettle what the number tells.
LEMMA TailKeepsOrder ==
  ASSUME TypeOK, Order, queue # <<>>, queue' = Tail(queue), rand' \in {0, rand}
  PROVE  Order'
<1>1. Len(queue) \in Nat \ {0} /\ Ix' = 1 .. Len(queue) - 1
      /\ \A i \in Ix' : i + 1 \in Ix /\ queue'[i] = queue[i + 1]
  BY TailOf DEF TypeOK, Ix
<1>2. rand \in Nat /\ \A i \in Ix : queue[i].link \in 1 .. links
  BY Queued DEF TypeOK
<1>3. ConnFirst' /\ InOrder'
  BY TailKeepsPlaces
<1>5. RandIsOld'
  BY <1>1, <1>2 DEF Order, RandIsOld, IsAsk, Ix
<1>6. RandIsKept'
  BY <1>1, <1>2, SMTT(20) DEF Order, RandIsKept, IsKeyed, Ix
<1> QED
  BY <1>3, <1>5, <1>6 DEF Order

\* A new event of the newest link disturbs no order either.
LEMMA AppendKeepsOrder ==
  ASSUME TypeOK, Order, NEW e \in Events, queue' = Append(queue, e), rand' = rand,
         links' \in Nat, e.link = links', links' >= links,
         e.kind = "conn" => links' > links, e.kind # "cmd"
  PROVE  Order'
<1>1. Len(queue) \in Nat /\ Ix' = 1 .. Len(queue) + 1 /\ queue'[Len(queue) + 1] = e
      /\ \A i \in Ix : queue'[i] = queue[i]
  BY AppendTo DEF TypeOK, Ix
<1>2. links \in Nat /\ rand \in 0 .. links /\ \A i \in Ix : queue[i].link \in 1 .. links
  BY Queued DEF TypeOK
<1>3. ConnFirst'
  BY <1>1, <1>2 DEF Order, ConnFirst, Ix
<1>4. InOrder'
  BY <1>1, <1>2 DEF Order, InOrder, IsAsk, Ix
<1>5. RandIsOld'
  BY <1>1, <1>2 DEF Order, RandIsOld, IsAsk, Ix
<1>6. RandIsKept'
  BY <1>1, <1>2 DEF Order, RandIsKept, IsKeyed, Ix
<1> QED
  BY <1>3, <1>4, <1>5, <1>6 DEF Order
-----------------------------------------------------------------------------
(* Types                                                                   *)

QueueOK ==
  /\ queue \in Seq(Events) /\ Len(queue) <= QMax /\ batch \in 0 .. Len(queue)
  /\ \A i \in DOMAIN queue : queue[i].link <= links

RestOK ==
  /\ link \in 0 .. links /\ links \in Nat
  /\ closing \in BOOLEAN /\ bound \in BOOLEAN /\ monitor \in BOOLEAN /\ ota \in BOOLEAN /\ known \in BOOLEAN
  /\ status \in Statuses
  /\ rand \in 0 .. links
  /\ paired \subseteq 1 .. links /\ confused \subseteq 1 .. links

\* The two parts of TypeOK, before and after a step.
LEMMA TypeParts == (TypeOK <=> QueueOK /\ RestOK) /\ (TypeOK <=> QueueOK /\ RestOK)'
BY DEF TypeOK, QueueOK, RestOK

\* An event that is handled is the first of the queue, and of a link there has been.
LEMMA Handled ==
  ASSUME TypeOK, batch > 0
  PROVE  /\ queue # <<>> /\ ev \in Events /\ ev.link \in 1 .. links /\ ev = queue[1]
         /\ Len(queue) \in Nat \ {0} /\ 1 \in Ix
         /\ Tail(queue) \in Seq(Events) /\ Len(Tail(queue)) = Len(queue) - 1
         /\ DOMAIN Tail(queue) = 1 .. Len(queue) - 1
         /\ \A i \in 1 .. Len(queue) - 1 : i + 1 \in Ix /\ Tail(queue)[i] = queue[i + 1]
<1>1. queue # <<>> /\ queue \in Seq(Events)
  BY DEF TypeOK
<1>2. Len(queue) \in Nat \ {0} /\ 1 \in Ix /\ ev = queue[1]
  BY <1>1, TailOf DEF Ix, ev
<1> QED
  BY <1>1, <1>2, TailOf, Queued DEF Ix

\* Types: the events that wait are of links there have been.
LEMMA TypeNext ==
  ASSUME TypeOK, OneLink, Next
  PROVE  TypeOK' /\ OneLink'
<1>q. /\ Len(queue) \in Nat /\ DOMAIN queue = Ix
      /\ \A i \in Ix : queue[i] \in Events /\ queue[i].link \in 1 .. links
  BY Queued DEF TypeOK, Ix
<1>s. UnconnStatus \in Statuses /\ UnauthStatus \in Statuses /\ "BONDING_CONN" \in Statuses
      /\ "UNBONDING_UNCONN" \in Statuses
  BY DEF UnconnStatus, UnauthStatus, Statuses, Unconn, Unauth
<1>a. ASSUME NEW e \in Events, NEW n \in Nat, n >= links, e.link <= n, ~Full, Idle,
             queue' = Append(queue, e), links' = n, batch' = batch
      PROVE  QueueOK'
  <2>1. /\ queue' \in Seq(Events) /\ Len(queue') = Len(queue) + 1 /\ DOMAIN queue' = 1 .. Len(queue) + 1
        /\ queue'[Len(queue) + 1] = e /\ \A i \in Ix : queue'[i] = queue[i]
    BY <1>a, AppendTo DEF TypeOK, Ix
  <2>2. \A i \in DOMAIN queue' : queue'[i].link <= links'
    BY <2>1, <1>a, <1>q DEF TypeOK, Ix
  <2>3. Len(queue') <= QMax /\ batch' \in 0 .. Len(queue')
    BY <2>1, <1>a, <1>q, BleLinkAssumption DEF Full, Idle
  <2> QED
    BY <2>1, <2>2, <2>3 DEF QueueOK
<1>u. ASSUME UNCHANGED <<queue, links, batch>>
      PROVE  QueueOK'
  BY <1>u DEF TypeOK, QueueOK
<1>t. ASSUME Served, links' = links, batch > 0
      PROVE  QueueOK'
  <2>1. queue' = Tail(queue) /\ batch' = batch - 1
    BY <1>t DEF Served
  <2>2. Len(queue') <= QMax /\ batch' \in 0 .. Len(queue')
    BY <2>1, <1>t, Handled, BleLinkAssumption DEF TypeOK
  <2>3. \A i \in DOMAIN queue' : queue'[i].link <= links'
    BY <2>1, <1>t, Handled, <1>q DEF TypeOK
  <2> QED
    BY <2>1, <2>2, <2>3, <1>t, Handled DEF QueueOK
<1>1. CASE Reboot
  <2>1. queue' = <<>> /\ batch' = 0 /\ links' = links /\ paired' = paired /\ confused' = confused
        /\ link' = 0 /\ rand' = 0
    BY <1>1 DEF Reboot, history
  <2>2. QueueOK'
    BY <2>1, BleLinkAssumption DEF QueueOK
  <2>3. closing' \in BOOLEAN /\ bound' \in BOOLEAN /\ monitor' \in BOOLEAN /\ ota' \in BOOLEAN /\ known' \in BOOLEAN
        /\ status' \in Statuses
    BY <1>1, <1>s, TypeParts DEF Reboot, RestOK
  <2> HIDE <1>1
  <2> QED
    BY <2>1, <2>2, <2>3, TypeParts DEF RestOK, OneLink
<1>2. CASE Connect
  <2> DEFINE e == [LinkEvent("conn") EXCEPT !.link = links + 1]
  <2>1. e \in Events /\ e.link = links + 1 /\ links \in Nat
    BY DEF LinkEvent, Events, TypeOK
  <2>2. QueueOK'
    <3>1. CASE Full
      BY <1>2, <3>1, <2>1, <1>q DEF Connect, Idle, TypeOK, QueueOK
    <3>2. CASE ~Full
      <4>1. queue' = Append(queue, e) /\ links' = links + 1 /\ batch' = batch /\ Idle
        BY <1>2, <3>2 DEF Connect
      <4> HIDE DEF e
      <4> QED
        BY <4>1, <3>2, <2>1, <1>a
    <3> QED BY <3>1, <3>2
  <2>3. links' = links + 1 /\ confused' \in {confused, confused \cup {links + 1}}
    BY <1>2 DEF Connect
  <2>5. confused' \subseteq 1 .. links'
    BY <2>3, TypeParts DEF RestOK
  <2>4. RestOK' /\ OneLink'
    BY <1>2, <2>5, TypeParts DEF Connect, RestOK, OneLink
  <2> QED
    BY <2>2, <2>4, TypeParts
<1>3. CASE Disconnect
  <2>1. LinkEvent("disc") \in Events /\ LinkEvent("disc").link <= links /\ links \in Nat /\ links # 0
    BY <1>3 DEF Disconnect, LinkEvent, Events, TypeOK, OneLink
  <2>2. QueueOK'
    BY <1>3, <2>1, <1>a, <1>u DEF Disconnect
  <2>3. links' = links /\ confused' \in {confused, confused \cup {links}}
    BY <1>3 DEF Disconnect
  <2>5. confused' \subseteq 1 .. links'
    BY <2>1, <2>3, TypeParts DEF RestOK
  <2>6. /\ link' = 0 /\ rand' = rand /\ status' = status /\ paired' = paired
        /\ closing' \in BOOLEAN /\ bound' \in BOOLEAN /\ monitor' \in BOOLEAN /\ ota' \in BOOLEAN /\ known' \in BOOLEAN
    BY <1>3, TypeParts DEF Disconnect, RestOK
  <2>4. RestOK' /\ OneLink'
    BY <2>3, <2>5, <2>6, TypeParts DEF RestOK, OneLink
  <2> QED
    BY <2>2, <2>4, TypeParts
<1>4. CASE MonitorFires \/ BondRefresh
  <2>1. QueueOK'
    BY <1>4, <1>u DEF MonitorFires, BondRefresh
  <2>2. RestOK' /\ OneLink'
    BY <1>4, TypeParts DEF MonitorFires, BondRefresh, GapDisconnect, RestOK, OneLink, history
  <2> QED
    BY <2>1, <2>2, TypeParts
<1>5. CASE Pass
  <2>1. QueueOK'
    BY <1>5, <1>q DEF Pass, TypeOK, QueueOK
  <2>2. RestOK' /\ OneLink'
    BY <1>5, TypeParts DEF Pass, RestOK, OneLink, history
  <2> QED
    BY <2>1, <2>2, TypeParts
<1>6. ASSUME NEW c \in Sent, PhoneSends(c)
      PROVE  TypeOK' /\ OneLink'
  <2> DEFINE e == CmdEvent("data", link, c)
  <2>1. e \in Events /\ e.link <= links /\ links \in Nat
    BY <1>6, BleLinkAssumption DEF PhoneSends, CmdEvent, Events, TypeOK
  <2>2. queue' = Append(queue, e) /\ links' = links /\ batch' = batch /\ ~Full /\ Idle
    BY <1>6 DEF PhoneSends
  <2> HIDE DEF e
  <2>3. QueueOK'
    BY <2>1, <2>2, <1>a
  <2>4. RestOK' /\ OneLink'
    BY <1>6, TypeParts DEF PhoneSends, RestOK, OneLink, history
  <2> QED
    BY <2>3, <2>4, TypeParts
<1>7. CASE HandleConn \/ HandleDisc \/ Reject \/ Unbind
  <2>1. QueueOK'
    BY <1>7, <1>t DEF HandleConn, HandleDisc, Reject, Unbind, Executes, Serving
  <2>2. /\ link' = link /\ links' = links /\ ota' = ota /\ paired' = paired /\ confused' = confused
        /\ rand' \in {0, rand}
        /\ closing' \in BOOLEAN /\ bound' \in BOOLEAN /\ monitor' \in BOOLEAN /\ known' \in BOOLEAN
    BY <1>7, TypeParts DEF HandleConn, HandleDisc, Reject, Unbind, GapDisconnect, RestOK, history
  <2>3. status' \in Statuses
    BY <1>7, <1>s, TypeParts DEF HandleConn, HandleDisc, Reject, Unbind, RestOK
  <2> QED
    BY <2>1, <2>2, <2>3, TypeParts DEF RestOK, OneLink
<1>8. CASE HandleData
  <2>1. batch > 0 /\ batch' = batch - 1 /\ links' = links
    BY <1>8 DEF HandleData, Serving
  <2>2. CASE queue' = Tail(queue)
    <3>1. QueueOK'
      BY <2>1, <2>2, <1>t DEF Served
    <3> QED
      BY <1>8, <3>1, TypeParts DEF HandleData, RestOK, OneLink, history
  <2>3. CASE queue' = Append(Tail(queue), [ev EXCEPT !.kind = "cmd"])
    <3> DEFINE e == [ev EXCEPT !.kind = "cmd"]
               n == Len(queue)
    <3>7. ev \in Events /\ ev.link <= links
      BY <2>1, Handled, TypeParts DEF RestOK
    <3>1. e \in Events /\ e.link <= links
      BY <3>7 DEF Events
    <3> HIDE DEF e
    <3>2. /\ queue' \in Seq(Events) /\ Len(queue') = n /\ DOMAIN queue' = 1 .. n
          /\ queue'[n] = e /\ \A i \in 1 .. n - 1 : queue'[i] = queue[i + 1]
      BY <2>1, <2>3, <3>1, Handled, AppendTo DEF e
    <3>3. n \in Nat \ {0} /\ \A i \in 1 .. n - 1 : i + 1 \in Ix
      BY <2>1, Handled
    <3>4. \A i \in DOMAIN queue' : queue'[i].link <= links'
      BY <2>1, <3>1, <3>2, <3>3, <1>q
    <3>5. Len(queue') <= QMax /\ batch' \in 0 .. Len(queue')
      BY <2>1, <3>2, <3>3 DEF TypeOK
    <3>6. QueueOK'
      BY <3>2, <3>4, <3>5 DEF QueueOK
    <3> QED
      BY <1>8, <3>6, TypeParts DEF HandleData, RestOK, OneLink, history
  <2> QED
    BY <1>8, <2>2, <2>3 DEF HandleData
<1>9. CASE Info \/ Pair \/ Ota \/ DataPoint
  <2>1. batch > 0 /\ Served /\ links' = links /\ link' = link
    BY <1>9 DEF Info, Pair, Ota, DataPoint, Executes, Serving
  <2>2. QueueOK'
    BY <2>1, <1>t
  <2>3. /\ rand' \in {0, rand, ev.link} /\ status' \in Statuses
        /\ closing' \in BOOLEAN /\ bound' \in BOOLEAN /\ monitor' \in BOOLEAN /\ ota' \in BOOLEAN /\ known' \in BOOLEAN
    BY <1>9, <1>s, TypeParts DEF Info, Pair, Ota, DataPoint, RestOK
  <2>4. /\ paired' \in {paired, paired \cup {ev.link}}
        /\ confused' = confused \/ Late
    BY <1>9 DEF Info, Pair, Ota, DataPoint, history
  <2>5. paired' \subseteq 1 .. links
    BY <2>1, <2>4, Handled, TypeParts DEF RestOK
  <2>6. ev.link + 1 .. links \subseteq 1 .. links /\ (link = 0 => links \in 1 .. links)
    BY <2>1, Handled, TypeParts DEF RestOK
  <2>7. confused' \subseteq 1 .. links
    BY <2>4, <2>6, TypeParts DEF Late, RestOK
  <2> QED
    BY <2>1, <2>2, <2>3, <2>5, <2>7, Handled, TypeParts DEF RestOK, OneLink
<1> QED
  BY <1>1, <1>2, <1>3, <1>4, <1>5, <1>6, <1>7, <1>8, <1>9 DEF Next, Handle

\* The order of the queue and what the random number tells survive every step.
LEMMA OrderNext ==
  ASSUME TypeOK, OneLink, Order, Next
  PROVE  Order'
<1>q. /\ Len(queue) \in Nat
      /\ \A i \in Ix : queue[i] \in Events /\ queue[i].link \in 1 .. links
  BY Queued DEF TypeOK, Ix
<1>b. batch > 0 => queue # <<>>
  BY DEF TypeOK
<1>s. ASSUME UNCHANGED <<queue, rand>>
      PROVE  Order'
  BY <1>s DEF Order, ConnFirst, InOrder, RandIsOld, RandIsKept, Ix
<1>1. CASE Reboot
  BY <1>1 DEF Reboot, Order, ConnFirst, InOrder, RandIsOld, RandIsKept, Ix
<1>2. CASE Connect
  <2> DEFINE e == [LinkEvent("conn") EXCEPT !.link = links + 1]
  <2>1. CASE Full
    BY <1>2, <2>1, <1>s DEF Connect
  <2>2. CASE ~Full
    <3>1. e \in Events /\ e.link = links + 1 /\ e.kind = "conn"
      BY DEF LinkEvent, Events, TypeOK
    <3>2. queue' = Append(queue, e) /\ links' = links + 1 /\ rand' = rand /\ links \in Nat
      BY <1>2, <2>2 DEF Connect, TypeOK
    <3> HIDE DEF e
    <3> QED
      BY <3>1, <3>2, AppendKeepsOrder
  <2> QED
    BY <2>1, <2>2
<1>3. CASE Disconnect
  <2> DEFINE e == LinkEvent("disc")
  <2>1. CASE Full
    BY <1>3, <2>1, <1>s DEF Disconnect
  <2>2. CASE ~Full
    <3>1. e \in Events /\ e.link = links /\ e.kind = "disc"
      BY <1>3 DEF Disconnect, LinkEvent, Events, TypeOK, OneLink
    <3>2. queue' = Append(queue, e) /\ links' = links /\ rand' = rand /\ links \in Nat
      BY <1>3, <2>2 DEF Disconnect, TypeOK
    <3> HIDE DEF e
    <3> QED
      BY <3>1, <3>2, AppendKeepsOrder
  <2> QED
    BY <2>1, <2>2
<1>4. CASE MonitorFires \/ BondRefresh \/ Pass
  BY <1>4, <1>s DEF MonitorFires, BondRefresh, Pass
<1>5. ASSUME NEW c \in Sent, PhoneSends(c)
      PROVE  Order'
  <2> DEFINE e == CmdEvent("data", link, c)
  <2>1. e \in Events /\ e.link = links /\ e.kind = "data"
    BY <1>5, BleLinkAssumption DEF PhoneSends, CmdEvent, Events, TypeOK, OneLink
  <2>2. queue' = Append(queue, e) /\ links' = links /\ rand' = rand /\ links \in Nat
    BY <1>5 DEF PhoneSends, TypeOK
  <2> HIDE DEF e
  <2> QED
    BY <2>1, <2>2, AppendKeepsOrder
<1>6. CASE HandleConn \/ HandleDisc \/ Pair \/ Reject \/ Unbind \/ Ota \/ DataPoint
  BY <1>6, <1>b, TailKeepsOrder
  DEF HandleConn, HandleDisc, Pair, Reject, Unbind, Ota, DataPoint, Executes, Serving, Served, history
<1>7. CASE HandleData
  <2>1. queue # <<>> /\ ev = queue[1] /\ rand' = rand /\ ev.kind = "data"
    BY <1>7, <1>b, TailOf DEF HandleData, Serving, TypeOK, ev
  <2>2. CASE queue' = Tail(queue)
    BY <2>1, <2>2, TailKeepsOrder
  <2>3. CASE Decrypts(ev) /\ queue' = Append(Tail(queue), [ev EXCEPT !.kind = "cmd"])
    <3> DEFINE n == Len(queue)
               e == [ev EXCEPT !.kind = "cmd"]
    <3>1. n \in Nat \ {0} /\ 1 \in Ix /\ Tail(queue) \in Seq(Events) /\ Len(Tail(queue)) = n - 1
          /\ \A i \in 1 .. n - 1 : Tail(queue)[i] = queue[i + 1]
      BY <2>1, TailOf DEF TypeOK, Ix
    <3>2. e \in Events /\ e.kind = "cmd" /\ e.link = ev.link /\ e.cmd = ev.cmd
      BY <2>1, <3>1, <1>q DEF Events
    <3>3. Ix' = 1 .. n /\ queue'[n] = e /\ \A i \in 1 .. n - 1 : i + 1 \in Ix /\ queue'[i] = queue[i + 1]
      BY <2>3, <3>1, <3>2, AppendTo DEF Ix
    <3>4. /\ rand \in Nat /\ ev.link \in Nat
          /\ \A i \in Ix : queue[i].link \in Nat
      BY <2>1, <3>1, <1>q DEF TypeOK
    <3>5. \A i \in Ix : /\ IsAsk(queue[i]) => rand <= queue[i].link
                        /\ queue[i].kind = "cmd" => queue[i].link <= ev.link
                        /\ i > 1 /\ queue[i].kind = "data" => ev.link <= queue[i].link
      BY <2>1, <3>1 DEF Order, InOrder, RandIsOld, IsAsk, Ix
    <3> HIDE DEF n, e
    <3>6. ConnFirst'
      <4> SUFFICES ASSUME NEW i \in Ix', NEW j \in Ix', i < j, queue'[j].kind = "conn"
                   PROVE  queue'[i].link < queue'[j].link
        BY DEF ConnFirst
      <4>1. j # n
        BY <3>2, <3>3
      <4>2. i \in 1 .. n - 1 /\ j \in 1 .. n - 1
        BY <4>1, <3>1, <3>3
      <4>3. /\ i + 1 \in Ix /\ j + 1 \in Ix /\ i + 1 < j + 1
            /\ queue'[i] = queue[i + 1] /\ queue'[j] = queue[j + 1]
        BY <4>2, <3>3
      <4> QED
        BY <4>3 DEF Order, ConnFirst
    <3>7. InOrder'
      <4> SUFFICES ASSUME NEW i \in Ix', NEW j \in Ix'
                   PROVE  /\ i < j /\ IsAsk(queue'[i]) /\ queue'[i].kind = queue'[j].kind
                             => queue'[i].link <= queue'[j].link
                          /\ queue'[i].kind = "cmd" /\ queue'[j].kind = "data"
                             => queue'[i].link <= queue'[j].link
        BY DEF InOrder
      <4>1. CASE i = n /\ j = n
        BY <4>1, <3>1, <3>2, <3>3
      <4>2. CASE i = n /\ j \in 1 .. n - 1
        <5>1. j + 1 \in Ix /\ j + 1 > 1 /\ ~(i < j) /\ queue'[j] = queue[j + 1]
          BY <4>2, <3>1, <3>3
        <5>2. queue'[j].kind = "data" => ev.link <= queue'[j].link
          BY <5>1, <3>5
        <5> QED
          BY <4>2, <5>1, <5>2, <3>2, <3>3
      <4>3. CASE i \in 1 .. n - 1 /\ j = n
        BY <4>3, <3>1, <3>2, <3>3, <3>5
      <4>4. CASE i \in 1 .. n - 1 /\ j \in 1 .. n - 1
        <5>1. /\ i + 1 \in Ix /\ j + 1 \in Ix /\ (i < j => i + 1 < j + 1)
              /\ queue'[i] = queue[i + 1] /\ queue'[j] = queue[j + 1]
          BY <4>4, <3>3
        <5> QED
          BY <5>1 DEF Order, InOrder
      <4> QED
        BY <4>1, <4>2, <4>3, <4>4, <3>1, <3>3
    <3>8. RandIsOld'
      BY <2>1, <3>1, <3>2, <3>3, <3>4, <3>5 DEF IsAsk, RandIsOld, Ix
    <3>9. RandIsKept'
      BY <2>1, <2>3, <3>1, <3>2, <3>3, <3>4, <3>5
      DEF Order, RandIsKept, IsKeyed, IsAsk, Decrypts, Ix
    <3> QED
      BY <3>6, <3>7, <3>8, <3>9 DEF Order
  <2> QED
    BY <1>7, <2>2, <2>3 DEF HandleData
<1>8. CASE Info
  <2>1. queue # <<>> /\ queue' = Tail(queue) /\ rand' \in {0, ev.link}
    BY <1>8, <1>b DEF Info, Executes, Serving, Served
  <2>2. /\ Len(queue) \in Nat \ {0} /\ 1 \in Ix /\ ev = queue[1] /\ Ix' = 1 .. Len(queue) - 1
        /\ \A i \in Ix' : i + 1 \in Ix /\ i + 1 > 1 /\ queue'[i] = queue[i + 1]
    BY <2>1, TailOf DEF TypeOK, Ix, ev
  <2>3. ev.kind = "cmd" /\ ev.link \in Nat /\ \A i \in Ix : queue[i].link \in Nat
    BY <1>8, <2>2, <1>q DEF Info, Executes, Serving
  <2>4. \A i \in Ix : i > 1 /\ IsAsk(queue[i]) => ev.link <= queue[i].link
    BY <2>2, <2>3 DEF Order, InOrder, IsAsk
  <2>5. \A j \in Ix : j > 1 /\ IsKeyed(queue[j]) => ev.link = queue[j].link
    BY <2>2, <2>3 DEF Order, RandIsKept
  <2>6. ConnFirst' /\ InOrder'
    BY <2>1, TailKeepsPlaces
  <2>7. RandIsOld'
    BY <2>1, <2>2, <2>3, <2>4 DEF RandIsOld, IsAsk
  <2>8. RandIsKept'
    BY <2>1, <2>2, <2>3, <2>5 DEF Order, RandIsKept, IsKeyed
  <2> QED
    BY <2>6, <2>7, <2>8 DEF Order
<1> QED
  BY <1>1, <1>2, <1>3, <1>4, <1>5, <1>6, <1>7, <1>8 DEF Next, Handle

-----------------------------------------------------------------------------
(* What the SDK believes                                                   *)

\* Once an event is served, the last link event tells as before; if it was
\* that event, it told the truth.
LEMMA TailTells ==
  ASSUME TypeOK, batch > 0, queue' = Tail(queue), link' = link
  PROVE  /\ NoneWaits => NoneWaits' /\ ~IsLink(ev)
         /\ LastTells => \/ LastTells'
                         \/ NoneWaits' /\ IsLink(ev) /\ (ev.kind = "conn" <=> link # 0)
<1>1. /\ Len(queue) \in Nat \ {0} /\ Ix' = 1 .. Len(queue) - 1 /\ Ix = 1 .. Len(queue) /\ ev = queue[1]
      /\ \A i \in Ix' : queue'[i] = queue[i + 1]
  BY Handled DEF Ix
<1>2. NoneWaits => NoneWaits' /\ ~IsLink(ev)
  BY <1>1 DEF NoneWaits
<1>3. ASSUME NEW i \in Ix, IsLink(queue[i]), queue[i].kind = "conn" <=> link # 0,
             \A j \in Ix : j > i => ~IsLink(queue[j])
      PROVE  LastTells' \/ (NoneWaits' /\ IsLink(ev) /\ (ev.kind = "conn" <=> link # 0))
  <2>1. CASE i = 1
    BY <1>1, <1>3, <2>1 DEF NoneWaits
  <2>2. CASE i > 1
    <3>1. i - 1 \in Ix' /\ queue'[i - 1] = queue[i] /\ \A j \in Ix' : j > i - 1 => ~IsLink(queue'[j])
      BY <1>1, <1>3, <2>2
    <3>2. queue'[i - 1].kind = "conn" <=> link' # 0
      BY <1>3, <3>1
    <3>3. IsLink(queue'[i - 1])
      BY <1>3, <3>1
    <3> QED
      BY <3>1, <3>2, <3>3 DEF LastTells, IsLink
  <2> QED
    BY <1>1, <2>1, <2>2
<1> QED
  BY <1>2, <1>3 DEF LastTells

\* A frame or a command that joins the queue changes nothing to it, a link event is the last.
LEMMA AppendTells ==
  ASSUME TypeOK, NEW e \in Events, queue' = Append(queue, e)
  PROVE  /\ ~IsLink(e) /\ NoneWaits => NoneWaits'
         /\ ~IsLink(e) /\ LastTells /\ link' = link => LastTells'
         /\ IsLink(e) /\ (e.kind = "conn" <=> link' # 0) => LastTells'
<1>1. /\ Len(queue) \in Nat /\ Ix' = 1 .. Len(queue) + 1 /\ Ix = 1 .. Len(queue)
      /\ queue'[Len(queue) + 1] = e /\ \A i \in Ix : queue'[i] = queue[i]
  BY AppendTo DEF TypeOK, Ix
<1> QED
  BY <1>1 DEF NoneWaits, LastTells, IsLink

\* The status, the random number and the update follow the link through every step.
LEMMA BeliefNext ==
  ASSUME TypeOK, OneLink, LastEventTells, NoUpdateAlone, Next
  PROVE  LastEventTells' /\ NoUpdateAlone'
<1>b. UnconnStatus \in Unconn /\ UnauthStatus \notin Unconn /\ "UNBONDING_UNCONN" \in Unconn
      /\ "BONDING_CONN" \notin Unconn /\ \A s \in Unauth : s \notin Unconn
  BY DEF UnconnStatus, UnauthStatus, Unconn, Unauth
<1>u. ASSUME UNCHANGED <<queue, link>>
      PROVE  (NoneWaits <=> NoneWaits') /\ (LastTells <=> LastTells')
  BY <1>u DEF NoneWaits, LastTells, Ix
<1>1. CASE Reboot
  <2>1. queue' = <<>> /\ link' = 0 /\ rand' = 0 /\ status' \in Unconn /\ ota' = FALSE
    BY <1>1, <1>b DEF Reboot
  <2>2. NoneWaits' /\ Believed'
    BY <2>1 DEF NoneWaits, Believed, Ix
  <2> QED
    BY <2>1, <2>2 DEF LastEventTells, NoUpdateAlone
<1>2. CASE Connect
  <2> DEFINE e == [LinkEvent("conn") EXCEPT !.link = links + 1]
  <2>1. e \in Events /\ e.kind = "conn"
    BY DEF LinkEvent, Events, TypeOK
  <2>2. link' # 0 /\ links' = links + 1 /\ links \in Nat
    BY <1>2 DEF Connect, TypeOK
  <2>3. CASE Full
    BY <1>2, <2>2, <2>3 DEF Connect, LastEventTells, NoUpdateAlone
  <2>4. CASE ~Full
    <3>1. queue' = Append(queue, e)
      BY <1>2, <2>4 DEF Connect
    <3> HIDE DEF e
    <3>2. LastTells'
      BY <2>1, <2>2, <3>1, AppendTells DEF IsLink
    <3> QED
      BY <2>2, <3>2 DEF LastEventTells, NoUpdateAlone
  <2> QED
    BY <2>3, <2>4
<1>3. CASE Disconnect
  <2>1. link' = 0 /\ links' = links /\ ota' = FALSE /\ links \in Nat
    BY <1>3 DEF Disconnect, TypeOK
  <2>2. CASE Full
    BY <1>3, <2>1, <2>2 DEF Disconnect, LastEventTells, NoUpdateAlone
  <2>3. CASE ~Full
    <3>1. LinkEvent("disc") \in Events /\ LinkEvent("disc").kind = "disc"
      BY <1>3 DEF Disconnect, LinkEvent, Events, TypeOK
    <3>2. queue' = Append(queue, LinkEvent("disc"))
      BY <1>3, <2>3 DEF Disconnect
    <3>3. LastTells'
      BY <2>1, <3>1, <3>2, AppendTells DEF IsLink
    <3> QED
      BY <2>1, <3>3 DEF LastEventTells, NoUpdateAlone
  <2> QED
    BY <2>2, <2>3
<1>4. CASE MonitorFires \/ BondRefresh \/ Pass
  <2>1. /\ UNCHANGED <<queue, link, links, status, rand, ota, confused>>
        /\ closing' = closing \/ closing' = (link # 0)
    BY <1>4 DEF MonitorFires, BondRefresh, Pass, GapDisconnect, history
  <2>2. Believed => Believed'
    BY <2>1 DEF Believed
  <2> QED
    BY <2>1, <2>2, <1>u DEF LastEventTells, NoUpdateAlone
<1>5. ASSUME NEW c \in Sent, PhoneSends(c)
      PROVE  LastEventTells' /\ NoUpdateAlone'
  <2> DEFINE e == CmdEvent("data", link, c)
  <2>1. e \in Events /\ e.kind = "data"
    BY <1>5, BleLinkAssumption DEF PhoneSends, CmdEvent, Events, TypeOK
  <2>2. queue' = Append(queue, e) /\ UNCHANGED <<link, links, closing, status, rand, ota, confused>>
    BY <1>5 DEF PhoneSends, history
  <2> HIDE DEF e
  <2>3. (NoneWaits => NoneWaits') /\ (LastTells => LastTells')
    BY <2>1, <2>2, AppendTells DEF IsLink
  <2>4. Believed => Believed'
    BY <2>2 DEF Believed
  <2> QED
    BY <2>2, <2>3, <2>4 DEF LastEventTells, NoUpdateAlone
<1>6. CASE HandleConn
  <2>1. /\ batch > 0 /\ queue' = Tail(queue) /\ ev.kind = "conn"
        /\ UNCHANGED <<link, links, closing, rand, ota, confused>> /\ status' = UnauthStatus
    BY <1>6 DEF HandleConn, Serving, Served, history
  <2>2. IsLink(ev) /\ (ev.kind = "conn" <=> link # 0) => Believed'
    BY <2>1, <1>b DEF Believed
  <2> QED
    BY <2>1, <2>2, TailTells DEF LastEventTells, NoUpdateAlone, IsLink
<1>7. CASE HandleDisc
  <2>1. /\ batch > 0 /\ queue' = Tail(queue) /\ ev.kind = "disc"
        /\ UNCHANGED <<link, links, closing, ota, confused>> /\ status' = UnconnStatus /\ rand' = 0
    BY <1>7 DEF HandleDisc, Serving, Served, history
  <2>2. IsLink(ev) /\ (ev.kind = "conn" <=> link # 0) => Believed'
    BY <2>1, <1>b DEF Believed
  <2> QED
    BY <2>1, <2>2, TailTells DEF LastEventTells, NoUpdateAlone, IsLink
<1>8. CASE HandleData
  <2>1. /\ batch > 0 /\ ev.kind = "data"
        /\ UNCHANGED <<link, links, closing, status, rand, ota, confused>>
    BY <1>8 DEF HandleData, Serving, history
  <2>2. Believed => Believed'
    BY <2>1 DEF Believed
  <2>3. CASE queue' = Tail(queue)
    BY <2>1, <2>2, <2>3, TailTells DEF LastEventTells, NoUpdateAlone, IsLink
  <2>4. CASE queue' = Append(Tail(queue), [ev EXCEPT !.kind = "cmd"])
    <3> DEFINE n == Len(queue)
               e == [ev EXCEPT !.kind = "cmd"]
    <3>1. e \in Events /\ e.kind = "cmd"
      BY <2>1, Handled DEF Events
    <3> HIDE DEF e
    <3>2. /\ Ix' = 1 .. n /\ Ix = 1 .. n /\ n \in Nat \ {0} /\ queue[1].kind = "data"
          /\ queue'[n] = e /\ \A i \in 1 .. n - 1 : queue'[i] = queue[i + 1]
      BY <2>1, <2>4, <3>1, Handled, AppendTo DEF Ix, e
    <3>3. ~IsLink(queue'[n]) /\ ~IsLink(queue[1])
      BY <3>1, <3>2 DEF IsLink
    <3>4. NoneWaits => NoneWaits'
      BY <3>2, <3>3 DEF NoneWaits
    <3>5. ASSUME NEW i \in Ix, IsLink(queue[i]), queue[i].kind = "conn" <=> link # 0,
                 \A j \in Ix : j > i => ~IsLink(queue[j])
          PROVE  LastTells'
      <4>1. i > 1
        BY <3>2, <3>3, <3>5
      <4>2. i - 1 \in Ix' /\ queue'[i - 1] = queue[i]
        BY <3>2, <4>1
      <4>3. \A j \in Ix' : j > i - 1 => ~IsLink(queue'[j])
        BY <3>2, <3>3, <3>5, <4>1
      <4> QED
        BY <2>1, <3>5, <4>2, <4>3 DEF LastTells, IsLink
    <3> QED
      BY <2>1, <2>2, <3>4, <3>5 DEF LastEventTells, LastTells, NoUpdateAlone
  <2> QED
    BY <1>8, <2>3, <2>4 DEF HandleData
<1>9. CASE Info \/ Reject \/ Unbind
  <2>1. /\ batch > 0 /\ queue' = Tail(queue) /\ ev.kind = "cmd"
        /\ UNCHANGED <<link, links, ota, confused>>
    BY <1>9 DEF Info, Reject, Unbind, Executes, Serving, Served, history
  <2>2. Believed => Believed'
    <3>1. CASE Info
      BY <3>1 DEF Info, Believed
    <3>2. CASE Reject
      BY <3>2 DEF Reject, GapDisconnect, Believed
    <3>3. CASE Unbind
      BY <3>3, <1>b DEF Unbind, GapDisconnect, Believed
    <3> QED
      BY <1>9, <3>1, <3>2, <3>3
  <2> QED
    BY <2>1, <2>2, TailTells DEF LastEventTells, NoUpdateAlone, IsLink
<1>10. CASE Pair \/ Ota \/ DataPoint
  <2>1. /\ batch > 0 /\ queue' = Tail(queue) /\ ev.kind = "cmd" /\ Late
        /\ UNCHANGED <<link, links, closing, rand>>
        /\ status' \in {status, "BONDING_CONN"}
    BY <1>10 DEF Pair, Ota, DataPoint, Executes, Serving, Served
  <2>2. CASE links' \in confused'
    BY <2>2 DEF LastEventTells, NoUpdateAlone
  <2>3. CASE links' \notin confused'
    <3>1. link # 0 /\ links \notin confused
      BY <2>1, <2>3 DEF Late
    <3>2. Believed => Believed'
      BY <2>1, <3>1, <1>b DEF Believed
    <3> QED
      BY <2>1, <3>1, <3>2, TailTells DEF LastEventTells, NoUpdateAlone, IsLink
  <2> QED
    BY <2>2, <2>3
<1> QED
  BY <1>1, <1>2, <1>3, <1>4, <1>5, <1>6, <1>7, <1>8, <1>9, <1>10 DEF Next, Handle

-----------------------------------------------------------------------------
(* What needs pairing                                                      *)

\* A link that has neither paired nor been confused, whose connection has been
\* served, and for which something is left, cannot be there when the status is
\* BONDING_CONN; nor can a command of it that needs pairing.
LEMMA TrustNext ==
  ASSUME TypeOK, OneLink, Order, Trusted, ProtectedIsPaired, Next
  PROVE  Trusted' /\ ProtectedIsPaired'
<1>q. /\ Len(queue) \in Nat /\ DOMAIN queue = Ix /\ Ix = 1 .. Len(queue)
      /\ \A i \in Ix : queue[i] \in Events /\ queue[i].link \in 1 .. links
  BY Queued DEF TypeOK, Ix
<1>n. links \in Nat /\ link \in {0, links} /\ rand \in 0 .. links
  BY DEF TypeOK, OneLink
<1>b. "BONDING_CONN" \notin Unconn \cup Unauth /\ UnconnStatus # "BONDING_CONN"
      /\ UnauthStatus # "BONDING_CONN" /\ "UNBONDING_UNCONN" # "BONDING_CONN"
  BY DEF Unconn, Unauth, UnconnStatus, UnauthStatus
<1>a. ASSUME NEW e \in Events, queue' = Append(queue, e), paired \subseteq paired',
             confused \subseteq confused', e.kind # "cmd"
      PROVE  /\ DOMAIN queue' = Ix' /\ Ix' = 1 .. Len(queue) + 1 /\ queue'[Len(queue) + 1] = e
             /\ \A i \in Ix : i \in Ix' /\ queue'[i] = queue[i]
             /\ ProtectedIsPaired'
             /\ \A m : Waits(m) => Waits(m)'
  <2>1. /\ queue' \in Seq(Events) /\ Len(queue') = Len(queue) + 1 /\ queue'[Len(queue) + 1] = e
        /\ \A i \in Ix : queue'[i] = queue[i]
    BY <1>a, <1>q, AppendTo DEF TypeOK
  <2>2. DOMAIN queue' = Ix' /\ Ix' = 1 .. Len(queue) + 1 /\ \A i \in Ix : i \in Ix'
    BY <2>1, <1>q DEF Ix
  <2>3. ProtectedIsPaired'
    BY <2>1, <2>2, <1>a, <1>q DEF ProtectedIsPaired
  <2>4. \A m : Waits(m) => Waits(m)'
    BY <2>1, <2>2 DEF Waits
  <2> QED
    BY <2>1, <2>2, <2>3, <2>4
<1>t. ASSUME batch > 0, queue' = Tail(queue), paired \subseteq paired', confused \subseteq confused'
      PROVE  /\ \A i \in Ix' : i + 1 \in Ix /\ i + 1 > 1 /\ queue'[i] = queue[i + 1]
             /\ ProtectedIsPaired'
             /\ ev.kind # "conn" => \A m : Waits(m) => Waits(m)'
             /\ \A m : Gone(m) /\ rand' # m /\ link' # m => Gone(m)'
  <2>1. /\ Len(queue) \in Nat \ {0} /\ ev = queue[1] /\ Ix' = 1 .. Len(queue) - 1
        /\ DOMAIN queue' = Ix' /\ \A i \in Ix' : i + 1 \in Ix /\ i + 1 > 1 /\ queue'[i] = queue[i + 1]
    BY <1>t, Handled DEF Ix
  <2>2. ProtectedIsPaired'
    BY <2>1, <1>t, <1>q DEF ProtectedIsPaired
  <2>3. ASSUME ev.kind # "conn", NEW m, NEW i \in Ix, queue[i].kind = "conn", queue[i].link = m
        PROVE  Waits(m)'
    <3>1. i - 1 \in Ix' /\ queue'[i - 1] = queue[i]
      BY <2>1, <2>3, <1>q
    <3> QED
      BY <2>3, <3>1 DEF Waits
  <2>4. \A m : Gone(m) /\ rand' # m /\ link' # m => Gone(m)'
    BY <2>1 DEF Gone
  <2> QED
    BY <2>1, <2>2, <2>3, <2>4 DEF Waits
<1>1. CASE Reboot
  <2>1. queue' = <<>> /\ status' # "BONDING_CONN"
    BY <1>1, <1>b DEF Reboot
  <2> QED
    BY <2>1 DEF Trusted, ProtectedIsPaired
<1>2. CASE Connect
  <2> DEFINE e == [LinkEvent("conn") EXCEPT !.link = links + 1]
  <2>1. e \in Events /\ e.kind = "conn" /\ e.link = links + 1
    BY <1>n DEF LinkEvent, Events
  <2>2. link' = links + 1 /\ links' = links + 1 /\ UNCHANGED <<status, rand, paired>>
    BY <1>2 DEF Connect
  <2>3. CASE Full
    <3>1. queue' = queue /\ confused' = confused \cup {links + 1}
      BY <1>2, <2>3 DEF Connect
    <3>2. Trusted'
      BY <2>2, <3>1, <1>n DEF Trusted, Waits, Gone, Ix
    <3> QED
      BY <2>2, <3>1, <3>2 DEF ProtectedIsPaired
  <2>4. CASE ~Full
    <3>1. queue' = Append(queue, e) /\ confused' = confused
      BY <1>2, <2>4 DEF Connect
    <3> HIDE DEF e
    <3>4. /\ Ix' = 1 .. Len(queue) + 1 /\ queue'[Len(queue) + 1] = e
          /\ \A i \in Ix : queue'[i] = queue[i]
          /\ \A m : Waits(m) => Waits(m)'
      BY <2>1, <2>2, <3>1, <1>a
    <3>5. \A m : m = links + 1 => Waits(m)'
      BY <2>1, <3>4, <1>q DEF Waits
    <3>2. \A m \in 1 .. links : Gone(m) => Gone(m)'
      BY <2>1, <2>2, <3>4, <1>n, <1>q DEF Gone, IsAsk
    <3>6. \A m \in 1 .. links' : m \in 1 .. links \/ m = links + 1
      BY <2>2, <1>n
    <3>3. Trusted'
      BY <2>2, <3>1, <3>2, <3>4, <3>5, <3>6 DEF Trusted
    <3> QED
      BY <2>1, <2>2, <3>1, <3>3, <1>a
  <2> QED
    BY <2>3, <2>4
<1>3. CASE Disconnect
  <2>1. /\ link' = 0 /\ UNCHANGED <<links, status, rand, paired>> /\ confused \subseteq confused'
        /\ confused' = confused \/ links \in confused'
    BY <1>3 DEF Disconnect
  <2>2. CASE Full
    <3>1. queue' = queue
      BY <1>3, <2>2 DEF Disconnect
    <3>2. Trusted'
      BY <2>1, <3>1, <1>n DEF Trusted, Waits, Gone, Ix
    <3> QED
      BY <2>1, <3>1, <3>2 DEF ProtectedIsPaired
  <2>3. CASE ~Full
    <3>1. LinkEvent("disc") \in Events /\ LinkEvent("disc").kind = "disc"
      BY <1>3 DEF Disconnect, LinkEvent, Events, TypeOK
    <3>2. queue' = Append(queue, LinkEvent("disc"))
      BY <1>3, <2>3 DEF Disconnect
    <3>3. \A m \in 1 .. links : Gone(m) => Gone(m)'
      BY <2>1, <3>1, <3>2, <1>a, <1>q DEF Gone, IsAsk
    <3>4. Trusted'
      BY <2>1, <3>1, <3>2, <3>3, <1>a DEF Trusted
    <3> QED
      BY <2>1, <3>1, <3>2, <3>4, <1>a
  <2> QED
    BY <2>2, <2>3
<1>4. CASE MonitorFires \/ BondRefresh \/ Pass
  <2>1. UNCHANGED <<queue, link, links, status, rand, paired, confused>>
    BY <1>4 DEF MonitorFires, BondRefresh, Pass, history
  <2> QED
    BY <2>1 DEF Trusted, Waits, Gone, Ix, ProtectedIsPaired
<1>5. ASSUME NEW c \in Sent, PhoneSends(c)
      PROVE  Trusted' /\ ProtectedIsPaired'
  <2> DEFINE e == CmdEvent("data", link, c)
  <2>1. e \in Events /\ e.kind = "data" /\ e.link = link
    BY <1>5, BleLinkAssumption DEF PhoneSends, CmdEvent, Events, TypeOK
  <2>2. queue' = Append(queue, e) /\ UNCHANGED <<link, links, status, rand, paired, confused>>
    BY <1>5 DEF PhoneSends, history
  <2> HIDE DEF e
  <2>3. \A m \in 1 .. links : Gone(m) => Gone(m)'
    BY <2>1, <2>2, <1>a, <1>q DEF Gone, IsAsk
  <2>4. Trusted'
    BY <2>1, <2>2, <2>3, <1>a DEF Trusted
  <2> QED
    BY <2>1, <2>2, <2>4, <1>a
<1>6. CASE HandleConn \/ HandleDisc \/ Unbind
  <2>1. batch > 0 /\ queue' = Tail(queue) /\ UNCHANGED history /\ status' # "BONDING_CONN"
    BY <1>6, <1>b DEF HandleConn, HandleDisc, Unbind, Executes, Serving, Served
  <2> QED
    BY <2>1, <1>t DEF Trusted, history
<1>7. CASE HandleData
  <2>1. batch > 0 /\ ev.kind = "data" /\ UNCHANGED <<link, links, status, rand, paired, confused>>
    BY <1>7 DEF HandleData, Serving, history
  <2>2. CASE queue' = Tail(queue)
    <3>1. Trusted'
      BY <2>1, <2>2, <1>t DEF Trusted, Gone
    <3> QED
      BY <2>1, <2>2, <3>1, <1>t
  <2>3. CASE /\ queue' = Append(Tail(queue), [ev EXCEPT !.kind = "cmd"])
             /\ Decrypts(ev) /\ (status = "BONDING_CONN" \/ ev.cmd \in Open)
    <3> DEFINE n == Len(queue)
               e == [ev EXCEPT !.kind = "cmd"]
    <3>1. e \in Events /\ e.kind = "cmd" /\ e.link = ev.link /\ e.cmd = ev.cmd /\ ev.link \in 1 .. links
      BY <2>1, Handled DEF Events
    <3> HIDE DEF e
    <3>2. /\ Ix' = 1 .. n /\ n \in Nat \ {0} /\ ev = queue[1] /\ DOMAIN queue' = Ix' /\ 1 \in Ix
          /\ queue'[n] = e /\ \A i \in 1 .. n - 1 : i + 1 \in Ix /\ queue'[i] = queue[i + 1]
      BY <2>1, <2>3, <3>1, Handled, AppendTo DEF Ix, e
    <3>3. ASSUME NEW m \in 1 .. links, Waits(m)
          PROVE  Waits(m)' /\ m # ev.link
      <4>1. PICK i \in Ix : queue[i].kind = "conn" /\ queue[i].link = m
        BY <3>3 DEF Waits
      <4>2. i > 1 /\ i - 1 \in 1 .. n - 1 /\ queue'[i - 1] = queue[i]
        BY <4>1, <2>1, <3>2, <1>q
      <4>3. ev.link < m
        BY <4>1, <4>2, <3>2 DEF Order, ConnFirst
      <4> QED
        BY <4>1, <4>2, <4>3, <3>1, <3>2 DEF Waits
    <3>4. ASSUME NEW m \in 1 .. links, Gone(m)
          PROVE  Gone(m)' /\ m # ev.link
      <4>1. m # ev.link
        BY <3>4, <3>2, <2>1 DEF Gone, IsAsk
      <4> QED
        BY <4>1, <3>1, <3>2, <3>4, <2>1 DEF Gone
    <3>5. Trusted'
      BY <2>1, <3>3, <3>4 DEF Trusted
    <3>6. ev.cmd \in Protected => ev.link \in paired \cup confused
      <4>1. ev.cmd \in Protected => status = "BONDING_CONN"
        BY <2>3 DEF Protected, Open
      <4> QED
        BY <4>1, <3>1, <3>3, <3>4 DEF Trusted
    <3>7. ProtectedIsPaired'
      <4>1. \A i \in DOMAIN queue' : i = n \/ i \in 1 .. n - 1
        BY <3>2
      <4>2. queue'[n].cmd \in Protected => queue'[n].link \in paired \cup confused
        BY <3>1, <3>2, <3>6
      <4>3. \A i \in 1 .. n - 1 : queue'[i].kind = "cmd" /\ queue'[i].cmd \in Protected
              => queue'[i].link \in paired \cup confused
        BY <3>2, <1>q DEF ProtectedIsPaired
      <4> HIDE DEF n
      <4> QED
        BY <2>1, <4>1, <4>2, <4>3 DEF ProtectedIsPaired
    <3> QED
      BY <3>5, <3>7
  <2> QED
    BY <1>7, <2>2, <2>3 DEF HandleData
<1>8. CASE Info
  <2>1. /\ batch > 0 /\ queue' = Tail(queue) /\ ev.kind = "cmd" /\ rand' \in {0, ev.link}
        /\ UNCHANGED <<link, links, status, paired, confused>>
    BY <1>8 DEF Info, Executes, Serving, Served, history
  <2>2. ASSUME NEW m \in 1 .. links, Gone(m)
        PROVE  rand' # m
    BY <2>1, <2>2, Handled DEF Gone, IsAsk
  <2>3. Trusted'
    BY <2>1, <2>2, <1>t DEF Trusted, Gone
  <2> QED
    BY <2>1, <2>3, <1>t
<1>9. CASE Reject \/ Ota \/ DataPoint
  <2>1. /\ batch > 0 /\ queue' = Tail(queue) /\ ev.kind = "cmd"
        /\ UNCHANGED <<link, links, status, rand, paired>> /\ confused \subseteq confused'
    BY <1>9 DEF Reject, Ota, DataPoint, Late, Executes, Serving, Served, history
  <2>2. Trusted'
    BY <2>1, <1>t DEF Trusted, Gone
  <2> QED
    BY <2>1, <2>2, <1>t
<1>10. CASE Pair
  <2>1. /\ batch > 0 /\ queue' = Tail(queue) /\ ev.kind = "cmd" /\ ev.cmd = "pair"
        /\ UNCHANGED <<link, links, rand>> /\ paired' = paired \cup {ev.link}
        /\ confused \subseteq confused' /\ ev.link + 1 .. links \subseteq confused'
    BY <1>10 DEF Pair, Late, Executes, Serving, Served
  <2>2. ev.link \in 1 .. links /\ 1 \in Ix /\ ev = queue[1]
    BY <2>1, Handled
  <2>3. IsKeyed(queue[1]) /\ rand \in {0, ev.link}
    BY <2>1, <2>2 DEF IsKeyed, Order, RandIsKept
  <2>4. \A i \in Ix : i > 1 /\ IsAsk(queue[i]) => ev.link <= queue[i].link
    BY <2>1, <2>2 DEF Order, InOrder, IsAsk
  <2>5. ASSUME NEW m \in 1 .. links, m < ev.link
        PROVE  Gone(m)'
    <3>1. rand' # m /\ link' # m
      BY <2>1, <2>2, <2>3, <2>5, <1>n
    <3>2. \A i \in Ix' : IsAsk(queue'[i]) => queue'[i].link # m
      <4>1. \A i \in Ix' : i + 1 \in Ix /\ i + 1 > 1 /\ queue'[i] = queue[i + 1]
        BY <2>1, <1>t
      <4> QED
        BY <2>2, <2>4, <2>5, <4>1, <1>q
    <3> QED
      BY <3>1, <3>2 DEF Gone, IsAsk
  <2>6. \A m \in 1 .. links : m \in paired' \/ m \in confused' \/ m < ev.link
    BY <2>1, <2>2
  <2>7. Trusted'
    BY <2>1, <2>5, <2>6 DEF Trusted
  <2> QED
    BY <2>1, <2>7, <1>t
<1> QED
  BY <1>1, <1>2, <1>3, <1>4, <1>5, <1>6, <1>7, <1>8, <1>9, <1>10 DEF Next, Handle

-----------------------------------------------------------------------------
(* Theorems                                                                *)

\* The inductive invariant holds of a device that starts.
LEMMA InitIInv == Init => IInv
<1> SUFFICES ASSUME Init PROVE IInv
  OBVIOUS
<1>1. Len(queue) = 0 /\ queue \in Seq(Events) /\ Ix = {} /\ DOMAIN queue = {}
  BY DEF Init, Ix
<1>2. UnconnStatus \in Unconn /\ UnconnStatus \in Statuses /\ UnconnStatus # "BONDING_CONN"
  BY DEF UnconnStatus, Unconn, Statuses
<1>3. TypeOK /\ OneLink
  <2>1. QueueOK
    BY <1>1, BleLinkAssumption DEF Init, QueueOK
  <2>3. closing \in BOOLEAN /\ bound \in BOOLEAN /\ monitor \in BOOLEAN /\ ota \in BOOLEAN /\ known \in BOOLEAN
    BY DEF Init
  <2>4. link = 0 /\ links = 0 /\ rand = 0 /\ paired = {} /\ confused = {} /\ status \in Statuses
    BY <1>2 DEF Init
  <2>2. RestOK /\ OneLink
    BY <2>3, <2>4 DEF RestOK, OneLink
  <2> QED
    BY <2>1, <2>2, TypeParts
<1>4. LastEventTells /\ NoUpdateAlone
  BY <1>1, <1>2 DEF Init, LastEventTells, NoneWaits, Believed, NoUpdateAlone
<1>5. ConnFirst /\ InOrder /\ RandIsOld /\ RandIsKept /\ Trusted /\ ProtectedIsPaired
  BY <1>1, <1>2 DEF Init, ConnFirst, InOrder, RandIsOld, RandIsKept, Trusted, ProtectedIsPaired
<1> QED
  BY <1>3, <1>4, <1>5 DEF IInv

\* Every step keeps it.
LEMMA NextIInv == IInv /\ [Next]_vars => IInv'
<1> SUFFICES ASSUME IInv, [Next]_vars PROVE IInv'
  OBVIOUS
<1>1. CASE Next
  BY <1>1, TypeNext, OrderNext, BeliefNext, TrustNext DEF IInv, Order
<1>2. CASE UNCHANGED vars
  BY <1>2 DEF vars, IInv, TypeOK, OneLink, LastEventTells, NoneWaits, Believed, LastTells,
     NoUpdateAlone, ConnFirst, InOrder, RandIsOld, RandIsKept, Trusted, Waits, Gone, Ix,
     ProtectedIsPaired, history
<1> QED
  BY <1>1, <1>2

\* IInv holds of every reachable state.
LEMMA AlwaysIInv == Spec => []IInv
BY InitIInv, NextIInv, PTL DEF Spec

\* Types: every event that waits is of a link there has been.
THEOREM TypeCorrect == Spec => []TypeOK
<1>1. IInv => TypeOK
  BY DEF IInv
<1> QED
  BY <1>1, AlwaysIInv, PTL

\* When no event waits, the status tells whether there is a link.
THEOREM StatusIsRight == Spec => []StatusFollowsLink
<1>1. IInv => StatusFollowsLink
  <2> SUFFICES ASSUME IInv, queue = <<>>, links \notin confused PROVE Believed
    BY DEF StatusFollowsLink, Settled, Believed
  <2>1. Ix = {}
    BY DEF Ix
  <2> QED
    BY <2>1 DEF IInv, LastEventTells, LastTells
<1> QED
  BY <1>1, AlwaysIInv, PTL

\* A disconnection leaves no random number and no update behind it.
THEOREM NothingIsLeft == Spec => []NothingOutlivesLink
<1>1. IInv => NothingOutlivesLink
  <2> SUFFICES ASSUME IInv, queue = <<>>, links \notin confused, link = 0 PROVE rand = 0 /\ ~ota
    BY DEF NothingOutlivesLink, Settled
  <2>1. Ix = {}
    BY DEF Ix
  <2> QED
    BY <2>1 DEF IInv, LastEventTells, LastTells, Believed, NoUpdateAlone
<1> QED
  BY <1>1, AlwaysIInv, PTL

\* What needs pairing is taken from a link that has paired.
THEOREM ProtectedNeedsPairing == Spec => []ProtectedIsPaired
<1>1. IInv => ProtectedIsPaired
  BY DEF IInv
<1> QED
  BY <1>1, AlwaysIInv, PTL
=============================================================================
