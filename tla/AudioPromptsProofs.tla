--------------------------- MODULE AudioPromptsProofs ---------------------------
(***************************************************************************)
(* Proofs about AudioPrompts, for all tones: the counter covers the list,  *)
(* a tone that repeats has its timer, and a stop silences the player.      *)
(***************************************************************************)
EXTENDS AudioPrompts, SequenceTheorems, TLAPS

Kinds == {"start", "loop", "prepare", "next", "stop"}
EventType == [kind : Kinds, tone : Tones \cup {Mute}]
CoreType == [busy : BOOLEAN, tone : Tones \cup {Mute}, stop : BOOLEAN]

Places == 1 .. Len(queue)
Kind(i) == queue[i].kind

Typed ==
  /\ queue \in Seq(EventType)
  /\ core \in CoreType
  /\ delay \in Tones \cup {Mute}
  /\ timer \in BOOLEAN /\ quiet \in BOOLEAN /\ overtaken \in BOOLEAN /\ untimed \in BOOLEAN

\* The interrupt loses decrements and nothing else.
Counted == frames \in Nat /\ counter \in Int /\ frames <= counter

\* What is repeated, or will be, has a timer or was noted.
Excused == timer \/ overtaken \/ untimed
Guarded ==
  /\ core.tone \in LoopTones => core.stop \/ Excused
  /\ delay \in LoopTones => Excused
  /\ \A i \in Places : Kind(i) = "start" /\ queue[i].tone \in LoopTones => Excused

\* After a stop: either it is still to be served and nothing behind it begins a
\* tone, or it has been served and nothing at all does.
StopBehind ==
  \E i \in Places : Kind(i) = "stop" /\ \A j \in Places : i < j => Kind(j) # "loop"
Silent == ~on /\ ~core.busy /\ \A j \in Places : Kind(j) # "loop"
Stopping ==
  quiet =>
    /\ delay = Mute /\ \A i \in Places : Kind(i) # "start"
    /\ ~Repeats
    /\ StopBehind \/ Silent

IInv == Typed /\ Counted /\ Guarded /\ Stopping

-----------------------------------------------------------------------------
(* The queue                                                               *)

\* What is appended
LEMMA Appended ==
  ASSUME Typed, NEW e \in EventType, queue' = Append(queue, e)
  PROVE  /\ queue' \in Seq(EventType)
         /\ \A i \in Places : i \in Places' /\ queue'[i] = queue[i]
         /\ \A i \in Places' : i \in Places \/ (i = Len(queue) + 1 /\ queue'[i] = e)
         /\ Len(queue) + 1 \in Places' /\ queue'[Len(queue) + 1] = e
         /\ Len(queue) \in Nat
BY DEF Typed, Places

\* The first event is taken, and at most one other is put at the end.
LEMMA Taken ==
  ASSUME Typed, queue # <<>>
  PROVE  /\ 1 \in Places /\ Head(queue) = queue[1] /\ Head(queue) \in EventType
         /\ Rest \in Seq(EventType) /\ Len(Rest) \in Nat /\ Len(queue) = Len(Rest) + 1
         /\ \A i \in 1 .. Len(Rest) : i + 1 \in Places /\ 1 < i + 1 /\ Rest[i] = queue[i + 1]
         /\ \A i \in Places : i = 1 \/ (i - 1 \in 1 .. Len(Rest) /\ Rest[i - 1] = queue[i])
<1>1. queue \in Seq(EventType) /\ Len(queue) \in Nat /\ Len(queue) > 0
  BY DEF Typed
<1>2. /\ Rest \in Seq(EventType) /\ Len(Rest) = Len(queue) - 1
      /\ \A i \in 1 .. Len(queue) - 1 : Rest[i] = queue[i + 1]
  BY <1>1 DEF Rest
<1>3. 1 \in Places /\ Head(queue) = queue[1] /\ Head(queue) \in EventType
  BY <1>1 DEF Places
<1> QED
  BY <1>1, <1>2, <1>3 DEF Places

\* What follows the rest of the queue: events that begin nothing
Harmless(s) == s \in Seq(EventType) /\ \A i \in 1 .. Len(s) : s[i].kind \notin {"start", "loop"}

LEMMA Followed ==
  ASSUME Typed, queue # <<>>, NEW s \in Seq(EventType), queue' = Rest \o s
  PROVE  /\ queue' \in Seq(EventType)
         /\ \A i \in Places' :
              \/ i \in Nat /\ i + 1 \in Places /\ 1 < i + 1 /\ queue'[i] = queue[i + 1]
              \/ i \in Nat /\ i > Len(Rest)
                 /\ i - Len(Rest) \in 1 .. Len(s) /\ queue'[i] = s[i - Len(Rest)]
         /\ \A i \in Places : 1 < i => i - 1 \in Places' /\ queue'[i - 1] = queue[i]
                                       /\ i - 1 \in Nat /\ i - 1 <= Len(Rest)
<1>1. /\ Rest \in Seq(EventType) /\ Len(Rest) \in Nat /\ Len(queue) = Len(Rest) + 1
      /\ \A i \in 1 .. Len(Rest) : i + 1 \in Places /\ 1 < i + 1 /\ Rest[i] = queue[i + 1]
  BY Taken
<1>2. /\ queue' \in Seq(EventType) /\ Len(s) \in Nat /\ Len(queue') = Len(Rest) + Len(s)
      /\ \A i \in 1 .. Len(Rest) : queue'[i] = Rest[i]
      /\ \A i \in 1 .. Len(s) : queue'[Len(Rest) + i] = s[i]
  BY <1>1
<1>3. ASSUME NEW i \in Places'
      PROVE  \/ i \in Nat /\ i + 1 \in Places /\ 1 < i + 1 /\ queue'[i] = queue[i + 1]
             \/ i \in Nat /\ i > Len(Rest)
                /\ i - Len(Rest) \in 1 .. Len(s) /\ queue'[i] = s[i - Len(Rest)]
  <2>1. i \in Nat /\ i \in 1 .. Len(Rest) + Len(s)
    BY <1>2, <1>3 DEF Places
  <2>2. CASE i <= Len(Rest)
    BY <1>1, <1>2, <2>1, <2>2
  <2>3. CASE i > Len(Rest)
    <3>1. i - Len(Rest) \in 1 .. Len(s) /\ Len(Rest) + (i - Len(Rest)) = i
      BY <1>1, <1>2, <2>1, <2>3
    <3> QED
      BY <1>2, <2>1, <2>3, <3>1
  <2> QED
    BY <1>1, <2>1, <2>2, <2>3
<1>4. ASSUME NEW i \in Places, 1 < i
      PROVE  i - 1 \in Places' /\ queue'[i - 1] = queue[i] /\ i - 1 \in Nat /\ i - 1 <= Len(Rest)
  <2>1. i \in Nat /\ i <= Len(Rest) + 1 /\ i - 1 \in 1 .. Len(Rest) /\ (i - 1) + 1 = i
    BY <1>1, <1>4 DEF Places
  <2>2. i - 1 \in 1 .. Len(queue')
    BY <1>1, <1>2, <2>1
  <2> QED
    BY <1>1, <1>2, <2>1, <2>2 DEF Places
<1> QED
  BY <1>2, <1>3, <1>4

NoLoop == \A j \in Places : Kind(j) # "loop"

\* Of what a served event leaves: the starts were there before, and so were the
\* stop and what is behind it, unless the stop was the event.
LEMMA Remains ==
  ASSUME Typed, queue # <<>>, NEW s, Harmless(s), queue' = Rest \o s
  PROVE  /\ \A i \in Places' : Kind(i)' = "start" => i + 1 \in Places /\ queue'[i] = queue[i + 1]
         /\ NoLoop => NoLoop'
         /\ StopBehind => StopBehind' \/ (Head(queue).kind = "stop" /\ NoLoop')
<1>1. s \in Seq(EventType) /\ \A k \in 1 .. Len(s) : s[k].kind \notin {"start", "loop"}
  BY DEF Harmless
<1>2. \A i \in Places' :
        \/ i \in Nat /\ i + 1 \in Places /\ 1 < i + 1 /\ queue'[i] = queue[i + 1]
        \/ i \in Nat /\ i > Len(Rest)
           /\ i - Len(Rest) \in 1 .. Len(s) /\ queue'[i] = s[i - Len(Rest)]
  BY <1>1, Followed
<1>3. \A i \in Places : 1 < i => i - 1 \in Places' /\ queue'[i - 1] = queue[i]
                                 /\ i - 1 \in Nat /\ i - 1 <= Len(Rest)
  BY <1>1, Followed
<1>4. \A i \in Places' : Kind(i)' \in {"start", "loop"} =>
        i \in Nat /\ i + 1 \in Places /\ 1 < i + 1 /\ queue'[i] = queue[i + 1]
  BY <1>1, <1>2 DEF Kind
<1>5. NoLoop => NoLoop'
  BY <1>4 DEF NoLoop, Kind
<1>6. ASSUME StopBehind PROVE StopBehind' \/ (Head(queue).kind = "stop" /\ NoLoop')
  <2>1. PICK i \in Places : Kind(i) = "stop" /\ \A j \in Places : i < j => Kind(j) # "loop"
    BY <1>6 DEF StopBehind
  <2>2. i \in Nat
    BY <2>1 DEF Places
  <2>3. CASE i = 1
    <3>1. Head(queue).kind = "stop"
      BY <2>1, <2>3, Taken DEF Kind
    <3>2. NoLoop'
      BY <1>4, <2>1, <2>3 DEF NoLoop, Kind
    <3> QED
      BY <3>1, <3>2
  <2>4. CASE 1 < i
    <3>1. i - 1 \in Places' /\ Kind(i - 1)' = "stop"
      BY <1>3, <2>1, <2>4 DEF Kind
    <3>2. ASSUME NEW j \in Places', i - 1 < j, Kind(j)' = "loop"
          PROVE  FALSE
      <4>1. j \in Nat /\ j + 1 \in Places /\ Kind(j + 1) = "loop"
        BY <1>4, <3>2 DEF Kind
      <4>2. i < j + 1
        BY <2>2, <3>2, <4>1
      <4> QED
        BY <2>1, <4>1, <4>2
    <3> QED
      BY <3>1, <3>2 DEF StopBehind
  <2>5. i >= 1
    BY <2>1 DEF Places
  <2> QED
    BY <2>2, <2>3, <2>4, <2>5
<1> QED
  BY <1>4, <1>5, <1>6

\* An event that is neither a start nor a stop is served; only that of a repeated
\* tone turns the speaker on.
LEMMA ServeQuietly ==
  ASSUME IInv, queue # <<>>, Head(queue).kind # "stop", NEW s, Harmless(s), queue' = Rest \o s,
         UNCHANGED core, AppAlone, on' = on \/ Head(queue).kind = "loop"
  PROVE  Typed' /\ Guarded' /\ Stopping'
<1>1. s \in Seq(EventType)
  BY DEF Harmless
<1>2. /\ UNCHANGED <<core, delay, timer, quiet, overtaken, untimed>>
      /\ Typed
  BY DEF AppAlone, IInv
<1>3. Typed'
  <2>1. queue' \in Seq(EventType)
    BY <1>1, <1>2, Followed
  <2> QED
    BY <1>2, <2>1 DEF Typed
<1>4. /\ \A i \in Places' : Kind(i)' = "start" => i + 1 \in Places /\ queue'[i] = queue[i + 1]
      /\ NoLoop => NoLoop'
      /\ StopBehind => StopBehind' \/ (Head(queue).kind = "stop" /\ NoLoop')
  BY <1>2, Remains
<1>5. Guarded'
  BY <1>2, <1>4 DEF IInv, Guarded, Excused, Kind
<1>6. Stopping'
  <2>1. Silent => on' = on
    BY <1>2, Taken DEF Silent, Kind
  <2>2. Silent => Silent'
    BY <1>2, <1>4, <2>1 DEF Silent, NoLoop
  <2>3. Repeats' = Repeats
    BY <1>2 DEF Repeats
  <2>4. \A i \in Places' : Kind(i)' = "start" => \E j \in Places : Kind(j) = "start"
    BY <1>4 DEF Kind
  <2> QED
    BY <1>2, <1>4, <2>2, <2>3, <2>4 DEF IInv, Stopping
<1> QED
  BY <1>3, <1>5, <1>6

LEMMA Events ==
  /\ Loop \in EventType /\ Prepare \in EventType /\ NextFrame \in EventType /\ Stop \in EventType
  /\ Stop.kind = "stop" /\ Loop.kind = "loop"
  /\ Prepare.kind = "prepare" /\ NextFrame.kind = "next"
  /\ Harmless(<<>>) /\ Harmless(<<Stop>>) /\ Harmless(<<NextFrame>>)
<1>1. /\ Loop \in EventType /\ Prepare \in EventType /\ NextFrame \in EventType /\ Stop \in EventType
      /\ Stop.kind = "stop" /\ Loop.kind = "loop"
      /\ Prepare.kind = "prepare" /\ NextFrame.kind = "next"
  BY DEF Loop, Prepare, NextFrame, Stop, Event, EventType, Kinds
<1> QED
  BY <1>1 DEF Harmless

LEMMA HarmlessRow ==
  ASSUME NEW n \in Nat, NEW e \in EventType, e.kind \notin {"start", "loop"},
         NEW s, Harmless(s)
  PROVE  Harmless([i \in 1 .. n |-> e] \o s) /\ Harmless(s \o [i \in 1 .. n |-> e])
<1> DEFINE r == [i \in 1 .. n |-> e]
<1>1. r \in Seq(EventType) /\ Len(r) = n /\ \A i \in 1 .. n : r[i] = e
  OBVIOUS
<1>2. s \in Seq(EventType) /\ Len(s) \in Nat
      /\ \A i \in 1 .. Len(s) : s[i].kind \notin {"start", "loop"}
  BY DEF Harmless
<1> HIDE DEF r
<1>3. /\ r \o s \in Seq(EventType) /\ s \o r \in Seq(EventType)
      /\ Len(r \o s) = n + Len(s) /\ Len(s \o r) = n + Len(s)
      /\ \A i \in 1 .. n + Len(s) : (r \o s)[i] = IF i <= n THEN r[i] ELSE s[i - n]
      /\ \A i \in 1 .. n + Len(s) : (s \o r)[i] = IF i <= Len(s) THEN s[i] ELSE r[i - Len(s)]
  BY <1>1, <1>2
<1>4. ASSUME NEW i \in 1 .. n + Len(s)
      PROVE  (r \o s)[i].kind \notin {"start", "loop"} /\ (s \o r)[i].kind \notin {"start", "loop"}
  <2>1. i \in 1 .. n \/ i - n \in 1 .. Len(s)
    BY <1>2
  <2>2. i \in 1 .. Len(s) \/ i - Len(s) \in 1 .. n
    BY <1>2
  <2> QED
    BY <1>1, <1>2, <1>3, <2>1, <2>2
<1> QED
  BY <1>3, <1>4 DEF Harmless, r

LEMMA Joined ==
  ASSUME NEW r \in Seq(EventType), NEW a \in Seq(EventType), NEW b \in Seq(EventType),
         NEW e \in EventType
  PROVE  r \o a \o b = r \o (a \o b) /\ Append(r, e) = r \o <<e>> /\ r \o <<>> = r
BY ConcatAssociative, ConcatEmptySeq, AppendIsConcat

-----------------------------------------------------------------------------
(* The steps                                                               *)

Kept == Typed' /\ Counted' /\ Guarded' /\ Stopping'

LEMMA PlayStep == ASSUME IInv, NEW t \in Tones, Play(t) PROVE Kept
<1>1. Typed /\ Stop \in EventType /\ Stop.kind = "stop" /\ queue' = Append(queue, Stop)
  BY Events DEF IInv, Play, EndSpeaker
<1>2. /\ core' = [core EXCEPT !.stop = TRUE] /\ delay' = t /\ quiet' = FALSE
      /\ UNCHANGED <<frames, counter>>
  BY DEF Play, EndSpeaker, pcm
<1>3. core' \in CoreType /\ core'.stop /\ core'.tone = core.tone
  <2>1. core \in CoreType
    BY <1>1 DEF Typed
  <2> QED
    BY <1>2, <2>1 DEF CoreType
<1>4. /\ queue' \in Seq(EventType)
      /\ \A i \in Places : i \in Places' /\ queue'[i] = queue[i]
      /\ \A i \in Places' : i \in Places \/ (i = Len(queue) + 1 /\ queue'[i] = Stop)
  BY <1>1, Appended
<1>5. Typed'
  <2>1. timer' \in BOOLEAN /\ untimed' \in BOOLEAN
    BY <1>1 DEF Play, Typed
  <2>2. overtaken' \in BOOLEAN
    BY DEF Play
  <2> QED
    BY <1>2, <1>3, <1>4, <2>1, <2>2 DEF Typed
<1>6. Counted'
  BY <1>2 DEF IInv, Counted
<1>7. Guarded'
  <2>1. t \in LoopTones => timer' \/ untimed'
    BY AudioAssumption DEF Play
  <2>2. (\E i \in Places : Kind(i) = "start") => overtaken'
    <3>1. DOMAIN queue = Places
      BY <1>1 DEF Typed, Places
    <3> QED
      BY <3>1 DEF Play, Waiting, Kind
  <2>3. \A i \in Places' : Kind(i)' = "start" => i \in Places /\ Kind(i) = "start"
    BY <1>1, <1>4 DEF Kind
  <2> QED
    BY <1>2, <1>3, <2>1, <2>2, <2>3 DEF Guarded, Excused
<1>8. Stopping'
  BY <1>2 DEF Stopping
<1> QED
  BY <1>5, <1>6, <1>7, <1>8 DEF Kept

LEMMA StopToneStep == ASSUME IInv, StopTone PROVE Kept
<1>1. Typed /\ Stop \in EventType /\ Stop.kind = "stop" /\ queue' = Append(queue, Stop)
  BY Events DEF IInv, StopTone, EndSpeaker
<1>2. /\ core' = [core EXCEPT !.stop = TRUE] /\ timer' = FALSE
      /\ quiet' = (~Waiting("start") /\ delay = Mute)
      /\ overtaken' = (overtaken \/ Waiting("start") \/ delay # Mute)
      /\ UNCHANGED <<delay, untimed, frames, counter>>
  BY DEF StopTone, EndSpeaker, pcm
<1>3. core' \in CoreType /\ core'.stop
  <2>1. core \in CoreType
    BY <1>1 DEF Typed
  <2> QED
    BY <1>2, <2>1 DEF CoreType
<1>4. /\ queue' \in Seq(EventType) /\ Len(queue) \in Nat
      /\ \A i \in Places : i \in Places' /\ queue'[i] = queue[i]
      /\ \A i \in Places' : i \in Places \/ (i = Len(queue) + 1 /\ queue'[i] = Stop)
      /\ Len(queue) + 1 \in Places' /\ queue'[Len(queue) + 1] = Stop
  BY <1>1, Appended
<1>5. Typed'
  <2>1. quiet' \in BOOLEAN /\ overtaken' \in BOOLEAN
    BY <1>2
  <2> QED
    BY <1>1, <1>2, <1>3, <1>4, <2>1 DEF Typed
<1>6. Counted'
  BY <1>2 DEF IInv, Counted
<1>7. \A i \in Places' : Kind(i)' = "start" => i \in Places /\ Kind(i) = "start"
  BY <1>1, <1>4 DEF Kind
<1>8. Waiting("start") <=> \E i \in Places : Kind(i) = "start"
  <2>1. DOMAIN queue = Places
    BY <1>1 DEF Typed, Places
  <2> QED
    BY <2>1 DEF Waiting, Kind
<1>9. Guarded'
  <2>1. delay \in LoopTones => overtaken'
    BY <1>2, AudioAssumption DEF Tones
  <2> QED
    BY <1>2, <1>3, <1>7, <1>8, <2>1 DEF Guarded, Excused
<1>10. Stopping'
  <2>1. StopBehind'
    <3> DEFINE n == Len(queue) + 1
    <3>1. n \in Places' /\ queue'[n].kind = "stop" /\ \A j \in Places' : ~(n < j)
      BY <1>1, <1>4 DEF Places
    <3> HIDE DEF n
    <3>2. \E i \in Places' : queue'[i].kind = "stop" /\ \A j \in Places' : i < j => queue'[j].kind # "loop"
      BY <3>1
    <3> QED
      BY <3>2 DEF StopBehind, Kind
  <2>2. ~Repeats'
    BY <1>3 DEF Repeats
  <2> QED
    BY <1>2, <1>7, <1>8, <2>1, <2>2 DEF Stopping
<1> QED
  BY <1>5, <1>6, <1>9, <1>10 DEF Kept

LEMMA DelayStep == ASSUME IInv, DelayEnds PROVE Kept
<1> DEFINE e == Event("start", delay)
<1>1. /\ Typed /\ delay # Mute /\ delay' = Mute /\ queue' = Append(queue, e)
      /\ UNCHANGED <<timer, quiet, overtaken, untimed, core, frames, counter>>
  BY DEF IInv, DelayEnds, player, pcm
<1>2. e \in EventType /\ e.tone = delay
  BY <1>1 DEF Typed, Event, EventType, Kinds
<1> HIDE DEF e
<1>3. /\ queue' \in Seq(EventType)
      /\ \A i \in Places' : (i \in Places /\ queue'[i] = queue[i])
                            \/ (i = Len(queue) + 1 /\ queue'[i] = e)
  BY <1>1, <1>2, Appended
<1>4. Typed'
  BY <1>1, <1>3 DEF Typed
<1>5. Counted'
  BY <1>1 DEF IInv, Counted
<1>6. Guarded'
  <2>1. Mute \notin LoopTones
    BY AudioAssumption DEF Tones
  <2>2. \A i \in Places' : Kind(i)' = "start" /\ queue'[i].tone \in LoopTones => Excused
    BY <1>2, <1>3 DEF IInv, Guarded, Kind
  <2> QED
    BY <1>1, <2>1, <2>2 DEF IInv, Guarded, Excused
<1>7. Stopping'
  BY <1>1 DEF IInv, Stopping
<1> QED
  BY <1>4, <1>5, <1>6, <1>7 DEF Kept


\* A served event that begins the tone of the core: its first event is behind the
\* rest, and what the interrupt has put there behind that.
LEMMA BeginStep ==
  ASSUME Typed, Counted, queue # <<>>, Begin
  PROVE  /\ \E s : Harmless(s) /\ queue' = Rest \o s
         /\ Counted'
<1>1. PICK n \in 0 .. (IF irq /\ hold THEN frames ELSE 0) :
        /\ queue' = Rest \o <<Prepare>> \o [i \in 1 .. n |-> Stop]
        /\ frames' = frames - n /\ counter' = counter - n
  BY DEF Begin
<1>2. n \in Nat /\ n <= frames
  BY <1>1 DEF Counted
<1> DEFINE r == [i \in 1 .. n |-> Stop]
           p == <<Prepare>>
<1>3. p \in Seq(EventType) /\ Harmless(p)
  BY Events DEF Harmless
<1>4. Harmless(p \o r)
  BY <1>2, <1>3, HarmlessRow, Events
<1>5. r \in Seq(EventType)
  BY <1>2, Events
<1>6. Rest \in Seq(EventType)
  BY Taken
<1>7. queue' = (Rest \o p) \o r
  BY <1>1
<1> HIDE DEF p, r
<1>8. queue' = Rest \o (p \o r)
  BY <1>3, <1>5, <1>6, <1>7, Events, Joined
<1>9. Counted'
  BY <1>1, <1>2 DEF Counted
<1> QED
  BY <1>4, <1>8, <1>9

\* A start that is served: nothing is quiet, and its guard was the event's.
LEMMA StartStep == ASSUME IInv, NEW room \in BOOLEAN, Start(room) PROVE Kept
<1>1. /\ Typed /\ Counted /\ queue # <<>> /\ Head(queue).kind = "start"
      /\ core' = [busy |-> TRUE, tone |-> Head(queue).tone, stop |-> FALSE]
      /\ UNCHANGED <<delay, timer, quiet, overtaken, untimed>>
  BY DEF IInv, Start, Serving, AppAlone
<1>2. /\ 1 \in Places /\ Head(queue) = queue[1] /\ Head(queue) \in EventType
  BY <1>1, Taken
<1>3. \E s : Harmless(s) /\ queue' = Rest \o s
  <2>1. CASE CanBegin(room)
    BY <1>1, <2>1, BeginStep DEF Start
  <2>2. CASE ~CanBegin(room)
    <3>1. queue' = Rest /\ Rest \in Seq(EventType)
      BY <1>1, <2>2, Taken DEF Start
    <3>2. Rest = Rest \o <<>>
      BY <3>1, ConcatEmptySeq
    <3> QED
      BY <3>1, <3>2, Events
  <2> QED
    BY <2>1, <2>2
<1>4. Counted'
  <2>1. CASE CanBegin(room)
    BY <1>1, <2>1, BeginStep DEF Start
  <2>2. CASE ~CanBegin(room)
    BY <1>1, <2>2 DEF Start, pcm, Counted
  <2> QED
    BY <2>1, <2>2
<1>5. PICK s : Harmless(s) /\ queue' = Rest \o s
  BY <1>3
<1>6. \A i \in Places' : Kind(i)' = "start" => i + 1 \in Places /\ queue'[i] = queue[i + 1]
  BY <1>1, <1>5, Remains
<1>7. Typed'
  <2>1. core' \in CoreType
    BY <1>1, <1>2 DEF CoreType, EventType
  <2>2. queue' \in Seq(EventType)
    BY <1>1, <1>5, Followed DEF Harmless
  <2> QED
    BY <1>1, <2>1, <2>2 DEF Typed
<1>8. Guarded'
  <2>1. Head(queue).tone \in LoopTones => Excused
    BY <1>1, <1>2 DEF IInv, Guarded, Kind
  <2>2. core'.tone = Head(queue).tone
    BY <1>1
  <2> QED
    BY <1>1, <1>6, <2>1, <2>2 DEF IInv, Guarded, Excused, Kind
<1>9. Stopping'
  <2>1. ~quiet
    BY <1>1, <1>2 DEF IInv, Stopping, Kind
  <2> QED
    BY <1>1, <2>1 DEF Stopping
<1> QED
  BY <1>4, <1>7, <1>8, <1>9 DEF Kept

LEMMA LoopStep == ASSUME IInv, NEW room \in BOOLEAN, LoopAgain(room) PROVE Kept
<1>1. /\ Typed /\ Counted /\ queue # <<>> /\ Head(queue).kind = "loop"
      /\ UNCHANGED core /\ AppAlone
  BY DEF IInv, LoopAgain, Serving
<1>2. (\E s : Harmless(s) /\ queue' = Rest \o s) /\ Counted'
  <2>1. CASE CanBegin(room)
    BY <1>1, <2>1, BeginStep DEF LoopAgain
  <2>2. CASE ~CanBegin(room)
    <3>1. queue' = Rest /\ Rest \in Seq(EventType)
      BY <1>1, <2>2, Taken DEF LoopAgain
    <3>2. Rest = Rest \o <<>>
      BY <3>1, ConcatEmptySeq
    <3>3. Counted'
      BY <1>1, <2>2 DEF LoopAgain, pcm, Counted
    <3> QED
      BY <3>1, <3>2, <3>3, Events
  <2> QED
    BY <2>1, <2>2
<1>3. PICK s : Harmless(s) /\ queue' = Rest \o s
  BY <1>2
<1> QED
  BY <1>1, <1>2, <1>3, ServeQuietly DEF Kept

\* The events after which the core and the application are as they were
LEMMA QuietStep ==
  ASSUME IInv, Serving("start") \/ Serving("prepare") \/ Serving("next"),
         NEW s, Harmless(s), queue' = Rest \o s,
         UNCHANGED core, AppAlone, on' = on, Counted'
  PROVE  Kept
<1>1. queue # <<>> /\ Head(queue).kind # "stop"
  BY DEF Serving
<1> QED
  BY <1>1, ServeQuietly DEF Kept

LEMMA AppStays == ASSUME UNCHANGED app PROVE AppAlone
BY DEF app, AppAlone

LEMMA Behind ==
  ASSUME Typed, queue # <<>>
  PROVE  /\ Rest \in Seq(EventType) /\ Rest \o <<>> = Rest
         /\ \A e \in EventType : Append(Rest, e) = Rest \o <<e>>
         /\ FrameTaken \in EventType /\ Harmless(<<FrameTaken>>)
<1>1. Rest \in Seq(EventType)
  BY Taken
<1>2. Rest \o <<>> = Rest
  BY <1>1, ConcatEmptySeq
<1>3. \A e \in EventType : Append(Rest, e) = Rest \o <<e>>
  BY <1>1, AppendIsConcat
<1>4. FrameTaken \in EventType /\ Harmless(<<FrameTaken>>)
  BY Events DEF FrameTaken
<1> QED
  BY <1>1, <1>2, <1>3, <1>4


LEMMA StartBusyStep == ASSUME IInv, StartBusy PROVE Kept
<1>1. /\ Typed /\ queue # <<>> /\ Serving("start") /\ queue' = Rest
      /\ UNCHANGED core /\ AppAlone /\ on' = on
  BY DEF IInv, StartBusy, Serving, player
<1>2. Counted'
  BY DEF IInv, StartBusy, Counted, pcm
<1>3. queue' = Rest \o <<>>
  BY <1>1, Behind
<1> QED
  BY <1>1, <1>2, <1>3, Events, QuietStep

LEMMA PrepareStep == ASSUME IInv, PrepareTone PROVE Kept
<1>1. /\ Typed /\ queue # <<>> /\ Serving("prepare") /\ queue' = Append(Rest, FrameTaken)
      /\ UNCHANGED core /\ AppAlone /\ on' = on
  BY AppStays DEF IInv, PrepareTone, Serving
<1>2. Counted'
  BY DEF PrepareTone, Counted
<1>3. queue' = Rest \o <<FrameTaken>> /\ Harmless(<<FrameTaken>>)
  BY <1>1, Behind
<1> QED
  BY <1>1, <1>2, <1>3, QuietStep

LEMMA HeldStep == ASSUME IInv, DecodeHeld PROVE Kept
<1>1. /\ Typed /\ queue # <<>> /\ Serving("next") /\ queue' = Append(Rest, Stop)
      /\ UNCHANGED core /\ AppAlone /\ on' = on
  BY AppStays DEF IInv, DecodeHeld, Serving
<1>2. Counted'
  BY DEF IInv, DecodeHeld, Counted, pcm
<1>3. queue' = Rest \o <<Stop>> /\ Harmless(<<Stop>>)
  BY <1>1, Behind, Events
<1> QED
  BY <1>1, <1>2, <1>3, QuietStep

LEMMA AwaitStep == ASSUME IInv, AwaitEnd PROVE Kept
<1>1. /\ Typed /\ queue # <<>> /\ Serving("next") /\ UNCHANGED core /\ AppAlone /\ on' = on
  BY AppStays DEF IInv, AwaitEnd, Serving
<1>2. Counted'
  BY DEF IInv, AwaitEnd, Counted, pcm
<1>3. \E s : Harmless(s) /\ queue' = Rest \o s
  <2>1. queue' = Append(Rest, Stop) \/ queue' = Rest
    BY DEF AwaitEnd
  <2> QED
    BY <1>1, <2>1, Behind, Events
<1> QED
  BY <1>1, <1>2, <1>3, QuietStep

\* A frame is added: the list is never longer than its counter says.
LEMMA DecodeStep == ASSUME IInv, NEW last \in BOOLEAN, Decode(last) PROVE Kept
<1>1. /\ Typed /\ Counted /\ queue # <<>> /\ Serving("next") /\ UNCHANGED core /\ AppAlone
      /\ on' = on
  BY AppStays DEF IInv, Decode, Serving
<1>2. PICK lost \in 0 .. (IF irq /\ on THEN frames + 1 ELSE 0) :
        /\ frames' = frames + 1 - lost /\ counter' = counter + 1
        /\ queue' = Rest \o [i \in 1 .. lost |-> NextFrame]
                         \o (IF state = "buffering" /\ counter' <= 2 THEN <<NextFrame>> ELSE <<>>)
  BY DEF Decode, AddFrame
<1>3. lost \in Nat /\ lost <= frames + 1
  BY <1>1, <1>2 DEF Counted
<1>4. Counted'
  BY <1>1, <1>2, <1>3 DEF Counted
<1> DEFINE r == [i \in 1 .. lost |-> NextFrame]
           a == IF state = "buffering" /\ counter' <= 2 THEN <<NextFrame>> ELSE <<>>
<1>5. Harmless(a) /\ a \in Seq(EventType)
  BY Events DEF Harmless
<1>6. Harmless(r \o a)
  BY <1>3, <1>5, HarmlessRow, Events
<1>7. r \in Seq(EventType)
  BY <1>3, Events
<1>8. queue' = Rest \o r \o a
  BY <1>2
<1> HIDE DEF r, a
<1>9. queue' = Rest \o (r \o a)
  BY <1>1, <1>5, <1>7, <1>8, Behind, Events, Joined
<1> QED
  BY <1>1, <1>4, <1>6, <1>9, QuietStep

\* A stop that is served: what is repeated was not stopped.
LEMMA StopStep == ASSUME IInv, StopPlaying PROVE Kept
<1>1. /\ Typed /\ Counted /\ queue # <<>> /\ Head(queue).kind = "stop"
      /\ frames' = 0 /\ counter' = counter /\ on' = FALSE
      /\ UNCHANGED <<delay, timer, quiet, overtaken, untimed>>
  BY DEF IInv, StopPlaying, Serving, AppAlone
<1>2. Counted'
  BY <1>1 DEF Counted
<1>3. CASE Repeats
  <2>1. core' = core /\ queue' = Rest \o <<Loop>> /\ ~quiet
    BY <1>1, <1>3, Behind, Events DEF StopPlaying, IInv, Stopping
  <2> DEFINE s == <<Loop>>
  <2>2. /\ s \in Seq(EventType) /\ \A i \in 1 .. Len(s) : s[i].kind # "start"
    BY Events
  <2> HIDE DEF s
  <2>3. queue' = Rest \o s
    BY <2>1 DEF s
  <2>4. /\ queue' \in Seq(EventType)
        /\ \A i \in Places' : Kind(i)' = "start" => i + 1 \in Places /\ queue'[i] = queue[i + 1]
    BY <1>1, <2>2, <2>3, Followed DEF Kind
  <2>5. Typed'
    BY <1>1, <2>1, <2>4 DEF Typed
  <2>6. Guarded'
    BY <1>1, <2>1, <2>4 DEF IInv, Guarded, Excused, Kind
  <2>7. Stopping'
    BY <1>1, <2>1 DEF Stopping
  <2> QED
    BY <1>2, <2>5, <2>6, <2>7 DEF Kept
<1>4. CASE ~Repeats
  <2>1. core' = NoCore /\ queue' = Rest \o <<>> /\ Harmless(<<>>)
    BY <1>1, <1>4, Behind, Events DEF StopPlaying
  <2>2. /\ \A i \in Places' : Kind(i)' = "start" => i + 1 \in Places /\ queue'[i] = queue[i + 1]
        /\ NoLoop => NoLoop'
        /\ StopBehind => StopBehind' \/ NoLoop'
    BY <1>1, <2>1, Remains
  <2>3. core' \in CoreType /\ core'.tone = Mute /\ ~core'.busy
    BY <2>1 DEF NoCore, CoreType
  <2>4. queue' \in Seq(EventType)
    BY <1>1, <2>1, Followed DEF Harmless
  <2>5. Typed'
    BY <1>1, <2>3, <2>4 DEF Typed
  <2>6. Mute \notin LoopTones
    BY AudioAssumption DEF Tones
  <2>7. Guarded'
    BY <1>1, <2>2, <2>3, <2>6 DEF IInv, Guarded, Excused, Kind
  <2>8. Stopping'
    <3>1. NoLoop' => Silent'
      BY <1>1, <2>3 DEF NoLoop, Silent
    <3>2. ~Repeats'
      BY <2>3, <2>6 DEF Repeats
    <3>3. StopBehind \/ Silent => StopBehind' \/ Silent'
      BY <2>2, <3>1 DEF Silent, NoLoop
    <3> QED
      BY <1>1, <2>2, <3>2, <3>3 DEF IInv, Stopping, Kind
  <2> QED
    BY <1>2, <2>5, <2>7, <2>8 DEF Kept
<1> QED
  BY <1>3, <1>4

\* The interrupt takes a frame, if the list has one.
LEMMA InterruptStep == ASSUME IInv, Interrupt PROVE Kept
<1>1. /\ Typed /\ Counted /\ frames > 0 /\ frames' = frames - 1 /\ counter' = counter - 1
      /\ queue' = Append(queue, FrameTaken) /\ on
      /\ UNCHANGED <<delay, timer, quiet, overtaken, untimed, core, on>>
  BY DEF IInv, Interrupt, app, player
<1>2. FrameTaken \in EventType /\ FrameTaken.kind \in {"next", "stop"}
  BY Events DEF FrameTaken
<1>3. /\ queue' \in Seq(EventType)
      /\ \A i \in Places : i \in Places' /\ queue'[i] = queue[i]
      /\ \A i \in Places' : (i \in Places /\ queue'[i] = queue[i]) \/ queue'[i] = FrameTaken
  <2>1. \A i \in Places' : i \in Places \/ queue'[i] = FrameTaken
    BY <1>1, <1>2, Appended
  <2> QED
    BY <1>1, <1>2, <2>1, Appended
<1>4. Typed'
  BY <1>1, <1>3 DEF Typed
<1>5. Counted'
  BY <1>1 DEF Counted
<1>6. \A i \in Places' : Kind(i)' \in {"start", "loop"} => i \in Places /\ queue'[i] = queue[i]
  BY <1>2, <1>3 DEF Kind
<1>7. Guarded'
  BY <1>1, <1>6 DEF IInv, Guarded, Excused, Kind
<1>8. Stopping'
  <2>1. StopBehind => StopBehind'
    BY <1>3, <1>6 DEF StopBehind, Kind
  <2>2. ~Silent
    BY <1>1 DEF Silent
  <2>3. Repeats' = Repeats
    BY <1>1 DEF Repeats
  <2> QED
    BY <1>1, <1>6, <2>1, <2>2, <2>3 DEF IInv, Stopping, Kind
<1> QED
  BY <1>4, <1>5, <1>7, <1>8 DEF Kept


-----------------------------------------------------------------------------
(* The theorems                                                            *)

LEMMA Initially == ASSUME Init PROVE IInv
<1>1. queue = <<>> /\ core = NoCore /\ delay = Mute /\ frames = 0 /\ counter = 0 /\ ~quiet
      /\ timer = FALSE /\ quiet = FALSE /\ overtaken = FALSE /\ untimed = FALSE
  BY DEF Init
<1>2. Mute \notin LoopTones
  BY AudioAssumption DEF Tones
<1>3. Typed
  <2>1. core \in CoreType
    BY <1>1 DEF NoCore, CoreType
  <2>2. queue \in Seq(EventType)
    BY <1>1
  <2> QED
    BY <1>1, <2>1, <2>2 DEF Typed
<1>4. Counted
  BY <1>1 DEF Counted
<1>5. Guarded
  BY <1>1, <1>2 DEF Guarded, NoCore, Places
<1>6. Stopping
  BY <1>1 DEF Stopping
<1> QED
  BY <1>3, <1>4, <1>5, <1>6 DEF IInv

LEMMA Step == ASSUME IInv, [Next]_vars PROVE IInv'
<1> SUFFICES Kept
  BY DEF Kept, IInv
<1>1. CASE Call
  BY <1>1, PlayStep, StopToneStep DEF Call
<1>2. CASE Timeout
  <2>1. Speeding \in Tones
    BY AudioAssumption
  <2> QED
    BY <1>2, <2>1, PlayStep, StopToneStep DEF Timeout
<1>3. CASE DelayEnds
  BY <1>3, DelayStep
<1>4. CASE Serve
  BY <1>4, StartBusyStep, PrepareStep, HeldStep, AwaitStep, StopStep, StartStep, LoopStep,
     DecodeStep DEF Serve
<1>5. CASE Interrupt
  BY <1>5, InterruptStep
<1>6. CASE UNCHANGED vars
  BY <1>6 DEF vars, app, player, pcm, IInv, Kept, Typed, Counted, Guarded, Excused, Stopping,
     StopBehind, Silent, Repeats, Places, Kind
<1> QED
  BY <1>1, <1>2, <1>3, <1>4, <1>5, <1>6 DEF Next

\* The list is never longer than its counter says (port_audio.c:392 and :249), what
\* repeats is guarded, and a stop leaves no tone behind it.
THEOREM InvariantHolds == Spec => []IInv
BY Initially, Step, PTL DEF Spec

\* tuya_kel_port_audio.c:429: a tone ends by itself when the list is empty, since
\* the counter is zero and the list is no longer.
THEOREM WholeTones == Spec => EndsWhole
<1>1. IInv /\ [Next]_vars => [ended' /\ ~ended => frames = 0]_vars
  <2> SUFFICES ASSUME IInv, Next, ended', ~ended PROVE frames = 0
    BY DEF vars, player
  <2>1. AwaitEnd
    BY DEF Next, Call, Timeout, Play, StopTone, DelayEnds, Serve, StartBusy, Start, LoopAgain,
       PrepareTone, Decode, DecodeHeld, StopPlaying, Interrupt, player
  <2>2. counter = 0
    BY <2>1 DEF AwaitEnd, AllTaken
  <2> QED
    BY <2>2 DEF IInv, Counted
<1> QED
  BY <1>1, InvariantHolds, PTL DEF Spec, EndsWhole

\* tuya_kel_port_audio.c:459: the player that was stopped is silent.
THEOREM SilentOnceStopped == Spec => []StoppedIsSilent
<1>1. IInv => StoppedIsSilent
  <2> SUFFICES ASSUME IInv, quiet, ~Waiting("stop") PROVE ~on /\ ~core.busy
    BY DEF StoppedIsSilent
  <2>1. DOMAIN queue = Places
    BY DEF IInv, Typed, Places
  <2>2. ~StopBehind
    BY <2>1 DEF StopBehind, Waiting, Kind
  <2> QED
    BY <2>2 DEF IInv, Stopping, Silent
<1> QED
  BY <1>1, InvariantHolds, PTL

\* locdef_audio.c:184: what is repeated has a timer that ends it.
THEOREM LoopsAreTimed == Spec => []RepeatedIsTimed
<1>1. IInv => RepeatedIsTimed
  BY DEF IInv, Guarded, Excused, RepeatedIsTimed
<1> QED
  BY <1>1, InvariantHolds, PTL

-----------------------------------------------------------------------------
(* The types                                                               *)

Rested ==
  /\ cur \in Tones \cup {Mute}
  /\ hold \in BOOLEAN /\ state \in States /\ ended \in BOOLEAN
  /\ buffer \in BOOLEAN /\ irq \in BOOLEAN /\ on \in BOOLEAN /\ calls \in 0 .. MaxCalls

LEMMA RestedStep == ASSUME Rested, IInv, [Next]_vars PROVE Rested'
<1>1. MaxCalls \in Nat /\ Speeding \in Tones
  BY AudioAssumption
<1>2. ASSUME NEW t, Callback(t) PROVE cur' \in Tones \cup {Mute}
  BY <1>2 DEF Callback, Rested
<1>3. ASSUME NEW t \in Tones, Play(t), calls < MaxCalls, calls' = calls + 1 PROVE Rested'
  BY <1>1, <1>3 DEF Play, EndSpeaker, Rested
<1>4. ASSUME StopTone, calls < MaxCalls, calls' = calls + 1 PROVE Rested'
  BY <1>1, <1>4 DEF StopTone, EndSpeaker, Rested
<1>5. CASE DelayEnds
  BY <1>5 DEF DelayEnds, Rested, player
<1>6. CASE Serve
  <2>1. CASE StartBusy
    BY <1>2, <2>1 DEF StartBusy, AppAlone, player, Rested
  <2>2. CASE PrepareTone
    BY <2>2 DEF PrepareTone, app, Rested, States
  <2>3. CASE DecodeHeld
    BY <2>3 DEF DecodeHeld, app, Rested
  <2>4. CASE AwaitEnd
    BY <2>4 DEF AwaitEnd, app, Rested
  <2>5. CASE StopPlaying
    BY <1>2, <2>5 DEF StopPlaying, AppAlone, Rested, States
  <2>6. ASSUME NEW room \in BOOLEAN, Start(room) PROVE Rested'
    <3>1. CASE CanBegin(room)
      BY <2>6, <3>1 DEF Start, Begin, AppAlone, Rested
    <3>2. CASE ~CanBegin(room)
      BY <1>2, <2>6, <3>2 DEF Start, AppAlone, Rested
    <3> QED
      BY <3>1, <3>2
  <2>7. ASSUME NEW room \in BOOLEAN, LoopAgain(room) PROVE Rested'
    <3>1. CASE CanBegin(room)
      BY <2>7, <3>1 DEF LoopAgain, Begin, AppAlone, Rested
    <3>2. CASE ~CanBegin(room)
      BY <1>2, <2>7, <3>2 DEF LoopAgain, AppAlone, Rested
    <3> QED
      BY <3>1, <3>2
  <2>8. ASSUME NEW last \in BOOLEAN, Decode(last) PROVE Rested'
    <3>1. state' \in States /\ irq' \in BOOLEAN
      BY <2>8 DEF Decode, AddFrame, States, Rested
    <3> QED
      BY <2>8, <3>1 DEF Decode, app, Rested
  <2> QED
    BY <1>6, <2>1, <2>2, <2>3, <2>4, <2>5, <2>6, <2>7, <2>8 DEF Serve
<1>7. CASE Interrupt
  BY <1>7 DEF Interrupt, app, player, Rested
<1>8. CASE UNCHANGED vars
  BY <1>8 DEF vars, app, player, Rested
<1> QED
  BY <1>1, <1>3, <1>4, <1>5, <1>6, <1>7, <1>8 DEF Next, Call, Timeout

\* Type correctness; the counter never falls below zero.
THEOREM TypeCorrect == Spec => []TypeOK
<1>1. Init => Rested
  <2> SUFFICES ASSUME Init PROVE Rested
    OBVIOUS
  <2>1. MaxCalls \in Nat /\ calls = 0 /\ cur = Mute /\ state = "idle"
    BY AudioAssumption DEF Init
  <2>2. calls \in 0 .. MaxCalls
    BY <2>1
  <2>3. state \in States
    BY <2>1 DEF States
  <2> QED
    BY <2>1, <2>2, <2>3 DEF Init, Rested
<1>2. IInv /\ Rested => TypeOK
  BY DEF IInv, Typed, Counted, Rested, TypeOK, EventType, Kinds, CoreType
<1> QED
  BY <1>1, <1>2, RestedStep, InvariantHolds, PTL DEF Spec
=============================================================================
