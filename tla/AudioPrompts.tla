------------------------------ MODULE AudioPrompts ------------------------------
(***************************************************************************)
(* The tones of the meter.  The application stops what is playing, asks    *)
(* for a tone and waits 100 ms; a timer of 100 ms then posts the start to  *)
(* the task of the player, which serves its events in turn.  The interrupt *)
(* of the speaker takes the decoded frames and asks for more.              *)
(*                                                                         *)
(* The frames of a tone are only counted, and any of them may be the last: *)
(* what a decoder reads may be the file of another tone.                   *)
(***************************************************************************)
EXTENDS Integers, Sequences

CONSTANTS
  LoopTones,  \* those that are repeated, until a timer of the application fires
  OnceTones,  \* those that are played once
  Timed,      \* the tones whose timer stops them, or has them played again
  Speeding,   \* TONE_SPEEDING
  MaxCalls,   \* bound: how often the application plays or stops
  MaxLost,    \* bound: how many decrements of the counter are lost
  MaxPending  \* bound: how many frames and events there are when one is decoded

Mute == "mute"
Tones == LoopTones \cup OnceTones

ASSUME AudioAssumption ==
  /\ Mute \notin Tones /\ LoopTones \cap OnceTones = {}
  /\ LoopTones \subseteq Timed /\ Timed \subseteq Tones /\ Speeding \in OnceTones \cap Timed
  /\ MaxCalls \in Nat /\ MaxLost \in Nat /\ MaxPending \in Nat

VARIABLES
  cur,      \* g_cur_play_tone
  timer,    \* s_audio_player_timer runs
  delay,    \* s_start_delay_timer: the tone it starts (s_audio_temp_buff), or Mute
  queue,    \* the events of the player's task
  core,     \* s_audio_core: the tone, or Mute for what memset leaves
  hold,     \* s_decoder_hold_flag
  state,    \* s_decodeTASKState
  ended,    \* s_stop_flag
  buffer,   \* s_sbc_buff is allocated
  frames,   \* how many frames pcm_buffer_list has
  counter,  \* pcm_buffer_counter
  irq,      \* the speaker's interrupt is enabled
  on,       \* the speaker and its amplifier are on
  calls,    \* how often the application has played or stopped
  quiet,    \* history: it stopped the player and has asked for nothing since
  overtaken,\* history: it stopped the player while a start was on its way
  untimed   \* history: a tone found no timer in the pool

app == <<cur, timer, delay, calls, quiet, overtaken, untimed>>
pcm == <<frames, counter>>
player == <<core, hold, state, ended, buffer, irq, on>>
vars == <<app, queue, player, pcm>>

Event(k, t) == [kind |-> k, tone |-> t]
Loop == Event("loop", Mute)
Prepare == Event("prepare", Mute)
NextFrame == Event("next", Mute)
Stop == Event("stop", Mute)
NoCore == [busy |-> FALSE, tone |-> Mute, stop |-> FALSE]

Init ==
  /\ cur = Mute /\ timer = FALSE /\ delay = Mute /\ queue = <<>>
  /\ core = NoCore /\ hold = FALSE /\ state = "idle" /\ ended = FALSE
  /\ buffer = FALSE /\ frames = 0 /\ counter = 0 /\ irq = FALSE /\ on = FALSE
  /\ calls = 0
  /\ quiet = FALSE /\ overtaken = FALSE /\ untimed = FALSE

Waiting(kind) == \E i \in DOMAIN queue : queue[i].kind = kind

-----------------------------------------------------------------------------
(* The application                                                         *)

\* ty_end_speaker
EndSpeaker ==
  /\ core' = [core EXCEPT !.stop = TRUE]
  /\ hold' = TRUE
  /\ queue' = Append(queue, Stop)

\* Mutant: a timer that runs is deleted and none is made in its place.
PlayTimerLost(t) ==
  /\ EndSpeaker
  /\ cur' = t /\ delay' = t
  /\ timer' = (IF t \in Timed THEN ~timer ELSE timer)
  /\ overtaken' = (overtaken \/ Waiting("start"))
  /\ quiet' = FALSE
  /\ UNCHANGED <<untimed, state, ended, buffer, irq, on, pcm>>

\* locdef_dev_audio_play
Play(t) ==
  /\ EndSpeaker
  /\ cur' = t /\ delay' = t
  /\ \/ t \notin Timed /\ UNCHANGED <<timer, untimed>>
     \/ t \in Timed /\ timer' = TRUE /\ UNCHANGED untimed
     \/ t \in Timed /\ timer' = FALSE /\ untimed' = TRUE
  /\ overtaken' = (overtaken \/ Waiting("start"))
  /\ quiet' = FALSE
  /\ UNCHANGED <<state, ended, buffer, irq, on, pcm>>

\* locdef_dev_audio_stop
StopTone ==
  /\ EndSpeaker
  /\ cur' = Mute /\ timer' = FALSE
  /\ overtaken' = (overtaken \/ Waiting("start") \/ delay # Mute)
  /\ quiet' = (~Waiting("start") /\ delay = Mute)
  /\ UNCHANGED <<delay, untimed, state, ended, buffer, irq, on, pcm>>

\* The state machine's callbacks and the data points call them.
Call ==
  /\ calls < MaxCalls /\ calls' = calls + 1
  /\ StopTone \/ \E t \in Tones : Play(t)

\* locdef_audio_player_timeout_cb
Timeout ==
  /\ timer
  /\ IF cur = Speeding THEN Play(Speeding) ELSE StopTone
  /\ calls < MaxCalls /\ calls' = calls + 1

\* ty_play_start_delay_timeout_cb
DelayEnds ==
  /\ delay # Mute /\ delay' = Mute
  /\ queue' = Append(queue, Event("start", delay))
  /\ UNCHANGED <<cur, timer, calls, quiet, overtaken, untimed, player, pcm>>

-----------------------------------------------------------------------------
(* The player's task                                                       *)

Serving(kind) == queue # <<>> /\ Head(queue).kind = kind
Rest == Tail(queue)

\* tuya_audio_once_player_cb, for a tone that is not repeated
Callback(t) ==
  cur' = IF t \in OnceTones /\ cur # Speeding THEN Mute ELSE cur
AppAlone == UNCHANGED <<timer, delay, calls, quiet, overtaken, untimed>>

\* ty_decoder_play_next_frame
FrameTaken == IF hold THEN Stop ELSE NextFrame

\* ty_audio_play_with_id, with a buffer: its interrupt may come in before the
\* player is no longer held.
Begin ==
  /\ buffer' = TRUE /\ on' = TRUE /\ hold' = FALSE
  /\ \E n \in 0 .. (IF irq /\ hold THEN frames ELSE 0) :
       /\ queue' = Rest \o <<Prepare>> \o [i \in 1 .. n |-> Stop]
       /\ frames' = frames - n /\ counter' = counter - n
CanBegin(room) == ~buffer /\ room

StartBusy ==
  /\ Serving("start") /\ core.busy
  /\ Callback(Head(queue).tone) /\ queue' = Rest
  /\ AppAlone /\ UNCHANGED <<player, pcm>>

Start(room) ==
  /\ Serving("start") /\ ~core.busy
  /\ core' = [busy |-> TRUE, tone |-> Head(queue).tone, stop |-> FALSE]
  /\ IF CanBegin(room) THEN Begin /\ UNCHANGED cur
     ELSE /\ Callback(Head(queue).tone) /\ queue' = Rest
          /\ UNCHANGED <<buffer, on, hold, pcm>>
  /\ AppAlone /\ UNCHANGED <<state, ended, irq>>

LoopAgain(room) ==
  /\ Serving("loop")
  /\ IF CanBegin(room) THEN Begin /\ UNCHANGED cur
     ELSE /\ Callback(core.tone) /\ queue' = Rest
          /\ UNCHANGED <<buffer, on, hold, pcm>>
  /\ AppAlone /\ UNCHANGED <<core, state, ended, irq>>

\* DECODER_EVENT_PREPARE
PrepareTone ==
  /\ Serving("prepare")
  /\ frames' = 0 /\ counter' = 0 /\ ended' = FALSE
  /\ state' = "buffering"
  /\ queue' = Append(Rest, FrameTaken)
  /\ UNCHANGED <<app, core, hold, buffer, irq, on>>

\* A frame is put on the list and counted; the interrupt may take frames between
\* the load and the store of the counter, which is then too high.
AddFrame(last) ==
  \E lost \in 0 .. (IF irq /\ on THEN frames + 1 ELSE 0) :
    /\ frames' = frames + 1 - lost
    /\ counter' = counter + 1
    /\ queue' = Rest \o [i \in 1 .. lost |-> NextFrame]
                     \o (IF state = "buffering" /\ counter' <= 2 THEN <<NextFrame>> ELSE <<>>)
    /\ counter' - frames' <= MaxLost /\ frames' + Len(queue') <= MaxPending
    /\ irq' = (irq \/ (state = "buffering" /\ counter' > 2))
    /\ state' = IF last THEN "waiting_end"
                ELSE IF state = "buffering" /\ counter' > 2 THEN "playing" ELSE state

\* ty_decoder_play_next_frame_handler
Decode(last) ==
  /\ Serving("next") /\ state \in {"buffering", "playing"} /\ ~hold
  /\ AddFrame(last)
  /\ UNCHANGED <<app, core, hold, ended, buffer, on>>

DecodeHeld ==
  /\ Serving("next") /\ state \in {"buffering", "playing"} /\ hold
  /\ irq' = TRUE /\ queue' = Append(Rest, Stop)
  /\ UNCHANGED <<app, core, hold, state, ended, buffer, on, pcm>>

\* Mutant: the last frame is not waited for.
AllTakenButOne == counter <= 1

\* All frames that were counted have been taken: the tone is at its end.
AllTaken == counter = 0

AwaitEnd ==
  /\ Serving("next") /\ state \in {"waiting_end", "idle"}
  /\ IF state = "waiting_end" /\ AllTaken /\ ~ended
     THEN queue' = Append(Rest, Stop) /\ ended' = TRUE
     ELSE queue' = Rest /\ UNCHANGED ended
  /\ UNCHANGED <<app, core, hold, state, buffer, irq, on, pcm>>

\* Mutant: what was stopped is repeated.
RepeatsAnyway == core.tone \in LoopTones

\* ty_decoder_end_func
Repeats == core.tone \in LoopTones /\ ~core.stop

StopPlaying ==
  /\ Serving("stop")
  /\ irq' = FALSE /\ frames' = 0 /\ state' = "idle" /\ hold' = FALSE /\ on' = FALSE
  /\ buffer' = FALSE
  /\ Callback(core.tone)
  /\ IF Repeats THEN queue' = Append(Rest, Loop) /\ UNCHANGED core
     ELSE queue' = Rest /\ core' = NoCore
  /\ AppAlone /\ UNCHANGED <<ended, counter>>

\* i2s_isr_ram: a frame has been taken to its end
Interrupt ==
  /\ irq /\ on /\ frames > 0
  /\ frames' = frames - 1 /\ counter' = counter - 1
  /\ queue' = Append(queue, FrameTaken)
  /\ UNCHANGED <<app, player>>

-----------------------------------------------------------------------------
Serve ==
  \/ StartBusy \/ PrepareTone \/ DecodeHeld \/ AwaitEnd \/ StopPlaying
  \/ \E room \in BOOLEAN : Start(room) \/ LoopAgain(room)
  \/ \E last \in BOOLEAN : Decode(last)

Next == Call \/ Timeout \/ DelayEnds \/ Serve \/ Interrupt

Spec == Init /\ [][Next]_vars

-----------------------------------------------------------------------------
(* Properties.                                                             *)

States == {"idle", "buffering", "playing", "waiting_end"}
TypeOK ==
  /\ cur \in Tones \cup {Mute} /\ timer \in BOOLEAN /\ delay \in Tones \cup {Mute}
  /\ queue \in Seq([kind : {"start", "loop", "prepare", "next", "stop"}, tone : Tones \cup {Mute}])
  /\ core \in [busy : BOOLEAN, tone : Tones \cup {Mute}, stop : BOOLEAN]
  /\ hold \in BOOLEAN /\ state \in States /\ ended \in BOOLEAN
  /\ buffer \in BOOLEAN /\ frames \in Nat /\ counter \in Nat /\ irq \in BOOLEAN /\ on \in BOOLEAN
  /\ calls \in 0 .. MaxCalls
  /\ quiet \in BOOLEAN /\ overtaken \in BOOLEAN /\ untimed \in BOOLEAN

\* tuya_kel_port_audio.c:429: a tone that ends by itself has been played to its
\* last frame, although the counter and the list are changed by the task and by
\* the interrupt.
EndsWhole == [][ended' /\ ~ended => frames = 0]_vars

\* tuya_kel_port_audio.c:459: the player that was stopped, no tone being on its
\* way to it, is silent once the stop is served, and ready for the next tone.
StoppedIsSilent == quiet /\ ~Waiting("stop") => ~on /\ ~core.busy

\* locdef_audio.c:184: a tone that repeats has a timer that ends it, or is being
\* stopped, but where its start was overtaken by a stop or it found no timer.
RepeatedIsTimed ==
  core.tone \in LoopTones => timer \/ core.stop \/ overtaken \/ untimed
=============================================================================
