# Proximity-unlock meter: a TLA+ verification of the firmware

The repository is the firmware of an e-bike meter on the FR801xH Bluetooth chip: it arms and disarms the
vehicle, raises alarms, detects a turning wheel and a shaken frame, and unlocks when a bonded phone comes
near. This directory holds TLA+ models of its own logic, the TLC runs that check them, and TLAPS proofs. Paths
below are relative to `src/examples/code/`.

## 1. The system

Everything runs on one processor. The main loop (`main.c`, `user_main` and the vendor scheduler) serves, one
at a time and each to its end:

- *tasks* of `tuya_kel_port_os.c`: a handler called for each message sent to it;
- *soft timers* (`tuya_kel_port_timer.c`, a pool of ten over the vendor's os_timer);
- the events of the Tuya BLE SDK (`tuya_ble_event.c`, no operating system);
- the callbacks of the Bluetooth stack (`peripheral.c`).

`co_delay` is a busy wait: nothing else of the main loop runs in it. Interrupts (pins, TIMER0, TIMER1) preempt
the main loop anywhere and not each other. So the concurrency is: handlers in any order, and an interrupt
between any two memory accesses of a handler. Power may be lost at any time.

Of the interrupts, the models separate the accesses to what an interrupt shares: all of a queue's in
`KelQueue`, the decrement of its count and the enable register in `IoFilter`, the flags and the enabling of
the pulse line in `RotationDet`, the slots in `BleSched`, the counter of frames in `AudioPrompts`. Elsewhere a
handler is one step.

| Component | State it keeps | Operations | Talks to |
|---|---|---|---|
| Vehicle state machine (`components/vfm/fsm/vfm_fsm.c`, `app/locdef_fsm.c`) | state, recorded state, recovery timer; outputs: alarm, motor lock, ACC relay, button function | an event of its table; recovery timeout | its queue; timer pool; audio; upload |
| Message queues (`port/kernel/tuya_kel_port_os.c`, `tuya_ble_queue.c`) | byte ring with read, write, count | send (task or interrupt), wait | every task |
| Debounced inputs (`app/locdef_pin.c`) | pin interrupts, filter queue, button timer | edge interrupt, three samples, report | posts to the state machine |
| Rotation detector (`app/locdef_service.c`, `app/device/device_sensor.c`) | pulse count, window, release count, flags shared with interrupts | periodic tick, pulse interrupt, window interrupt | posts ROTATION and UNROTATION |
| Proximity unlock (`app/locdef_hid.c`, `peripheral.c`, `app/locdef_dp.c`) | bond table, its flash copy, settings of the phone in use, signal window | link events, data points, signal readings | posts DEFENCE and UNDEFENCE; SDK |
| SDK event queue (`tuya_ble_event.c`) | ring of events | put, one pass of the scheduler | all of the SDK |
| SDK settings (`tuya_ble_storage.c`) | two areas in RAM, each with a copy and a backup in flash | boot, pair, unbind, production writes | SDK protocol |
| 433 MHz remote (`components/rcu_433`) | decoder state in its interrupt, two remotes | key, repeat filter | posts to the state machine |
| Device store (`middleware/tuya_mid_dev.c`) | one flash sector: remotes and configuration | read, erase and write | remote, configuration |
| Audio prompts (`app/locdef_audio.c`, `port/audio/tuya_kel_port_audio.c`) | tone in play, its timers; player: events, decoder state, frames and their count | play, stop, timeout, five events, speaker interrupt | state machine, pins |
| Data points and upload (`app/locdef_dp.c`, `components/vfm/upload`) | messages of its task | report a transition, answer a query, set | state machine, proximity unlock; SDK |
| SDK connection (`tuya_ble_event_handler.c`, `tuya_ble_main.c`) | status, random number, monitor timer | link events, commands | SDK event queue; update; application |
| SDK protocol (`tuya_ble_data_handler.c`, `tuya_ble_mutli_tsf_protocol.c`) | decoder, reassembly buffer, sequence number | one fragment | SDK event queue; connection |
| SDK send queue (`tuya_ble_gatt_send_queue.c`) | bytes to send | send | port |
| Firmware update (`port/FR801xH/ota`) | command expected, packets and data so far, file; record of the place reached, in RAM and flash; slot | five commands, loss of the link, reset timer | SDK; flash; boot loader |

What is hard: counters and flags shared with interrupts without critical sections; a message lost to a full
queue with nobody told; timers that outlive what they were started for; handles of a small pool that leak; a
pin that must be enabled again by someone else than who disabled it; bonds kept in RAM and in flash and
refreshed by callers with different ideas of the phone in use; saves cut by a loss of power. `PROJECT.json`
lists each at its line, with the properties that watch it.

## 2. The plan

Done, in this order: `MeterFsm`; `KelQueue` with the abstract `KelChannel`; `IoFilter`; `RotationDet`;
`HidUnlock`; `BleSched`, which implements `KelChannel` too; `BleStore`; `BleOta`; `BleLink`; `BleFrame` with
the abstract `FrameChannel`; `AudioPrompts`; `MeterReport`, which composes `MeterFsm` with the upload and a
phone. Proved about: all of them.

Left: the inputs and the rotation detector on the bounded queue of `MeterFsm` (each is checked on a queue of
its own), and `HidUnlock` with the unbind of the SDK, whose two saves are separate.

Modules that are proved about together (`IoFilter` and `RotationDet` with `MeterReport`, `HidUnlock` with
`BleStore`) share no names, so that one module of proofs can extend them: hence the prefixes of their
`IoInit`, `RotSpec`, `HidNext` and so on.

## 3. The modules

### MeterFsm: the vehicle state machine

One action for each session callback of `vfm_fsm.c` with its user callback (`EnterWarning`, `EnterMoving`,
`EnterAccOn`, `EnterAccOffDef`, `EnterAccOffUndef`, `Hold`), `Discard` for an event without a row,
`RecoveryTimeout`, and posts by the main loop and by interrupts. `FsmTable` is the program's table, row by
row; an assumption checks that at most one row matches, which makes the order of the scan irrelevant. The
disarm callback busy-waits 150 ms and then reads the key: it is two actions, between which only an interrupt
may post. A post to a full queue is lost, as in `tuya_vfm_base_event_post`.

It is checked as a part of `MeterReport`, next.

*MeterFsm_stale_recovery* is a counterexample to a comment of the code: the key switched off in an alarm
leaves the recovery timer running; when the vehicle has been switched on by then, the timer transfers it to
the state before the alarm.

Also reachable, and excluded by no property: each disarm after an alarm forgets a timer without giving its
slot back. When the pool is empty an alarm has no timer and lasts until a command ends it; `AlarmEnds` is
about alarms that got theirs.

### MeterReport: the vehicle and the phone that shows it

`EXTENDS MeterFsm`. The actions of the vehicle are sorted by what they send to the task of the upload
(`Arrive`, `ArriveUndef`, `Leave`, `Stay`); `Upload` is that task, `Query` the answer to the phone, `Pairs`
and `Unpairs` the link. The task reads the state and the lock when it serves a message, so a message lost to a
full queue does no harm, and one served late tells the later state.

*MeterReport_main* (two places in each queue, two timer slots: enough for lost posts, an alarm behind another
event, uploads overtaken by transitions, and a pool run dry): the wheel is free while riding, a disarmed
vehicle is quiet and has no recovery pending, a locked wheel is powered, the button stops what is on, an alarm
that got its timer ends, and when all uploads are served the phone shows the lock as it is. `PhoneShowsLock`
excuses two things the code does, kept as histories:

- `answered`: a query passes the number of the data point as the type of the lock (`locdef_dp.c:379`), for
  which nothing is read, so the answer is always 0, locked;
- `overrun`: WARNING and MOVING report nothing of the lock, so a transition whose message is served in one of
  them is never reported. The recovery timeout sends no message either.

What the SDK was handed is taken to arrive.

### KelQueue and KelChannel: the queue of a task

`KelChannel` is the promise: a bounded FIFO. `KelQueue` is the ring with the loads and stores of the main loop
as separate steps and an interrupt's whole send between any two. `senders` says who sends to the queue: the
main loop (upload), interrupts (filter), or both (state machine).

*KelQueue_main* (three messages deep, at most four owed): a queue only the main loop fills implements
`KelChannel` and never strands a message; a queue that interrupts alone fill hands over the oldest message,
whatever its count has lost, as long as no more wait than the ring holds; whoever sends, a message is taken
only when an accepted one waits. The run has no deadlock check: with only interrupts sending, the bound
`OwedMax` stops them once messages are lost.

Where an interrupt comes between the load and the store of `used--` its increment is overwritten: a message
accepted stays in the ring with nobody to call for it. The model has it; `MainNeverStrands` is about the
queues that only the main loop fills. Where both send, an interrupt between the copy and the advance of `wr`
fills the slot that the main loop fills, so one of the messages is lost and a slot nobody wrote is counted:
`OldestIsTaken` promises nothing of what is in the slot there.

### IoFilter: the debounced inputs

The interrupt disables its channel and sends the pin (`Notify`); the task takes it (`TakePin`, `Read`,
`Press`), samples it three times, posts an event (`HandlePin`), and enables the channel (`LoadEnabled`,
`StoreEnabled`); the button goes through a 500 ms timer. One interrupt serves the first pending channel and
all status bits are cleared. The EXTI block is the vendor's: an edge of the selected direction raises the
status bit of an enabled channel, and the edges of a disabled one are missed. `locdef_one_start_key_check`
ends without a return statement and its caller tests the value: `Press` allows both outcomes.

An interrupt may come between the load and the store of two things it shares with the main loop:

- the count of the queue, `used--` (`tuya_ble_queue.c:77`): the store overwrites the interrupt's increment
  (`lost`), and the ring holds one message more than it counts;
- the enable register of all the channels (`components/driver/driver_exti.c:31`), which the main loop also
  writes for the detector and the vibration sensor (`EnableOther`): the store enables again what the interrupt
  has just disabled (`revived`).

The ring is a sequence here; that its slots and indices make one is the subject of `KelQueue`.

*IoFilter_main* (`FilterQMax` 4 where the program has 10; one button message, one race): a disabled input is
held by a message in the ring, the filter or the timer; the ring holds what counts and what was lost, and
never overtakes its reader; every disabled input comes back unless its message is one that was left behind.
The bounds are exact: with one message for each other pin, `KeyMsgs` of the button and `MaxRaces` more,
`RoomForEveryPin` asks for the places the queue has. Both bound the model. A message of the button lets it
send two more at most, the second after the timer's 500 ms, in which the task takes every message that waits;
a race needs an edge within a few instructions.

So a lost increment does leave an input dead: the message behind the count is that of a channel which its own
interrupt has disabled, and it is taken only when a later message of another input pushes it on, which leaves
that one behind instead (`OnlyRacesStrand`: one for each race, for good). With more races than places the ring
would overtake its reader; `MaxRaces` leaves that out.

### RotationDet: the turning wheel

The tick of the main loop in up to eight steps, between any two of which the pulse interrupt or the window's
may come; the wheel; and the transitions of the state machine that the detector reads. The arming
(`locdef_service.c:193-197`) is a step for each access: the test of `rotation_irq_en` (`TickArm`), its setting
(`TickSet`), the clearing of `rotation_det_cplt` (`TickClear`) and the store of the enable register
(`TickStore`); `ArmOrder` is their order. What the main loop writes to that register for another line is
loaded and stored in two steps (`OtherLoad`, `OtherStore`), so it may store a bit of this line that the window
has cleared meanwhile. Many pulses may or may not be a rotation: that depends on the wheel's diameter.

*RotationDet_main*: the detector never takes a disabled line for enabled, a line disabled by a window comes
back unless the vehicle is disarmed, and a vehicle that stands still leaves MOVING. `TravelRelease` is the
program's 2; `AlarmRelease` is 3 where the program has 10, as all that matters is that it is the longer.
`EventMax` 3: events come two a second and are served within milliseconds; an interrupt and a tick that both
post still leave one waiting. What the count of their queue may lose is the subject of `KelQueue`.

### HidUnlock: proximity unlock

Link events of `peripheral.c` (`Connect`, `SlaveEncrypt`, `BondFail`, `Disconnect`, the timer that starts
polling), the application's side (`AppAuthenticates`, `SetSensitivity`, `SetNear`, `SetFar`, `BondInfoReset`),
the window of three readings with its thresholds, and a reboot. A phone is its key. The encryption of a link
and the application's authentication come in either order, and data points may be served before any key has
come.

Erased flash reads 0xFF. A refresh reads the whole table from flash, so after a first start or an unbind every
slot has an `active` that is not 0 (`Erased`): none is free, and a new key goes to the last slot (line 91),
over the phone that was there. Of the eight slots only the last is ever used, though the comment at line 88 is
about a table that has run out. `HidInit` and `BondInfoReset` leave such a table.

*HidUnlock_safety* (two phones, two slots, one near and one far reading, one level): while there is a bond its
key is in the table and the table is the one in flash; a key leaves the flash only by an unbind, or for the
key of the phone on the link; a key that comes with an authenticated application is saved. The last two except
one case, which the code has (`NoKeyYet`): the settings in use have no key until a phone's has come, and what
is saved of them before, for a data point or for the key of a phone that is already in the table, is a record
of the cleared key, which takes the place of the phone's. Such a record also makes a bond with the cleared
key. Two slots show the one that is used and one that is not.

The save is one step here: `locdef_hid.c` has one copy only, and any step between the erase and the write
would lose it.

### BleSched: the SDK's event queue

A sender takes a slot in a critical section and fills it outside; the pass of the scheduler serves the events
that were queued when it began; a handler may send.

*BleSched_main* (ring of 3 + 1 slots, which wraps in every phase; two events): the ring implements
`KelChannel`, and a pass ends although every handler sends.

### BleStore: the SDK's settings in flash

Two areas, each with a copy and a backup in sectors of their own. A save is four steps; power may be lost
between any two, and a sector that was being written reads as one whose CRC is wrong. An area an older
firmware left may have either copy or none. A boot loads the copy, the backup otherwise, and saves again what
is in an older format.

*BleStore_main* (two keys, two identities, one h_id): settings in use are those a boot would load; no device
runs with settings in the old format; a save is atomic, unless it begins with copies that differ. That
exception is real: a boot does not mend copies that an earlier power loss left different, and a second loss in
the next save brings the older binding back.

### BleOta: the firmware update

One action for each way a command of `tuya_ble_ota.c` can go, the loss of the link, the reset timer, and a
loss of power. A handler computes the operations it asks of the flash, which are done one by one (`todo`);
power may be lost between any two. Writing what was not erased spoils it. The first packet is kept in the
record of the place reached and goes to the slot last; the boot loader, which is external, takes the slot with
the newer first page.

The model assumes a phone that sends packets of the file it announced, full ones, in any order and starting
again whenever it likes; the CRC as ideal; a page write as atomic; a file of two packets at least. With such a
phone the branch for more data than the file has is not reached.

*BleOta_main* (three sectors of two packets; files shorter than the slot, as long as it and longer, two of the
same version: enough to resume within and across sectors and to begin one file over another): what becomes
bootable is one whole file; an update that was not resumed is never refused at its end; a cut costs one
sector's packets at most; while data are awaited there are data to send; the sector after the slot is left
alone. Each of the last two has an exception in its statement, because the code has it:

- a file whose last packet completes a sector, resumed at its full length, waits for data and refuses the end
  (its record is complete, so each such attempt repeats this);
- a file that fills the slot erases the sector behind it (line 604).

Found while modelling, and excluded by no property: `tuya_ble_ota_file_offset_handler` (line 528) saves the
new file's md5 over the length and CRC of the old one, so an attempt cut before its first packet is resumed
behind the other file's data, and its end is refused; a command accepted in the second before the reset can
damage an image that is already bootable; and the length of an erased record makes a resume scan the whole
address space, which the model treats as a CRC that differs.

### BleLink: what the SDK knows of its link

The stack's callbacks (`Connect`, `Disconnect`, frames) queue events; `Pass` begins a pass of the scheduler,
which serves what was queued; a frame that passes the checks becomes a command, queued again. The monitor
timer ends a link on which nobody pairs; a command and the proximity bonds stop it: `BondRefresh` is the stop
in `ty_hid_bond_refresh` (`locdef_hid.c:302`), reached when a link is encrypted with a key of the bond table,
and `DataPoint` the same for a data point. Links are numbered, so a property can tell whose command is served
on which link.

*BleLink_main* (a queue of three, two links, one command of each kind): the status follows the link, a
disconnection leaves no random number and no update behind, what needs pairing was sent by a link that has
paired, and a link on which nobody pairs is ended, unless the refresh stopped its monitor (`known`): a phone
whose key is in the table stays connected without pairing. `confused` names the links these excuse, which the
code mixes up: those with an event lost to a full queue, and those a command of an earlier link came to. Found
while modelling:

- a pairing served after its link has gone sets BONDING_CONN with no link, or on the next one;
- a command queued behind an unbind is still executed;
- a link whose connection event was lost has no monitor and is never ended;
- a disconnection asked for late ends the next link;
- the reset of the sequence number at `tuya_ble_data_handler.c:385` is never reached.

### BleFrame and FrameChannel: frames and fragments

`FrameChannel` is the promise: each frame arrives whole or not at all, at most once, in order. `BleFrame` has
the encoder of the phone's side, fragments lost to a full queue, to missing memory or with the link, or
written twice, and the decoder with the reassembly as one action for each way a fragment can go
(`RefuseFragment`, `TakeAgain`, `TakeFragment`, `TakeFrame`). A byte is known by its frame and its place; the
checksum, and the encryption with it, tells the pieces of one whole frame from any others. Whole frames are
refused, too, by what they are and by the state of the device (`Refusals`): before their number is counted
(`tuya_ble_data_handler.c:325-341`: another version, or not encrypted on a bound device), or behind it
(`:411-448`: a test command encrypted otherwise, a device that is not paired, an update under way). Any frame
may be refused in either way here; those that were are in the history `turned`.

*BleFrame_main* (packets of 100 bytes; frames of 97, 98, 200 and 201 bytes are one, two and three fragments
and one too long; two links, two frames, three places in the queue): the commands implement `FrameChannel`,
and a frame whose fragments all came, one after the other, is taken although what was there before had been
cut anywhere, unless it was `turned` away. `intact`, `turned` and `deaf` are histories for the second. No
deadlock check: the phone stops at `MaxFrames` and `MaxLinks`. A frame whose sequence number is not above the
last ends whichever link is up by then.

### AudioPrompts: tones

The application (`StopTone`, `Play`, the tone's `Timeout` and the delayed start, `DelayEnds`), the player's
five events, and the interrupt that takes a frame; frames are counted, and any may be the last. The counter of
frames is shared with the interrupt without a critical section: up to `MaxLost` of its decrements are
overwritten.

*Audio_main* (a tone that repeats, one played once and the overspeed's, which its timer plays again; four
calls, one lost decrement, seven frames and events): a tone that ends by itself was played to its last frame;
a player that was stopped, with no tone on its way, falls silent; a tone that repeats has a timer. The excuses
are histories: `overtaken` (its start overtaken by a stop) and `untimed` (no slot for its timer). No deadlock
check: the calls end at `MaxCalls`. Found while modelling, and excluded by no property:

- a stop within 100 ms of a start does not cancel the start;
- an event that prepares a tone, served behind a stop, decodes a buffer that was freed, and a repeat served
  with the record cleared reads the entry before the table;
- a lost decrement leaves the player waiting for its end, and so does a tone of less than three frames;
- the callback of the tone before sets the current tone to silence;
- a play that fails leaves the player busy until the next stop.

## 4. Fairness

Each fair specification assumes that the main loop keeps running, which follows from the code: handlers are
finite, `PassEnds` shows that a pass of the scheduler ends, and the watchdog resets otherwise. So: a queued
message is eventually taken, an armed timer is served, a handler ends. `MeterReport` asks no more than
`MeterFsm` does, and nothing of its phone; `BleLink` asks that passes begin (`Pass`) and that their events are
served (`Handle`); `IoFilter` that the filter ends what it has begun (`Filter`), `RotationDet` the same of its
tick.

Strong fairness is used where a step is enabled again and again but not continuously: an expired timer between
messages (`KeyTimerFires`, the tick's `Begin`, and `MonitorFires` of `BleLink`), a message between other work
of the main loop (`FilterTask`) and the event queue between ticks (`ServeEvent`), as the vendor loop serves
these in turn; and the end of a link that the device has asked the stack for (`closing /\ Disconnect`), which
the radio carries out whatever the main loop does. Nothing is assumed of phones, riders or wheels.

## 5. Proofs

Every theorem is about all values of the constants, under the assumptions that the modules name: sizes are
naturals and those of queues positive, a packet has 10 to 244 bytes, the tones that repeat are timed, and what
is given below. Bounds such as `MaxLinks` or `MaxCalls` are arbitrary in the proofs. The one recurring
difficulty is that no property is inductive alone; what is added is this.

- `MeterProofs`: the six invariants of the vehicle, inductive only together (`IInv`): the type of the state
  needs that a pending recovery has a state to go back to, and that a locked wheel is powered or disarmed
  needs that no recovery leaves UNDEF. `MeterIsVehicle`: each step of `MeterReport` is one of `MeterFsm` or
  leaves it alone, so those hold there too. `PhoneIsTold` adds what the phone knows while messages wait
  (`PhoneKnows`).
- `KelQueueProofs`: that what is taken was sent, for whoever sends, follows from `CInv`, which counts a
  message between the load and the store of `used`. Where interrupts alone send, the messages not yet handed
  over are in the slots behind `wr`, and `rd` is as many slots behind (`Laid`), whatever the count says: hence
  `OldestFirst`. For a queue that only the main loop fills the counts are exact (`Exact`), so nothing is
  stranded; with where each message is (`Placed`, `Carried`) the ring implements `KelChannel`.
- `BleSchedProofs`: at most one slot is being filled, the others show what was put (`OneFilled`, `AllShown`),
  and the one being handled stays (`Handled`): the ring implements `KelChannel` for every size.
- `FlashProofs`: what holds in the middle of a save (`SaveProgress`) and which areas are done at each point of
  a boot (`LoadProgress`), for all keys and identities.
- `BleOtaProofs`: all six properties, for all files, slots and sectors under `BleOtaAssumption` (a slot is
  whole sectors of two packets or more, a file has two packets or more). `OnlyWholeIsBootable` is about
  operations not yet done (`SafeOps`): one that writes the first page has the rest of its image in place, and
  only the erasure of that page before it. `DataIsLeft` and `NextSlotIsKept` need that a record keeps the end
  of a sector and that no operation but a full file's reaches past the slot (`SInv`), and that what will be
  booted is newer than what runs (`VInv`); `ProgressIsKept`, that the record in use will be the one in flash
  (`PInv`); `FreshIsWhole`, that the rest of the sector reached is blank or will be (`FInv`).
- `BleLinkProofs`: the last link event in the queue tells whether a link is up (`LastEventTells`), the events
  are in the order of their links (`InOrder`), and the random number is of the link it was made for
  (`RandIsKept`); what needs pairing then comes from a link that is trusted (`Trusted`).
- `BleFrameProofs`: `HeaderIsRead`, the encoder's numbers read by the decoder. The pieces in the queue are in
  the order of their frames (`InOrder`), no frame taken is younger than a piece that waits (`NoneYounger`),
  the sequence number has passed each frame taken of which pieces are left (`Counted`), and a link event parts
  the frames of two links (`Turns`): so a whole frame that is taken is behind those taken before, and the
  fragments implement `FrameChannel` for every length of packets and frames. `WholeFramesTaken` says the
  opposite of loss, for every length of packets, frames and queue: it needs an invariant of its own (`WInv`,
  checked by TLC on the states of *BleFrame_main* before it was proved). Every fragment about is one the
  encoder makes, and its number tells its place in the frame (`Pieces`); after a fragment that came without a
  gap the decoder holds the pieces of its frame up to there (`Holding`), unless an event of the link has come
  and none of the frame can follow (`Behind`); a link the SDK was told of has one of its events in the queue
  between its fragments and those before (`Parted`), so the number the frame is compared with is of its own
  link or will be reset first (`CountIsOwn`); on a link the numbers rise (`Numbered`). So the checksum of a
  frame whose last fragment came in its place holds (`IsReady`, `PutTogether`), and if its number was counted,
  the frame was taken before (`CountedWasTaken`).
- `MeterProofs` also has the sources of events. `DetectorStaysAlive`: a release is decided in one step of the
  tick and posted in the next, and the window may close in between, so the invariant adds that a release still
  finds a place for its event (`RoomForRelease`). That a release while an alarm is on takes no less time than
  one in motion (10 and 2 in the program) is assumed. The arming is covered access by access; a store to the
  register for another line may set this line's bit again but never clears it under a flag that is set
  (`StaleBitIsHarmless`). The inputs, for any number of races and button messages that the queue has room for:
  each input other than the button takes one place, by its message, its sampling or its enabled channel, and
  each race on the register one more (`PlacesTaken`, `RoomLeft`); the count is what the ring holds less what
  was lost (`CountIsRight`); what is enabled in the register is enabled in what was loaded of it
  (`LoadedCovers`); only an enabled pin has its status bit up (`StatusIsEnabled`). So no message is refused,
  which is where `RoomForEveryPin` is used: `OnlyDequeuesStrand`, and from it `DisabledPinsAreServed`.
- `FlashProofs` also has the bonded phones, for all phones, table sizes, readings and levels (`HidIInv`): the
  table in flash has every slot in use and a key in the last alone (`LastOnly`), and the key of the settings
  in use, if they have one, is that key unless an unbind has erased it (`SettingsOfBond`). So what a save
  writes over a key is of that key or of the phone on the link, and `BondsAreKept` and `NewKeyIsSaved` follow
  from what a save does to such a table (`SaveEffect`, `ConfigEffect`, `RefreshEffect`, `EndSaves`).
- `AudioPromptsProofs`: the counter covers the list of frames (`Counted`), what repeats is guarded by its
  timer or a stop (`Guarded`), and nothing behind the last stop begins a tone (`Stopping`).

Only checked by TLC: liveness (`AlarmEnds`, `InputsComeBack`, `LineComesBack`, `StoppedIsNoticed`, `PassEnds`,
`UnpairedLinkEnds`), which is out of the prover's reach. Every other property of a passing run is a theorem.

## 6. Not modelled

- Vendored code: the chip SDK under `src/components`, mbed TLS, cJSON, EasyLogger, the OLED driver. What the
  models take from it is marked external in `PROJECT.json`.
- The 433 MHz remote: learning is compiled out (`components/rcu_433/rcu433_mgr.c:97`), so it hears only
  addresses that another firmware left in flash; the events its keys post are inputs of `MeterFsm`. Read on
  the way: the second address is written over the first (`middleware/tuya_mid_dev.c:31`), which nothing
  reaches.
- The device store: one sector, whose configuration is written over with its defaults at each start.
- The send queue of the SDK: in this port a send always succeeds (`tuya_ble_port_FR801xH.c:109`), so the queue
  empties in the call that fills it, and a notification that the stack dropped is lost.
- The power manager is never initialised (`app/locdef_main.c:19`); the watchdog is one call; the battery is
  arithmetic on a reading.
- Bulk data: the application never answers a request (`main.c:249` is commented out). Weather is received and
  not used.
- The SDK's helpers (calendar, checksums, a copy of heap_4), the port's wrappers, start-up, the production
  test and the examples.
- Within the modelled parts: formats of data points, encryption, decoding of audio, speeds and mileage, the
  periodic upload of measured values, and the requests of the SDK's API that no one here calls (application's
  unbind, factory reset).
