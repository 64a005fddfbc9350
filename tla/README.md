# Formal model of the MIDI Typist firmware

MIDI Typist turns analog keyboards into MIDI instruments. The firmware (C, under
`src/firmware/`) is portable application code (`app/`), shared services
(`services/`) and board code (`boards/`, `platform/`). This directory holds TLA+
modules translated from that code, TLC configurations that check them on small
instances, and TLAPS proofs.

## The system

| Part | State | Operations | Talks to |
|---|---|---|---|
| Raw acquisition `app/src/keyboard_raw.c` | thresholds, last readback, armed, edges, velocity windows, worklist | frame, observe, invalidate, enable, set, set_all, set_press_all, map | called by the application frame, read by MIDI, HID engine, lights |
| MIDI performance `app/src/keyboard_midi.c` | mode, mapping, octave, buffered strikes, owners per pitch, event queue, cleanup sweep | frame, service, guard, abort, toggles, map | reads edges and fits, sends packets through a port that may refuse |
| HID engine, editor `keyboard_engine.c`, `keyboard_config.c` | report, Fn latches, editor | frame, commands | report sent by the application |
| Menu, calibration `keyboard_menu.c`, `keyboard_calibration.c` | page; per-key hold timers, candidate bounds | frame, tick, start, abort, finish | own the input while open; calibration ends in a save |
| Application `keyboard_app.c` | last frame time, report to send, reset pending | frame, service, invalidate, calibrate, reset_profile | routes a frame to performance, menu or calibration; calls the board's operations |
| Saved profile `services/src/device_store.c` | two flash pages, RAM copy of the record, pending, fault | load, apply, poll, update, clear | polled by the board owner loop |
| SysEx session `services/src/midi_control.c`, `scan_stream.c` | receive frame, command mailbox, reply slot, transmission, lease; record queue | USB receive (interrupt), service (foreground), publish | USB interrupt and foreground share the mailbox |
| M1 output `m1_live.c`, `m1_controls.c`, `m1_transport.c`, `m1_usb_class.c`, `m1_wireless.c`, `m1_radio_hal.c` | current and chosen transport, report and consumer control sent, endpoints, radio session, packet on the wire | one turn of the loop: input, output, controls; USB interrupts; radio service | reports go to USB or to the radio's peer, which serves a host |
| M1 acquisition `m1_hal.c`, `m1_scan.c` | bank, frame queue, sequence number | timer and DMA interrupts, start, pause, capture, stop, take | frames go to the loop, or to the owner of sleep |
| M1 power `m1_runtime_power.c`, `m1_source.c`, `m1_startup.c`, `m1_boot.c`, `m1_sleep.c`, `m1_main.c` | state of the owner, supplies, pins, radio handoff, cable | boot, sleep, wake, source change, contained failure | calls every peripheral of the board; a refusal of one is a failure |
| M1 save gate `m1_save.c`, `m1_storage.c` | | begin, write, end | brackets every flash transaction |
| Huntsman board `boards/huntsman_v3_pro_mini/src/` | optical transport, USB reset, flash writer | owner loop, interrupts | load and clear operations of the store |
| LPC55 platform, synthetic board, tools, tests | vendored USB glue, host programs | | not modelled |

What makes them hard: a frame visits only the keys its worklist names, and an
idle shortcut may skip all of them; a strike fires some frames after its edge and
may be released before that; several keys may share a pitch; the queue is bounded
and the port may refuse any packet; a fault, a menu, an edit or a reset may come
between any two frames; power may be lost between any two flash operations, and
each of those may fail; the USB interrupt and the foreground share a mailbox.

What makes them correct:

* acquisition: the shortcuts find what a full scan would find; a key that is held
  while the keyboard arms is not an edge; a strike always gets a velocity;
  thresholds never invert;
* MIDI: the host holds a note exactly while a key sounds it; a cleanup reaches
  everything the host holds and is final; letting go of the keyboard silences the
  host;
* profile: a save or a reset is atomic under power loss; settings are saved once
  and only when they changed; a reset does not bring back an older profile;
* SysEx: each command is executed once and in order, in the session that sent it; an
  answer is not held back for ever; a stream ends with its session, and a capture never
  hides that it lost something;
* application: keys held while the application owned the input are never typed; every
  entry of the report goes with its key; the bounds in use are those the next boot will
  load; an erase needs a fresh confirmation; a finished calibration survives a save that
  is put off;
* M1 output: a transport that is left holds no key; the firmware knows what the host
  holds; a peer is put to sleep released, and left alone;
* M1 power: producers stop before their supplies; the owner fails only for a cause that
  is not its own; a cable that stays in is served; a lost frame is noticed.

## The modules

| Module | Models | EXTENDS |
|---|---|---|
| `KeyboardRaw` | `keyboard_raw.c`, and how `keyboard_app_frame` routes a frame to it | |
| `KeyboardRawProofs` | theorems about `KeyboardRaw` | `KeyboardRaw`, `TLAPS` |
| `KeyboardMidi` | `keyboard_midi.c` over the edges of `KeyboardRaw`, the profile reset of `keyboard_app.c` | `KeyboardRaw` |
| `KeyboardMidiProofs` | theorems about `KeyboardMidi` | `KeyboardMidi`, `KeyboardRawProofs` |
| `AtomicProfile` | what the storage document promises: one atomic cell | |
| `ProfileJournal` | `device_store.c`, the page writers and the clear and save operations of both boards; refines `AtomicProfile` | |
| `ProfileJournalProofs` | theorems about `ProfileJournal`, and that it implements `AtomicProfile` | `ProfileJournal`, `TLAPS` |
| `ScanStream` | `scan_stream.c`: the capture, snapshot and dump streams | |
| `MidiControl` | `midi_control.c`, with the USB interrupt, resets and the owner loops of both boards | `ScanStream` |
| `MidiControlProofs` | theorems about `MidiControl` and `ScanStream` | `MidiControl`, `SequenceTheorems`, `TLAPS` |
| `KeyboardEngine` | `keyboard_engine.c`, `keyboard_config.c` and the dispatch of `keyboard_raw.c`: operators on the application's record | |
| `KeyboardMenu` | `keyboard_menu.c`: operators that return the new record and an action | `KeyboardEngine` |
| `KeyboardApp` | `keyboard_app.c`, `keyboard_calibration.c`, `keyboard_command.c` | `KeyboardMenu` |
| `KeyboardAppProofs` | theorems about `KeyboardApp` | `KeyboardApp`, `FiniteSetTheorems`, `WellFoundedInduction`, `TLAPS` |
| `M1Wireless` | `m1_wireless.c` over `m1_radio_hal.c` and `m1_radio_keyboard.c`, with the peer and its hosts | |
| `M1WirelessProofs` | theorems about `M1Wireless` | `M1Wireless`, `TLAPS` |
| `M1Link` | the turn of `m1_live.c`, `m1_controls.c`, `m1_transport.c`, the report of `keyboard_app.c`, `keyboard_aux.c`, `m1_usb_class.c` | `M1Wireless` |
| `M1LinkProofs` | theorems about `M1Link` | `M1Link`, `M1WirelessProofs` |
| `M1Scan` | `m1_hal.c`, `m1_scan.c` and the frame's way into `m1_live.c` | |
| `M1Power` | `m1_startup.c`, `m1_boot.c`, `m1_runtime_power.c`, `m1_power.c`, `m1_source.c`, `m1_sleep.c`, `m1_main.c` | `M1Scan` |
| `M1PowerProofs` | theorems about `M1Scan` and `M1Power` | `M1Power`, `TLAPS` |
| `MC...` | definitions that give the constants their values | |

### KeyboardRaw

`press`, `release`, `raw`, `armed`, `valid`, `down`, `changed`, `enabled`,
`neutralIdle` are the fields of `keyboard_raw_t` of the same names (sets for
boolean arrays); `ready`, `pending`, `count`, `fitted` those of
`keyboard_velocity_t`; `velocityWork` is the bitmap. `observed` says that a menu or
the board's control surface owns the input. `RawFrame` is `keyboard_raw_frame` in
its menu-managed form, the one the application uses; `RawObserve` is
`keyboard_raw_observe`; one action per configuration command (`RawSet`, `RawSetAll`,
`RawSetPressAll`, `RawMap`, `RawEnable`). The fitted velocity itself, the HID edges
and the layout are data no property depends on. A reading is a small integer placed
around the two thresholds and the bottom-out floor; 0 and any reading above
`MaxSample` stand for a broken frame.

### KeyboardMidi

`pend`, `current`, `released` are the strike slots of a key, `active` the pitch it
sounds, `refs` the owner count of a pitch, `queue` the event FIFO, `panic` the
cleanup countdown, `hostDirty` the flag of that name. `host` is the environment: the
voices the USB host holds on. The sustain pedal is one more voice, `Pedal`.

`keyboard_midi_frame` is a walk: `FrameBegin` (mode, arming, guard), `Controls`
(pedal and octave keys), then per key `KeyRelease`, `KeyFire` (once per slot) and
`KeyStrike`, and `FrameEnd`; `Overflow` is the abandoned frame when the queue is
full. `phase`, `key` and `slot` say where the walk is, and no other call runs until
it ends, because the owner loop makes one call at a time. `Service` sends one queued
event or one cleanup event, and the port accepts or refuses it. `DisturbInput`
stands for a fault, a menu taking the input, or a configuration command: all of them
disarm the acquisition, and `GuardTrips` makes the next frame clean up.
`ResetProfile` and `FrameAppliesReset` are the two halves of the profile reset.

The variable `scenario`, chosen at the start and never changed, says which role and note
each key has and which commands the player and the host use; `MCKeyboardMidi` defines
eight, so that one run explores them side by side: two keys of one pitch, a note with an
octave key, Fn with the pedal, a note key that is edited while it sounds in four ways, and
a keyboard whose profile is reset. The properties that relate the keyboard to the host are
not claimed of the last one (`~Resets`), because of the finding below.

Left out: velocities, the latest-value registers of wheels and pressure (they have
no queue and no owner; a packet of theirs could only set `hostDirty` earlier), lights,
and a change of layout.

### ProfileJournal

`flash` is the two pages, each a record, `Blank` or `Torn`; a record is its
generation, its settings and its calibration, the packing and the CRC being abstracted
to a page that reads back whole or not. `phase` is the point a save (`EraseTarget`,
`ProgramTarget`, `VerifyTarget`) or a reset (`EraseOlder`, `EraseNewest`) has reached;
`ready`, `applied`, `fault`, `slot`, `record`, `pending`, `observed` and `age` are
fields of `device_store_t`. `Load` is load and apply together. `PowerCut` may come at
every point and tears the page in progress. `board`, chosen at the start, selects the
operations of the owner: the Huntsman loads again after a reset and clears without
looking at the fault; the M1 loads once, at boot, refuses to clear a faulted store,
and its begin and resume may fail. `gate` is what a turn of the loop allows: "blind", no valid
and fresh frame, so that the store is not looked at; "busy", on the M1 only, where
`storage_blocked` (`m1_live.c:429-445`) or the begin of a transaction (`M1_SAVE_DEFER`,
`m1_save.c:27-41`, `:87-88`, `:99-102`: supply, transport, lights, DMA) puts a save off, which
changes nothing; or "open". `GateTurns` changes it at any time between two transactions, and
nothing says that it ever opens. A page that reads with an ECC error is `Torn`;
other read errors make it unreadable at that boot, which latches the fault. A failed
write whose state is unknown stops the M1 (`FailStop`); only power leaves that state.

`AtomicProfile` has one cell and one request, and says that a profile before the saved one
may linger. `ImplementsAtomicProfile` maps the cell to what a boot that can read both pages
would restore, the request to the save or reset in progress, the older profile to the other
page, if it is whole. The document promises that a reset never brings the older profile
back. The code keeps that promise but for one case, which the abstract specification names
(`doubtful`, `Revive`): a Huntsman whose store is faulted.

### ScanStream and MidiControl

`mode`, `enabled`, `records`, `fault`, `faultSent` and `streamReset` are the statics of
`scan_stream.c` (`s_mode`, ...; `records` is the ring between `s_tail` and `s_head`). A
record is its flags: good, invalid or the loss marker. Two variables belong to no static
and say what the properties need: `lost` (an acquisition since the last record is
missing) and `owner` (the session that asked for the stream). The operations (`Push`,
`Lost`, `GuiPush`, `StreamService`, ...) are actions that `MidiControl` calls with what
`midi_control_ready` returns at that point.

`MidiControl` has one step per place where the Huntsman's USB interrupt can come between
two parts of the foreground loop: `BeginService` (reset, lease), `TakeCommand` (the
locked copy), one action for each way out of `receive_command` (`Ignore`, `Hello`,
`KeepAlive`, `Close`, `Reject`, `Execute`, `Diagnose`, `Refuse`), `Respond`,
`WriteChunk` or `PortRefuses`, and `Stream`. The interrupt side is `ReceiveHead`,
`ReceiveTail`, `ReceiveBroken` (framing), `BusReset` and `SetConfiguration`. The M1 takes
USB data in its own loop, so there the framing runs only between two passes; its port may
become not ready at any time (`PortLeaves`), which `EpochChanges` notices at the start of
a later pass. `rx`, `wire`, `session`, `sequence`, `reply`, `tx` are the statics and the
local buffer; a message is its kind, session and number, the encoding and the CRC being
abstracted to `Garbage`, a message that does not decode. `tx.at` counts the chunks the
port took. Time is two flags, `leaseOver` and `rxLate`, set by actions. `line` and `ran`
are what the host saw: the session whose message it has a part of, and the commands that
ran.

The text of a command is what the board makes of it ("other" is every acknowledged
command without a part in the streams); the M1's diagnostics publish their own answer.
The M1's draining mode, which serves the session alone, and the pass it gives up after a
save are left out. The host is arbitrary: any message at any time, torn or repeated, with
one assumption, that a HELLO carries an identifier that no message on its way, stream or
session has (`tools/keyboard_gui_transport.py:21` draws one at random for each connection
and sends one HELLO for it, `:199`).

### KeyboardEngine, KeyboardMenu and KeyboardApp

One record `s` is `keyboard_app_t` with the engine, menu, editor and calibration inside it
(field names shortened: `cal` is the calibration's state, `done` and `holds` its keys,
`out` the report, `pending`, `chosenKey`, `confirm`, `ready`, `page` the menu's). The first
two modules are operators on it, so that `AppFrame` can call them in the order of
`keyboard_app_frame`: the samples, the neutral frame of a reset, the menu, its action, the
load of the saved bounds, calibration, the save, and the hand-back of the input. `Service`
is `keyboard_app_service`; between two turns come the host's commands (`Enable`, `Edit`,
`Calibrate`, `Cancel`, `Clean`), the board's `Invalidate` and a restart.

A key is held or not (the band between its thresholds is `KeyboardRaw`'s). A frame or a
service may be late, a hold long enough, a timer over: these are choices. What the store
may answer is a set of outcomes (`SaveOffered`, `ResetProfile`): done, refused, put off, or
broken before or after the flash changed. `own` and `since` are no state of the code; they
remember which keys were held while the application owned the input, or since the question
appeared. Left out: a locked profile, options that a board blocks, previews of levels,
layout switch, lights and telemetry.

### M1Wireless and M1Link

`w` is the static state of `m1_wireless.c`, `spi` and `tx` the HAL and its buffer. A
keyboard report travels as two packets, a list of key slots (`list`) and a bitmap (`map`).
`WirelessService` is one call of `m1_wireless_service`: what completed, then the deadlines,
then the next packet in the code's order; a poll, a mode request or a query whose interval
has not elapsed lets the next kind through, which is a choice (`Sendable`). A battery value
is none, due, flying or sent.

The peer and its hosts are not in the repository; they are modelled from how the code uses
them. A peer that serves a host answers polls in time, so only one without a host, or
asleep, is silent until the status deadline; the pulse on PA15 restarts it; a host that
loses its link releases its keys, and one that is merely left for another slot keeps what
it was told until it connects anew; a packet the HAL aborted is not delivered; a list that
says "rollover" leaves the host's list as it was. `Glitches` adds a peer that answers with
another mode or an unknown state. `torn` and `stray` of a host are no state of the code: the
status deadline may give up a packet that is on the wire (`m1_wireless.c:286-293`). What the
host hears of it all the same is a part of a report, and until a whole one has been told the
properties exempt the keys of that host (`torn`), or a consumer usage (`stray`).

`M1Link` has one turn of `m1_live_service` in three steps. `LoopInput` checks the epoch,
serves the radio, notices the readiness edge and takes at most one frame, which goes to the
control surface (`Frames`) and then to the engine. `LoopOut` is the report and the
consumer control, each of which the port may refuse. `LoopControls` is the switch of
transports: `MaySwitch` waits for the old one to be drained, the `Select...` actions are
what a call of `m1_transport_select` does with the radio, `SwitchFails` the deadlines. USB
interrupts come before the first and second step. While USB is left the cleanup sweep of
MIDI delays the switch by a choice. The battery's value (`m1_live.c:584`) is not offered.

### M1Scan and M1Power

A frame is its age, the number of frames completed since, so that a queue slot is told from
another by what it contains: `ring` is the ring buffer, and `r.told` what the code computes
from `sequence` and `pending`, `r.frame` what it got. `Take` and `Judge` are the two halves
of the loop's reading, between which an interrupt may come.

`M1Power` has one action per state of the owner and outcome: `Boot...` is
`m1_startup.c` and `m1_boot.c`, `SleepRequested` to `Wakes` is `m1_runtime_power.c`,
`Source...` is `m1_source.c`, `Reset` and `Fails` is `m1_main.c`. The pin of the cable
is read several times in a call; `Descends`, `SourcePhy` and `Sleeps` let it change once between any two of
those readings. The radio is `M1Wireless` reduced to its session, its sleep command and
whether a transfer is on the wire; the lights to their transfer. Every refusal of a
peripheral is a failure of the owner, as in the code. Time is a choice, but a deadline
fires only when what it waits for does not come: the peer is silent, or the host is gone.

Not in the model: a cable that bounces for longer than `M1_SOURCE_TRANSITION_MS`; transfers
of SPI and DMA that never end, and a USB host that takes nothing (only a delay); a clock or
calendar that fails; faults of the radio's and the lights' buses; the restart of the scanner
after many errors; update mode. The stages of the boot supplies are one step, and "halted"
keeps its USB diagnostics.

## The runs

| Run | Instance | What it shows |
|---|---|---|
| `raw` | 2 keys, readings 0, 1, 2, 4..7, window 3, all commands, thresholds edited to valid and invalid values | the worklist and the idle shortcut find what a full scan would; strikes are measured; arming is silent |
| `midi` | 2 keys, window 3, 2 slots, queue 2, eight scenarios, fairness | the host follows the keys, no voice is stranded, a cleanup covers the host, only advances and is final, letting go silences the host |
| `control` | both boards, 1 session at a time, every command of the streams, 2 records, batch 2, 2 chunks, fairness | commands run once and in order; a stream ends with its session; messages are whole; no capture hides a loss; answers get past streams; a silent host loses its stream |
| `journal` | both boards, 2 settings, 1 calibration, 4 generations, fairness | the journal is an atomic cell; its RAM copy tracks the flash; saved means durable; no needless write; settings left alone get saved once the gate stays open |
| `app` | 6 keyboards of 4 or 5 keys, at most 2 held | owned input is never typed; bounds match the flash; the report follows the hands; an erase needs a fresh yes; a candidate outlasts a save that is put off |
| `radio` | 1 low and 2 extended keys, 1 list slot, a consumer usage, USB and Bluetooth, a glitching peer | the firmware knows what the host holds; held keys stay; a peer sleeps released and is left alone |
| `link` | 1 key or a consumer usage, USB and Bluetooth | a host that is left holds no key and no usage; the radio serves the transport the controls name |
| `power` | 1 bank, a queue of 2 frames, Bluetooth, fairness | a frame is the one its number says; losses are noticed; producers stop before their supplies; the owner fails only for a cause; a cable is served |
| `reset_drops_sweep`, `m1_reset_stops_saving`, `stuck_key`, `lost_host` | as `midi` with the reset alone, `journal`, `app`, `power` with a queue of 1 | the findings below |

**Bounds.** Two keys are enough for every interaction of the acquisition and of
shared pitches: keys meet only in the arming condition, in a pitch's owner count, in
the queue and in the idle shortcut. Window 3 is the smallest with a fit of fewer than
all readbacks that still measures; window 2 makes every fit close on the next
readback, where the run is about something else. A key has five strike slots in the
code and two in the run, one to be sounding late and one to be reused. A queue of 2
overflows inside a frame. Four generations wrap around after three saves; that is the
smallest modulus in which "newer" is unambiguous between neighbours. One calibration
and two settings are enough for "changed", "changed back" and "kept". `Quiet` is 2
ticks of the debounce. The octave limit of 1 saturates; note numbers leave the range
in both directions.

In `control` one session at a time is enough for the liveness properties; it may come again
as a new one when nothing of the old is left. The takeover of a running session by a second
HELLO needs two: the safety properties are proved for every set of sessions and commands.
Two records with a batch of two fill the queue, and one record is a partial batch. Two chunks
give a message a beginning and an end.

In `app` each keyboard has what one part of the application needs: a reset with its
confirmation, a calibration, the trigger editor, MIDI's pages, brightness with rapid
trigger; two held keys are a chord. In `radio` one low and two extended keys with one list
slot make a key move between list and bitmap, and the list roll over. In `link` one key
or one usage of the knob and one radio are enough for what is held across a change of transport
in both directions; the key and the usage are not on their way together (`OneInPlay`). Both at
once, more of them, two radios and a glitching peer are left to the proofs. In `power` a queue of two overflows and leaves a
hole; the banks of a frame differ only in how far a scan got when it is stopped, so one is
enough, and a second radio would add only its name: it never gets the command that keeps a
link.

**Fairness.** `FairMidiSpec` assumes that a walk once begun goes on (it is
straight-line code), that frames keep arriving (the board reports a stalled
acquisition as a fault, which is an action of its own), and that the port accepts
packets again and again (a host is reading); strong fairness is needed for the last,
because refusals come in between. `FairSpec` of the journal assumes
that the owner loop and the clock run: `Boot`, `Notice`, `BeginSave`, `Tick`, each
step of a write or clear, and the application of defaults. Fairness of `BeginSave` is weak, so it
asks for a save only where the gate stays open. That the gate opens is not fairness but a premise
of the property: a battery below 21%, an unknown supply or a transport that never drains puts a
save off for as long as it lasts, without a fault (`docs/DEVICE_CONFIG_STORAGE.md:206-208`), and
a gate that opens only for moments may never meet a turn of the loop. `SettingsGetSaved` has as
premises that power cuts and resets end, that from some moment on the keyboard is left calm with
the gate open, and on the M1 that the store is ready at the end (it is not after a reset, which
is the finding); before that moment the gate may turn as it likes, so the run shows that no change
is forgotten because its save was put off. Nothing is assumed of the host's commands, of the
player before the calm, or of the success of a flash operation.
`FairSpec` of the control session assumes that the owner loop runs, that the lease of a host that is not heard runs out, and that the port takes a chunk again
and again (strong fairness, because refusals and resets come in between). Nothing is
assumed of what the host sends. `PowerSpec` assumes that the main loop turns (its steps that
stay possible are taken), that the scan's interrupts come, and that whoever waits for the
peer ends waiting, by an answer or by the deadline (strong fairness of `Answered`, because
the peer can come and go). Nothing is assumed of the cable, the user or the peer.
`CableIsServed` has as its premise that the cable stays.

## What is proved

`KeyboardRawProofs` proves, for every number of keys, window, set of readings and set
of threshold commands, type correctness and the five properties that the run `raw` checks:
`RawTypeCorrect`, `WorklistCorrect`, `ThresholdsCorrect`, `FullScanCorrect`,
`StrikesCorrect` and `ArmingCorrect`. They rest on `RawConstants`, the assumptions on
the constants (which say that the default thresholds are ordered and below the
largest reading, and that a window holds at least two readbacks), and on one inductive
invariant, `RawInv` (theorem `RawInvariant`):

* `WorklistCovers` is not inductive alone. When the keyboard is idle and armed the
  frame is skipped, so an invariant must say that then there is nothing to do:
  `NothingLeft`.
* `FullScanEquivalent` compares the skipped frame with a full scan. The two agree only
  if the recorded `down` agrees with the last readings: `SchmittSettled`.
* The skip is sound because a frame in which every reading is above its release
  threshold is above its press threshold as well, which is `ThresholdsOrdered`.

The action properties follow from the invariant, one step per action of `RawNext`.

`MidiControlProofs` proves, for every set of sessions and commands, queue length, batch and
message length, type correctness and the four safety properties of `control`: `ControlTypeCorrect`,
`OrderCorrect`, `StreamsCorrect`, `LossCorrect` and `MessagesCorrect`. They rest on
`StreamConstants` and `ControlConstants` (a batch fits the queue; the symbols of messages
differ) and on the inductive invariant `ControlInv` (theorem `ControlInvariant`), one
lemma for each of its parts:

* `TypeInv` adds that a session in force is a host's, and that there is a message
  whenever a chunk is to be written.
* `ExecutedOnceInOrder` needs that as many commands ran as numbers were used (`OrderInv`).
* `NoSilentLoss` needs to know when a capture that missed an acquisition may go on:
  never, because without a latched fault the stream stands still (`enabled` is false), and
  then the port is not ready and becomes ready again only through a reset that stops the
  stream (`LossInv`).
* `StreamsEndWithSession` is inductive.
* `MessagesAreWhole` needs that a session in force has a part of a message on the line
  only while the transmitter holds the rest (`WholeInv`). A HELLO could break that, so
  the invariant carries that a session that is asked for is fresh (`FreshRequests`),
  from the mailbox to the dispatch.

`KeyboardMidiProofs` proves, for every finite set of keys, every keyboard, range of notes,
number of strike slots and length of the queue, `MidiTypeCorrect`, `HostCorrect`,
`CleanupCoversHost`, `CleanupFinality`, `VoicesCorrect` and `SweepAdvances`, the last an
action property. They rest on `RawConstants`, `MidiConstants` and the inductive invariant
`MidiInv` (theorem `MidiInvariant`), which contains `RawInv` and three of the properties:

* `HostFollowsKeys` compares the host, once the queue is delivered, with reference counts; so
  the counts must be right (`RefsCount`: as many keys sound a note as it has owners). That is
  proved with the cardinality theorems of the library.
* A strike that is dropped must not leave its key sounding, so a key owns one strike at most
  (`OneStrike`), and whoever owns anything is on the worklist (`WorkCovers`).
* Inside a frame the keys before the walk's position are judged by this frame and those after
  it by the last one (`WalkPosition`); between frames the history is this frame's
  (`HistoryCurrent`), because an edge that is lost strands its note.
* A frame walks only outside a cleanup and in MIDI mode (`ModeRules`).

`ProfileJournalProofs` proves, for every set of settings and calibrations, every generation
counter of two bits or more and both boards, `TrackingCorrect`, `DurabilityCorrect`,
`WearCorrect` and `RefinementCorrect`: the journal implements `AtomicProfile`, initial states to
initial states, and each step of a save, a reset, a failure, a power cut or a boot to a step of
the atomic cell or to none. They rest on `JournalConstants`, `PageKinds` (a record is neither
torn nor blank) and `JournalInv` (theorem `JournalInvariant`):

* `JournalTracksFlash` alone says nothing about the page being written. `SaveInProgress` adds
  that the candidate has the next generation and that the page it does not replace still holds
  what RAM names; `ClearInProgress` that the older page is gone before the newest is erased.
* That the next generation wins in a modular comparison, and the one before it loses, is a
  lemma (`NextIsNewer`); it is why two bits are needed.
* `NoWear` needs that `pending` is exactly the difference between what was last seen and what is
  saved (`PendingIsDifference`).

`M1WirelessProofs` proves, for every set of transports, keys and usages, every length of the key
list and any glitch of the peer, the four properties of `radio`: `HostCorrect`, `SleepCorrect`,
`SilenceCorrect` and `HeldKeysCorrect`. They rest on `WirelessConstants` and `WirelessInv`
(theorem `WirelessInvariant`). Its parts are operators on a session, so that one service, which
completes a packet, ages the status and sends the next packet, is proved in these three steps:

* `WireInv`: what is in flight is in the HAL's buffer, and it is what the session has staged.
* `SessionInv`: a linked session is confirmed; a pairing, a sleep command and a new baseline come
  only with released reports; a key that stays held keeps its place (`Follows`).
* `PeerInv`: the peer of a linked session serves the session's slot; it sleeps only on a command;
  its host is silent when a session begins, and holds nothing but what the session knows
  (`ServedInv`), or what was given up on the wire.
* `HostInv`: which half of the report the host has, before and after the list arrived.

Two things were wrong in the model before these proofs. A list that rolls over reaches the host
as an error and leaves its list as it was, so the host can hold a key of neither report:
`HostIsKnown` now has that condition, and `radio` enough keys for the list to roll over. And what
is given up on the wire marked the session, not the host it reaches, so that after a change of
slots a whole report to another host excused nothing any more; `torn` now belongs to the host,
and `stray` was added for the consumer usage, which no run had turned before.

`M1LinkProofs` proves, for every set of transports, keys and usages and any glitch of the peer, both
properties of `link`: `LeftHostsCorrect` (`NoKeyLeftBehind`) and `ControlsCorrect`
(`RadioFollowsControls`). They rest on `WirelessConstants` and on `LinkInv` (theorem
`LinkInvariant`), which contains `WirelessInv`; the radio's half of a pass is taken from the lemmas
about single calls of the scheduler. Its other parts:

* `SwitchInv`: a selection that was tried and not ended belongs to a switch of the controls, and one
  that was given up is a fault, after which no frame is taken. Only then may the radio and the
  controls name different transports, which is all that `RadioFollowsControls` excepts.
* `SilenceInv` is the heart of `NoKeyLeftBehind`. Once a selection has begun (`Parted`), or while
  USB is served, the radio has nothing down, staged or on the wire but releases (`Unsaid`); while a
  radio is served, or once a selection has begun, the USB endpoints hold nothing. `Left` says whom
  this silences: every other host, any host during a selection, and a radio's host to which the
  session has not spoken yet. The last is needed because a session may forget what it said, after
  a status deadline or with a peer that lost its link, and be asked to switch before it spoke again.
* `UsbSentInv`: as long as its generation is current, the USB host holds a part of the report that
  the application counts as sent, or the endpoint still has it. That is why an empty report that
  was accepted, with drained endpoints, means a silent host; and so for the consumer control.
* A switch begins with all of it empty (`SwitchIsSilent`, from the conditions of `drained` in
  `m1_live.c`), and no step of a selection fills it again (`StaysEmpty`).

`M1PowerProofs` proves, for every number of banks, length of the frame queue and set of radios,
`FramesCorrect`, `LossesCorrect`, `RailsCorrect` and `FailuresCorrect`. They rest on
`ScanConstants` alone and on `PowerInv` (theorem `PowerInvariant`):

* `FrameInv` is about the queue, whatever the owner does: the i-th waiting frame is the i-th
  oldest, and a hole that the reader has not judged yet shows in the numbers it was told.
* The rest says, phase by phase of the owner, what the phase may rely on: `RailInv` (where sensors
  are on), `RadioInv` (what the session is doing, and in which phases a sleep command can be out),
  `LiveInv` (draining, parked or awake), `BoardInv` (USB, lights, pins, clock), `SourceInv` (the
  candidate of a change of source) and `HalInv` (the scanner and the capture's one frame).
* `FailsOnlyForCause` is the reason that all of this is needed: each HAL call that the owner
  makes has a guard, and a false guard would be a failure without a cause.

`KeyboardAppProofs` proves, for every set of keyboards and every number of held keys, the five
properties of `app`: `OwnedKeysSilent`, `BoundsCorrect`, `ReportCorrect`, and of the action
properties `EraseCorrect` and `CandidateCorrect`. They rest on `KeyboardsAssumption` (a keyboard
has keys the editors know, and Fn) and on `AppInv` (theorem `AppInvariant`):

* An owner of the input is never armed, so what a key did while it was owned cannot be in the
  report; and while nobody owns the input a key that stays held is no edge (`down` is `held`), so
  the engine is not told about it (`KeysOK`).
* `ReportFollowsHands` compares the report with the hands through what the engine counts as
  pressed, which is held or an option of the menu (the keys of the finding `stuck_key`), and Fn
  is never one of those.
* `StoreOK` adds to `BoundsMatchFlash` that the bounds are the factory's until the flash was
  read: a frame that loads nothing and collects nothing leaves them so.
* `AskOK`: a question that takes an answer has seen every key released. `EraseNeedsFreshYes` needs
  it together with the only path to an erase, which `MenuStep` describes.

A frame is a chain of stages on one record, so the lemmas are about single operators, by what
they may do (`Kept`, `Calms`, `Shows`, `Leaves`), and compose. The engine's part of a frame folds
the keys that moved, any number of them. That is an induction over data, but over finite sets it
needs no operator as a parameter: a family of subsets of a finite set has a minimal member
(`MinimalMember`, from the library's well-founded order of subsets), hence the fold exists and is
unique (`RunExists`, `RunsAgree`), and what `Mid` says of the keys dealt with so far holds of all.
Nothing is used of the order of a fold but that it is one; the code's is the order of its worklist.

Checked by TLC only:

* all liveness (`LettingGoSilences`, `SettingsGetSaved`, `CableIsServed` and the three of `control`):
  fairness and `ENABLED` are outside the prover;
* the runs that expect a violation: a counterexample needs no proof.

## Findings

* **A profile reset can drop a cleanup sweep** (`reset_drops_sweep`).
  `keyboard_app_reset_profile` starts a sweep (`keyboard_app.c:31`). The neutral frame
  that applies the reset calls `defaults()`, whose `keyboard_midi_init` zeroes `panic`
  and `host_dirty`, and the abort that follows (`keyboard_app.c:111`) then finds nothing
  to clean up. If the sweep was not finished, notes the host still holds stay on. The
  comments at `keyboard_midi.c:49-53` say that a sweep is never restarted and an existing
  cleanup never dropped.
* **After a profile reset the M1 saves nothing** (`m1_reset_stops_saving`).
  `device_store_clear` leaves the store not ready; the M1's operations have no load, and
  `device_store_load` is called only at start, so `device_store_poll` returns at once
  until the next boot. `docs/DEVICE_CONFIG_STORAGE.md:250` says "Defaults apply after
  release and save automatically." (The same document says at 229-233 that the M1's reset
  support is unfinished.)
* **A key can stay in the report with nothing held** (`stuck_key`). Outside MIDI mode
  `keyboard_raw.c:290-291` keeps every edge of a menu option key from the engine while Fn is
  down, releases too. Hold C, press Fn, release C, release Fn: the engine never hears of C's
  release. `docs/M1_TEST_CHECKLIST.md:98` expects "no stuck or missing key".
  `ReportFollowsHands` therefore exempts those keys.
* **A Bluetooth host that leaves while the M1 goes to sleep fails the keyboard**
  (`lost_host`). The policy chose to keep the link (command 5) while there was one;
  `m1_wireless.c:185` refuses the command without a ready peer,
  `m1_runtime_power.c:164` asks again on every turn, and the handoff deadline (`:148-149`)
  fails the owner, which stays down until a cable resets it. `docs/MONSGEEK_M1.md:564-566`
  says that silence alone does not fault the application and the owner "must still reach its
  offline/search sleep limit". `FailsOnlyForCause` names the case as a cause (`HostLeft`).

* **One document gives a deferred calibration a deadline that it does not have**
  (`CandidateOutlastsDeferral` in `app`, a passing run). `docs/DEVICE_CONFIG_STORAGE.md:196-197`
  says "Busy gates defer without writes; the shared five-second inactivity deadline still
  applies." `calibration_tick` (`keyboard_calibration.c:37-41`) leaves `CAL_SAVE` out of that
  deadline: a finished calibration waits for its save however long that is put off, until it is
  cancelled or the scan turns bad. The property says so, the contrary of the sentence, and is proved
  (`CandidateCorrect`). `docs/PORTING.md:585-586`, `docs/MONSGEEK_M1.md:710-711`,
  `docs/VALIDATION.md:181-183`, `docs/TELEMETRY.md:338` and `tests/test_portable_app.c:287-288`
  agree with the code, so the sentence is the one that is out of date.

## Observations

Behaviours that the models have, but that no run claims anything about:

* On the Huntsman `now` is read (`midi_control.c:141`) before the locked copy of the
  mailbox (`:87`). If the first byte of a message comes in between and the millisecond
  has changed, `now - s_rx_at` wraps (`:90`) and the message is dropped although it has
  just begun; `TakeCommand` has the case as `rxAhead`. The host sees a lost message, as
  after any torn one.
* A KEEPALIVE that waits in the mailbox of one makes the interrupt discard the packets of
  a COMMAND (`:61`), although the host waited for its last ACK as the comment at `:8` asks.
* On the Huntsman an interrupted reset can bring back an older profile. The clear does not
  look at the store's fault. After a save whose read-back failed, or a boot that could not
  read the newest page, the RAM copy names the older page, so the newest is erased first, and
  power loss leaves the older. `docs/DEVICE_CONFIG_STORAGE.md:252` says "older-first erasure
  prevents stale-record resurrection"; `AtomicProfile` names the exception.
* While Fn is held, a key that is struck again and again postpones its own velocity fit, and
  with it its note, for as long as that goes on.
* The status deadline abandons a radio report of which one packet of two is on the wire. A
  host that is still there then holds keys the firmware has forgotten, until the neutral
  baseline reaches it; the radio's properties exempt that span (`torn`).
* The same deadline gives up a consumer packet. Its completion then counts what the baseline
  has staged, the release, as seen (`m1_wireless.c:256-258`), so the release of a usage that
  the host did get is taken for done and never sent (`stray`).

## Not modelled

* The Huntsman's optical acquisition (`optical_transport.c`, `optical_bus.c`,
  `keyboard_reference_tables.c`): the reset, boot and table phases of an external controller
  over a serial bus, and constant tables. What it delivers, a frame or a fault, is the input
  of `KeyboardRaw` and `KeyboardApp`.
* Wheels, pressure, velocities, scales as pitch arithmetic, travel sampling, text: pure
  functions and latest values without a queue or an owner. A scale is a set of notes here.
* LED encodings and effects, USB descriptors and control requests, packet and record
  encodings, CRCs: formats that no property tells apart. The life cycle of the LED transfer is
  in `M1Power`, because sleep depends on it.
* The knob's quadrature decoder, the battery gauge, the update mode of either board.
* The synthetic board, host programs, tests and vendored code.
* A polite host beside `MidiControl`, which waits for its answers and repeats what was lost,
  and the M1's draining mode.

## Plan

Every safety and action property of a passing run is a theorem. What a proof can still add is
about the models rather than about the runs:

* type correctness of `M1Wireless`, `M1Power` and `KeyboardApp` as theorems of their own (it is a
  part of their invariants, or in `KeyboardApp` reduced to the fields of the record);
* that the engine's report does not depend on the order of a dispatch outside the editors, by the
  induction of `KeyboardAppProofs`.
