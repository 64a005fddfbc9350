---------------------------- MODULE KeyboardMidi ----------------------------
(***************************************************************************)
(* keyboard_midi.c: the edges and fits of KeyboardRaw become Note On, Note *)
(* Off and sustain events in a bounded queue that the owner loop drains    *)
(* into the USB port one packet at a time, and a cleanup sweep silences    *)
(* the host whenever the input or the meaning of the keys is disturbed.    *)
(*                                                                         *)
(* The owner runs one call at a time.  keyboard_midi_frame walks over the  *)
(* keys it has work for; each stage of that walk is an action here, and    *)
(* `phase` keeps every other action out until the walk is over.            *)
(***************************************************************************)
EXTENDS KeyboardRaw, Sequences, FiniteSetsExt

CONSTANTS
    MaxNote,        \* notes are 0..MaxNote (127)
    Unmapped,       \* MIDI_UNMAPPED
    Slots,          \* MIDI_PENDING_STRIKES: strikes a key can buffer (5)
    QueueSize,      \* MIDI_QUEUE: events the FIFO holds (128)
    OctaveStep,     \* semitones in an octave shift (12)
    OctaveLimit,    \* MIDI_OCTAVE_LIMIT (10)
    Scales,         \* the note sets Fn+K / Fn+S can select
    Chromatic,      \* the default one of them
    Scenarios       \* keyboards, and what is done to them; see below

Notes == 0 .. MaxNote
Pedal == MaxNote + 1          \* CC64, treated as one more voice of the host
Voices == 0 .. Pedal
NoSlot == 0                   \* current[k] when no buffered strike is held
SlotIds == 1 .. Slots
CleanupEvents == MaxNote + 6  \* MIDI_CLEANUP_EVENTS (133)

ASSUME MidiConstants ==
    /\ MaxNote \in Nat
    /\ Unmapped \notin Int
    /\ Slots \in Nat \ {0}
    /\ QueueSize \in Nat \ {0}
    /\ OctaveStep \in Nat /\ OctaveLimit \in Nat
    /\ Scales \subseteq SUBSET Notes
    /\ Chromatic \in Scales
    /\ \A sc \in Scenarios :
          /\ sc.role \in [Keys -> {"note", "fn", "sustain", "up", "down", "spare"}]
          /\ sc.mapping \in [Keys -> Notes \cup {Unmapped}]
          /\ sc.janko \in [Keys -> Notes \cup {Unmapped}]
          /\ sc.lower \subseteq Keys
          /\ sc.commands \subseteq {"toggle", "lower", "janko", "music", "remap", "apply",
                                   "reset", "raw"}

VARIABLES
    scenario,     \* the keyboard at hand; it never changes
    mode, mapping, octave, lowerMuted, janko, scale, \* what the keys mean
    applied,      \* the stored profile was applied this boot
    active,       \* active[k]: the note k sounds, or Unmapped
    pend,         \* pend[k][s]: the note buffered in slot s, or Unmapped
    current,      \* current[k]: the slot of the strike still held, or NoSlot
    released,     \* released[k]: slots whose key came up before they fired
    previous,     \* keys down in the last processed frame
    noteWork,     \* keys the frame must visit
    refs,         \* refs[n]: keys sounding n
    sustain,      \* the pedal
    wasArmed,     \* the last processed frame was armed
    queue,        \* events waiting for the port: [voice, on]
    panic,        \* cleanup events still to send
    hostDirty,    \* a packet was accepted since the last finished cleanup
    resetPending, \* a profile reset waits for a neutral frame
    host,         \* voices the USB host holds on (environment)
    phase, key, slot \* where keyboard_midi_frame is

(* The tables of a keyboard: the role of each key ("spare": never          *)
(* pressed), the note it plays by default and in the Janko layout, the     *)
(* keys Fn+Left Shift mutes; and the commands that reach it.               *)
Role == scenario.role
DefaultMapping == scenario.mapping
JankoNotes == scenario.janko
LowerRow == scenario.lower
Commands == scenario.commands

meaningVars == <<mode, mapping, octave, lowerMuted, janko, scale, applied>>
voiceVars == <<active, pend, current, released, previous, noteWork, refs, sustain, wasArmed>>
outVars == <<queue, panic, hostDirty, host>>
walkVars == <<phase, key, slot>>
restVars == <<scenario, resetPending>>
midiVars == <<scenario, meaningVars, voiceVars, outVars, resetPending, walkVars>>
vars == <<rawVars, midiVars>>

MidiTypeOK ==
    /\ RawTypeOK
    /\ mode \in BOOLEAN /\ lowerMuted \in BOOLEAN /\ janko \in BOOLEAN /\ applied \in BOOLEAN
    /\ mapping \in [Keys -> Notes \cup {Unmapped}]
    /\ octave \in (0 - OctaveLimit) .. OctaveLimit
    /\ scale \in Scales
    /\ active \in [Keys -> Notes \cup {Unmapped}]
    /\ pend \in [Keys -> [SlotIds -> Notes \cup {Unmapped}]]
    /\ current \in [Keys -> SlotIds \cup {NoSlot}]
    /\ released \in [Keys -> SUBSET SlotIds]
    /\ previous \in SUBSET Keys /\ noteWork \in SUBSET Keys
    /\ refs \in [Notes -> Nat]
    /\ sustain \in BOOLEAN /\ wasArmed \in BOOLEAN
    /\ queue \in Seq([voice : Voices, on : BOOLEAN]) /\ Len(queue) <= QueueSize
    /\ panic \in 0 .. CleanupEvents
    /\ hostDirty \in BOOLEAN /\ resetPending \in BOOLEAN
    /\ host \in SUBSET Voices
    /\ phase \in {"idle", "controls", "release", "fire", "strike"}
    /\ key \in Keys /\ slot \in SlotIds

-----------------------------------------------------------------------------
(* Operators of keyboard_midi.c.                                           *)

NoteMapping(k) ==
    IF janko /\ JankoNotes[k] # Unmapped THEN JankoNotes[k] ELSE mapping[k]

Muted(k) == ~janko /\ lowerMuted /\ k \in LowerRow

(* note_enabled and the range check after it.                              *)
NoteEnabled(k) ==
    /\ NoteMapping(k) # Unmapped
    /\ NoteMapping(k) + OctaveStep * octave \in Notes \cap scale
    /\ ~Muted(k)

SoundingNote(k) == NoteMapping(k) + OctaveStep * octave

FnHeld == \E k \in down : Role[k] = "fn"
Buffered(k) == {s \in SlotIds : pend[k][s] # Unmapped}
SilentKeys == [k \in Keys |-> Unmapped]
EmptySlots == [k \in Keys |-> [s \in SlotIds |-> Unmapped]]

(* enqueue: n more events do not fit.                                      *)
BugFull(n) == Len(queue) + n > QueueSize + 1 \* mutant: one event too many
Full(n) == Len(queue) + n > QueueSize

(* Ownership of a pitch.  note_off sends only for the last owner.          *)
LastOwner(n) == refs[n] = 1

Disowned(n) == IF refs[n] > 0 THEN [refs EXCEPT ![n] = @ - 1] ELSE refs

(* A key leaves the worklist with nothing buffered and nothing sounding.   *)
BugSettled(k) == active[k] = Unmapped \* mutant: buffered strikes forgotten
Settled(k) == Buffered(k) = {} /\ active[k] = Unmapped

BugClearVoices ==                     \* mutant: the queue and pedal survive
    /\ active' = SilentKeys
    /\ pend' = EmptySlots
    /\ current' = [k \in Keys |-> NoSlot]
    /\ released' = [k \in Keys |-> {}]
    /\ previous' = {}
    /\ noteWork' = {}
    /\ refs' = [n \in Notes |-> 0]
    /\ wasArmed' = FALSE
    /\ UNCHANGED <<queue, sustain>>
ClearVoices ==
    /\ active' = SilentKeys
    /\ pend' = EmptySlots
    /\ current' = [k \in Keys |-> NoSlot]
    /\ released' = [k \in Keys |-> {}]
    /\ previous' = {}
    /\ noteWork' = {}
    /\ refs' = [n \in Notes |-> 0]
    /\ queue' = <<>>
    /\ wasArmed' = FALSE
    /\ sustain' = FALSE

(* The sweep keyboard_midi_abort leaves in progress: it starts one when    *)
(* the host may hold state, and never restarts one.                        *)
BugRestart(playing) ==                \* mutant: a fault restarts the sweep
    IF playing \/ hostDirty \/ panic > 0 THEN CleanupEvents ELSE 0
BugModeOnly(playing) ==               \* mutant: leaving MIDI mode forgets the host
    IF panic = 0 /\ playing THEN CleanupEvents ELSE panic
CleanupAfterAbort(playing) ==
    IF panic = 0 /\ (playing \/ hostDirty) THEN CleanupEvents ELSE panic

Abort ==
    /\ ClearVoices
    /\ panic' = CleanupAfterAbort(mode)
    /\ UNCHANGED <<hostDirty, host>>

(* The voices that event number `index` of the sweep silences.  The four   *)
(* after the notes (CC120, CC123, modulation, bend centre) concern state   *)
(* this module does not keep.                                              *)
BugSilenced(index) ==                 \* mutant: off by one
    IF index = 0 THEN {Pedal} ELSE {index} \cap Notes
Silenced(index) ==
    IF index = 0 THEN {Pedal} ELSE {index - 1} \cap Notes

(* One cleanup event of a sweep with p to go, accepted by the port.        *)
SweepStep(p) ==
    /\ panic' = p - 1
    /\ host' = host \ Silenced(CleanupEvents - p)
    /\ hostDirty' = (hostDirty /\ p # 1)

Goto(p, k) == phase' = p /\ key' = k
Rest == phase' = "idle" /\ UNCHANGED <<key, slot>>
Idle == phase = "idle"

-----------------------------------------------------------------------------
(* keyboard_midi_frame                                                     *)

GuardTrips == wasArmed /\ ~armed

(* The head of a frame: detection, then keyboard_midi_guard; without armed *)
(* input nothing follows, and in keyboard mode or during a cleanup only    *)
(* the edge history is kept.                                               *)
FrameBegin(in, ok) ==
    /\ Idle
    /\ ~(resetPending /\ Usable(in, ok) /\ AllReleased(in))
    /\ \/ PerformanceFrame(in, ok)
       \/ ObserveFrame(in, ok)
    /\ \/ /\ ~armed'
          /\ \/ wasArmed /\ Abort
             \/ ~wasArmed /\ UNCHANGED <<voiceVars, outVars>>
          /\ UNCHANGED walkVars
       \/ /\ armed'
          /\ wasArmed' = TRUE
          /\ \/ /\ ~mode \/ panic > 0
                /\ previous' = down'
                /\ UNCHANGED walkVars
             \/ /\ mode /\ panic = 0
                /\ Goto("controls", key)
                /\ UNCHANGED <<previous, slot>>
          /\ UNCHANGED <<active, pend, current, released, noteWork, refs, sustain, outVars>>
    /\ UNCHANGED <<meaningVars, restVars>>

(* A frame in which the menu or calibration lets go of the input: disarmed *)
(* again before the MIDI part runs.                                        *)
FrameReleasesInput(in) ==
    /\ Idle
    /\ ~(resetPending /\ AllReleased(in))
    /\ ReleaseInput(in)
    /\ \/ wasArmed /\ Abort
       \/ ~wasArmed /\ UNCHANGED <<voiceVars, outVars>>
    /\ UNCHANGED <<meaningVars, restVars, walkVars>>

(* overflow: in keyboard_midi_frame.                                       *)
GiveUp ==
    /\ Abort
    /\ RawInvalidate
    /\ Rest
    /\ UNCHANGED <<configVars, observed, raw, restVars>>

Overflow == GiveUp /\ UNCHANGED meaningVars

(* The walk is over: the edge history catches up.                          *)
FrameEnd ==
    /\ previous' = down
    /\ Rest

(* On to the next key of the worklist after k (0 before the first).        *)
NextKey(k, work) ==
    LET rest == {j \in work : j > k}
    IN  \/ rest = {} /\ FrameEnd
        \/ /\ rest # {}
           /\ Goto("release", Min(rest))
           /\ UNCHANGED <<previous, slot>>

Clamp(o) == IF o < 0 - OctaveLimit THEN 0 - OctaveLimit
            ELSE IF o > OctaveLimit THEN OctaveLimit ELSE o
Struck(role) == {k \in down \ previous : Role[k] = role}

(* Octave keys and the pedal.  A pedal change is queued ahead of the notes *)
(* of the same scan.                                                       *)
Controls ==
    LET shift == Cardinality(Struck("up")) - Cardinality(Struck("down"))
        pedal == ~FnHeld /\ \E k \in down : Role[k] = "sustain" /\ (sustain \/ k \notin previous)
        shifted == IF FnHeld THEN octave ELSE Clamp(octave + shift)
    IN  /\ phase = "controls"
        /\ octave' = shifted
        /\ \/ /\ pedal # sustain /\ Full(1)
              /\ GiveUp
           \/ /\ pedal = sustain \/ ~Full(1)
              /\ sustain' = pedal
              /\ queue' = IF pedal = sustain THEN queue
                          ELSE Append(queue, [voice |-> Pedal, on |-> pedal])
              /\ noteWork' = noteWork \cup changed
              /\ NextKey(0, noteWork')
              /\ UNCHANGED <<active, pend, current, released, refs, wasArmed,
                             panic, hostDirty, host, rawVars, restVars>>
        /\ UNCHANGED <<mode, mapping, lowerMuted, janko, scale, applied>>

(* Note Off goes to the pitch that was struck, whatever the key means now. *)
BugReleasedNote(k) ==                 \* mutant: the pitch it would play now
    IF active[k] # Unmapped /\ SoundingNote(k) \in Notes THEN SoundingNote(k) ELSE active[k]
ReleasedNote(k) == active[k]

(* A key that came up: its buffered strike is marked released, and the     *)
(* note it sounds loses an owner; the last owner sends Note Off.           *)
KeyRelease ==
    LET up == key \in previous \ down
        note == ReleasedNote(key)
        lets == up /\ note # Unmapped
        last == lets /\ LastOwner(note)
    IN  /\ phase = "release"
        /\ \/ last /\ Full(1) /\ Overflow
           \/ /\ ~(last /\ Full(1))
              /\ released' = IF up /\ current[key] # NoSlot
                             THEN [released EXCEPT ![key] = @ \cup {current[key]}]
                             ELSE released
              /\ active' = IF up THEN [active EXCEPT ![key] = Unmapped] ELSE active
              /\ refs' = IF lets THEN Disowned(note) ELSE refs
              /\ queue' = IF last THEN Append(queue, [voice |-> note, on |-> FALSE])
                          ELSE queue
              /\ phase' = IF Buffered(key) # {} /\ key \notin pending
                          THEN "fire" ELSE "strike"
              /\ slot' = 1
              /\ UNCHANGED <<key, pend, current, previous, noteWork, sustain, wasArmed,
                             panic, hostDirty, host, rawVars, meaningVars, restVars>>

(* The key's fit is closed: the buffered strike of one slot sounds.  The   *)
(* first owner of a note sends Note On; a strike released meanwhile takes  *)
(* its ownership back at once.                                             *)
KeyFire ==
    LET note == pend[key][slot]
        first == note # Unmapped /\ refs[note] = 0
        tap == slot \in released[key]
        events == IF ~first THEN <<>>
                  ELSE IF tap THEN <<[voice |-> note, on |-> TRUE], [voice |-> note, on |-> FALSE]>>
                  ELSE <<[voice |-> note, on |-> TRUE]>>
    IN  /\ phase = "fire"
        /\ \/ Full(Len(events)) /\ Overflow
           \/ /\ ~Full(Len(events))
              /\ queue' = queue \o events
              /\ refs' = IF note # Unmapped /\ ~tap THEN [refs EXCEPT ![note] = @ + 1] ELSE refs
              /\ active' = IF note # Unmapped /\ ~tap THEN [active EXCEPT ![key] = note] ELSE active
              /\ current' = IF note # Unmapped /\ current[key] = slot
                            THEN [current EXCEPT ![key] = NoSlot] ELSE current
              /\ pend' = [pend EXCEPT ![key][slot] = Unmapped]
              /\ \/ slot < Slots /\ slot' = slot + 1 /\ UNCHANGED phase
                 \/ slot = Slots /\ phase' = "strike" /\ UNCHANGED slot
              /\ UNCHANGED <<key, released, previous, noteWork, sustain, wasArmed,
                             panic, hostDirty, host, rawVars, meaningVars, restVars>>

(* A key that went down buffers its note in a free slot until its fit      *)
(* closes; a key with nothing buffered and nothing sounding leaves the     *)
(* worklist.                                                               *)
KeyStrike ==
    LET strikes == ~FnHeld /\ key \in down \ previous /\ NoteEnabled(key)
        free == SlotIds \ Buffered(key)
        s == Min(free)
    IN  /\ phase = "strike"
        /\ \/ strikes /\ free = {} /\ Overflow
           \/ /\ ~(strikes /\ free = {})
              /\ \/ /\ strikes
                    /\ pend' = [pend EXCEPT ![key][s] = SoundingNote(key)]
                    /\ released' = [released EXCEPT ![key] = @ \ {s}]
                    /\ current' = [current EXCEPT ![key] = s]
                    /\ noteWork' = noteWork
                 \/ /\ ~strikes
                    /\ noteWork' = IF Settled(key)
                                   THEN noteWork \ {key} ELSE noteWork
                    /\ UNCHANGED <<pend, released, current>>
              /\ NextKey(key, noteWork)
              /\ UNCHANGED <<active, refs, sustain, wasArmed, outVars, rawVars,
                             meaningVars, restVars>>

-----------------------------------------------------------------------------
(* keyboard_midi_service, behind the guard keyboard_app_service runs       *)
(* first: at most one packet, if the port accepts it.                      *)

Service(accepted) ==
    /\ Idle
    /\ \/ /\ GuardTrips
          /\ ClearVoices
          /\ LET p == CleanupAfterAbort(mode)
             IN \/ accepted /\ p > 0 /\ SweepStep(p)
                \/ (~accepted \/ p = 0) /\ panic' = p /\ UNCHANGED <<host, hostDirty>>
       \/ /\ ~GuardTrips /\ accepted
          /\ \/ panic > 0 /\ SweepStep(panic) /\ UNCHANGED queue
             \/ /\ panic = 0 /\ queue # <<>>
                /\ host' = IF Head(queue).on THEN host \cup {Head(queue).voice}
                           ELSE host \ {Head(queue).voice}
                /\ hostDirty' = TRUE
                /\ queue' = Tail(queue)
                /\ UNCHANGED panic
          /\ UNCHANGED voiceVars
    /\ UNCHANGED <<rawVars, meaningVars, restVars, walkVars>>

-----------------------------------------------------------------------------
(* What changes the meaning of the keys releases them first.               *)

(* Abort and invalidate together, judged by the mode after the edit.       *)
Relabel(playing) ==
    /\ ClearVoices
    /\ panic' = CleanupAfterAbort(playing)
    /\ RawInvalidate
    /\ UNCHANGED <<hostDirty, host, configVars, observed, raw, restVars, walkVars>>

Toggle ==
    /\ Idle /\ "toggle" \in Commands
    /\ mode' = ~mode
    /\ Relabel(~mode)
    /\ UNCHANGED <<mapping, octave, lowerMuted, janko, scale, applied>>

ToggleLower ==
    /\ Idle /\ "lower" \in Commands
    /\ mode
    /\ lowerMuted' = ~lowerMuted
    /\ Relabel(mode)
    /\ UNCHANGED <<mode, mapping, octave, janko, scale, applied>>

ToggleJanko ==
    /\ Idle /\ "janko" \in Commands
    /\ mode
    /\ janko' = ~janko
    /\ Relabel(mode)
    /\ UNCHANGED <<mode, mapping, octave, lowerMuted, scale, applied>>

SelectMusic(sc) ==
    /\ Idle /\ "music" \in Commands
    /\ mode
    /\ scale' = sc
    /\ Relabel(mode)
    /\ UNCHANGED <<mode, mapping, octave, lowerMuted, janko, applied>>

Map(k, n) ==
    /\ Idle /\ "remap" \in Commands
    /\ Role[k] = "note"
    /\ mapping' = [mapping EXCEPT ![k] = n]
    /\ Relabel(mode)
    /\ UNCHANGED <<mode, octave, lowerMuted, janko, scale, applied>>

(* device_store_apply, once a boot: the stored profile replaces the        *)
(* settings.                                                               *)
ApplyProfile(stored, pr, rl) ==
    /\ Idle /\ "apply" \in Commands
    /\ ~applied
    /\ applied' = TRUE
    /\ mode' = stored.mode /\ octave' = stored.octave
    /\ lowerMuted' = stored.lowerMuted /\ janko' = stored.janko
    /\ scale' = stored.scale /\ mapping' = stored.mapping
    /\ enabled' = stored.enabled /\ press' = pr /\ release' = rl
    /\ ClearVoices
    /\ panic' = CleanupAfterAbort(stored.mode)
    /\ RawInvalidate
    /\ UNCHANGED <<hostDirty, host, observed, raw, restVars, walkVars>>

-----------------------------------------------------------------------------
(* keyboard_app_reset_profile, after the board erased the profile, and the *)
(* neutral frame that restores the defaults: keyboard_midi_init forgets    *)
(* the voices and the cleanup alike, and the abort after it finds nothing. *)

ResetProfile ==
    /\ Idle /\ "reset" \in Commands
    /\ Abort
    /\ RawInvalidate
    /\ resetPending' = TRUE
    /\ UNCHANGED <<scenario, configVars, observed, raw, meaningVars, walkVars>>

FrameAppliesReset(in, ok) ==
    /\ Idle
    /\ resetPending /\ Usable(in, ok) /\ AllReleased(in)
    /\ RawReset
    /\ observed' \in {observed, FALSE}
    /\ ClearVoices
    /\ mode' = FALSE /\ octave' = 0 /\ mapping' = DefaultMapping
    /\ lowerMuted' = FALSE /\ janko' = FALSE /\ scale' = Chromatic
    /\ panic' = 0
    /\ hostDirty' = FALSE
    /\ resetPending' = FALSE
    /\ UNCHANGED <<scenario, applied, host, walkVars>>

-----------------------------------------------------------------------------

(* Everything else that touches the input state between two calls.         *)
DisturbInput ==
    /\ Idle
    /\ \/ InputFault
       \/ "raw" \in Commands /\ (TakeInput \/ RawCommand)
    /\ UNCHANGED midiVars

MidiInit ==
    /\ scenario \in Scenarios
    /\ RawInit
    /\ mode = FALSE /\ octave = 0 /\ mapping = DefaultMapping
    /\ lowerMuted = FALSE /\ janko = FALSE /\ scale = Chromatic
    /\ applied = FALSE
    /\ active = SilentKeys
    /\ pend = EmptySlots
    /\ current = [k \in Keys |-> NoSlot]
    /\ released = [k \in Keys |-> {}]
    /\ previous = {}
    /\ noteWork = {}
    /\ refs = [n \in Notes |-> 0]
    /\ sustain = FALSE
    /\ wasArmed = FALSE
    /\ queue = <<>>
    /\ panic = 0
    /\ hostDirty = FALSE
    /\ resetPending = FALSE
    /\ host = {}
    /\ phase = "idle" /\ key = 1 /\ slot = 1

Walk == Controls \/ KeyRelease \/ KeyFire \/ KeyStrike

(* A spare key is never pressed; unusable readings come with the commands  *)
(* that reach the acquisition ("raw"), for they act as a fault does.       *)
PlayedOn ==
    [sc \in Scenarios |->
        {in \in Readbacks : \A k \in Keys : sc.role[k] = "spare" => in[k] = MaxSample}]
Played == PlayedOn[scenario]

Frame == \E in \in Played, ok \in {TRUE, "raw" \notin Commands} :
            FrameBegin(in, ok) \/ FrameAppliesReset(in, ok)

(* The stored profiles that can be applied: in either mode, those that     *)
(* differ from the defaults in at most one setting.                        *)
ProfilesOf(sc) ==
    LET Notable == {k \in Keys : sc.role[k] = "note"}
        default == [mode |-> FALSE, octave |-> 0, lowerMuted |-> FALSE, janko |-> FALSE,
                    scale |-> Chromatic, enabled |-> TRUE, mapping |-> sc.mapping]
    IN  {p \in [mode : BOOLEAN, octave : (0 - OctaveLimit) .. OctaveLimit, lowerMuted : BOOLEAN,
                janko : BOOLEAN, scale : Scales, enabled : BOOLEAN,
                mapping : {[sc.mapping EXCEPT ![k] = n] : k \in Notable, n \in Notes \cup {Unmapped}}] :
            Cardinality({f \in DOMAIN p \ {"mode"} : p[f] # default[f]}) <= 1}
StoredOn == [sc \in Scenarios |-> IF "apply" \in sc.commands THEN ProfilesOf(sc) ELSE {}]

Edit ==
    \/ Toggle \/ ToggleLower \/ ToggleJanko
    \/ \E sc \in Scales : SelectMusic(sc)
    \/ \E k \in Keys, n \in Notes \cup {Unmapped} : Map(k, n)
    \/ \E stored \in StoredOn[scenario] : ApplyProfile(stored, press, release)

MidiNext ==
    \/ Frame
    \/ \E in \in Played : FrameReleasesInput(in)
    \/ Walk
    \/ \E accepted \in BOOLEAN : Service(accepted)
    \/ Edit
    \/ ResetProfile
    \/ DisturbInput

MidiSpec == MidiInit /\ [][MidiNext]_vars

(* The owner loop keeps going: a started frame is finished, frames keep    *)
(* arriving (a stalled acquisition is an InputFault), and the port accepts *)
(* a packet again and again, because some host is reading it.              *)
FairMidiSpec ==
    /\ MidiSpec
    /\ WF_vars(Frame \/ Walk)
    /\ SF_vars(\E accepted \in {TRUE} : Service(accepted))

-----------------------------------------------------------------------------
(* A profile reset forgets what the host holds (see ResetKeepsSweep), so   *)
(* what relates the keyboard to the host is said of keyboards without one. *)
Resets == "reset" \in Commands

(* What the host will hold on once the queue has been delivered.           *)
Outcome(v) ==
    LET mine == {i \in DOMAIN queue : queue[i].voice = v}
    IN  IF mine = {} THEN v \in host ELSE queue[Max(mine)].on
Wanted(v) == IF v = Pedal THEN sustain ELSE \E k \in Keys : active[k] = v

(* Outside a cleanup the host, the queue and the keyboard agree: once the  *)
(* queue is delivered a note is on exactly while some key sounds it, and   *)
(* the pedal exactly while it is held.  No Note Off is ever lost, a pitch  *)
(* that two keys share is counted right, and a note ends at the pitch it   *)
(* was struck at.                                                          *)
HostFollowsKeys ==
    panic = 0 /\ ~Resets => \A v \in Voices : Outcome(v) = Wanted(v)

(* Whatever the host holds is remembered: a cleanup would be started for   *)
(* it, or the one in progress has not passed it yet.                       *)
CleanupCovers ==
    ~Resets => \A v \in host :
        IF panic = 0 THEN hostDirty
        ELSE CleanupEvents - panic <= (IF v = Pedal THEN 0 ELSE v + 1)

(* Nothing is queued, buffered or owned behind a cleanup: what the sweep   *)
(* silences stays silent when it ends.                                     *)
CleanupIsFinal ==
    panic > 0 => queue = <<>> /\ active = SilentKeys /\ pend = EmptySlots /\ ~sustain

(* No voice is stranded: between frames every strike that is buffered or   *)
(* sounding has its key on the worklist, and unless that key is still down *)
(* it is already marked to be released; a held key owns one strike only.   *)
NoStrandedVoice ==
    /\ \A k \in Keys : Buffered(k) # {} \/ active[k] # Unmapped => k \in noteWork
    /\ Idle /\ armed /\ wasArmed /\ mode /\ panic = 0 =>
          \A k \in Keys :
             LET held == Buffered(k) \ released[k]
             IN  IF k \in down
                 THEN Cardinality(held) + (IF active[k] = Unmapped THEN 0 ELSE 1) <= 1
                 ELSE held = {} /\ active[k] = Unmapped

(* "Never restart an in-progress sweep", "never drop an existing cleanup": *)
(* whatever faults, menus, edits and mode changes come during a cleanup,   *)
(* it only ever advances, one accepted event at a time ...                 *)
CleanupOnlyAdvances ==
    [][panic > 0 /\ ~Resets => panic' \in {panic, panic - 1}]_vars

(* ... and the same of the profile reset, which is not so.                 *)
ResetKeepsSweep ==
    [][panic > 0 => panic' \in {panic, panic - 1}]_vars

(* When the player lets go of every key for good, the host falls silent    *)
(* for good, whatever faults, menus and edits came in between.             *)
LettingGoSilences ==
    ~Resets /\ <>[](\A k \in Keys : raw[k] > release[k]) => <>[](host = {})

=============================================================================
