------------------------- MODULE KeyboardMidiProofs -------------------------
(***************************************************************************)
(* Proofs about keyboard_midi.c for every number of keys, notes, buffered  *)
(* strikes and queue length and for every keyboard: the host follows the   *)
(* keys, a cleanup silences everything the host may hold and nothing comes *)
(* back behind it, and no voice is stranded.  All of them rest on MidiInv. *)
(***************************************************************************)
EXTENDS KeyboardMidi, KeyboardRawProofs, FiniteSetTheorems, SequenceTheorems,
        WellFoundedInduction

Event == [voice : Voices, on : BOOLEAN]

(* Outcome for any queue and host, so that one can be compared with the    *)
(* other before and after a step.                                          *)
OutcomeOf(q, h, v) ==
    LET mine == {i \in DOMAIN q : q[i].voice = v}
    IN  IF mine = {} THEN v \in h ELSE q[Max(mine)].on

-----------------------------------------------------------------------------
(* The least and the greatest of a nonempty set of queue positions.        *)

LEMMA LeastMember ==
    ASSUME NEW T \in SUBSET Nat, T # {}
    PROVE  Min(T) \in T /\ \A y \in T : Min(T) <= y
<1>1. PICK x \in T : \A y \in T : ~ (<<y, x>> \in OpToRel(<, Nat))
  BY NatLessThanWellFounded, WFMin
<1>2. \A y \in T : ~ (y < x)
  BY <1>1 DEF OpToRel
<1>3. \A y \in T : x <= y
  BY <1>2
<1> QED BY <1>3 DEF Min

LEMMA GreatestMember ==
    ASSUME NEW n \in Nat, NEW T \in SUBSET (1 .. n), T # {}
    PROVE  Max(T) \in T /\ \A y \in T : Max(T) >= y
<1> DEFINE Depth == {n - t : t \in T}
<1>1. Depth \in SUBSET Nat /\ Depth # {}
  <2>1. \A t \in T : n - t \in Nat
    OBVIOUS
  <2> QED BY <2>1
<1>2. Min(Depth) \in Depth /\ \A y \in Depth : Min(Depth) <= y
  BY <1>1, LeastMember
<1>3. PICK x \in T : Min(Depth) = n - x
  BY <1>2
<1>4. \A y \in T : x >= y
  <2> TAKE y \in T
  <2>1. n - x <= n - y
    BY <1>2, <1>3
  <2> QED BY <2>1
<1> QED BY <1>4 DEF Max

-----------------------------------------------------------------------------
(* What the host will hold: the last event of a voice decides.             *)

NoneFor(q, v) == \A i \in 1 .. Len(q) : q[i].voice # v
LastFor(q, v, i) == q[i].voice = v /\ \A j \in 1 .. Len(q) : j > i => q[j].voice # v

LEMMA OutcomeOfNone ==
    ASSUME NEW q \in Seq(Event), NEW h, NEW v, NoneFor(q, v)
    PROVE  OutcomeOf(q, h, v) <=> v \in h
BY LenProperties DEF OutcomeOf, NoneFor

LEMMA OutcomeOfLast ==
    ASSUME NEW q \in Seq(Event), NEW h, NEW v, NEW i \in 1 .. Len(q), LastFor(q, v, i)
    PROVE  OutcomeOf(q, h, v) = q[i].on
<1> DEFINE mine == {j \in DOMAIN q : q[j].voice = v}
<1>1. Len(q) \in Nat /\ DOMAIN q = 1 .. Len(q)
  BY LenProperties
<1>2. mine \in SUBSET (1 .. Len(q)) /\ i \in mine /\ mine # {}
  BY <1>1 DEF LastFor
<1>3. Max(mine) \in mine /\ \A y \in mine : Max(mine) >= y
  BY <1>1, <1>2, GreatestMember
<1>4. Max(mine) \in 1 .. Len(q) /\ q[Max(mine)].voice = v /\ Max(mine) >= i
  BY <1>1, <1>2, <1>3
<1>5. ~ (Max(mine) > i)
  BY <1>4 DEF LastFor
<1>6. Max(mine) = i
  BY <1>1, <1>4, <1>5
<1> QED BY <1>2, <1>6 DEF OutcomeOf

(* One of the two lemmas above applies.                                    *)
LEMMA LastOrNone ==
    ASSUME NEW q \in Seq(Event), NEW v
    PROVE  NoneFor(q, v) \/ \E i \in 1 .. Len(q) : LastFor(q, v, i)
<1> DEFINE mine == {j \in 1 .. Len(q) : q[j].voice = v}
<1>1. Len(q) \in Nat
  BY LenProperties
<1>2. CASE mine = {}
  BY <1>2 DEF NoneFor
<1>3. CASE mine # {}
  <2>1. Max(mine) \in mine /\ \A y \in mine : Max(mine) >= y
    BY <1>1, <1>3, GreatestMember
  <2>2. Max(mine) \in 1 .. Len(q) /\ q[Max(mine)].voice = v
    BY <2>1
  <2>3. ASSUME NEW j \in 1 .. Len(q), j > Max(mine) PROVE q[j].voice # v
    BY <1>1, <2>1, <2>2, <2>3
  <2>4. LastFor(q, v, Max(mine))
    BY <2>2, <2>3 DEF LastFor
  <2> QED BY <2>2, <2>4
<1> QED BY <1>2, <1>3

LEMMA OutcomeIsBoolean ==
    ASSUME NEW q \in Seq(Event), NEW h, NEW v
    PROVE  OutcomeOf(q, h, v) \in BOOLEAN
<1>1. CASE NoneFor(q, v)
  <2>1. Len(q) \in Nat /\ DOMAIN q = 1 .. Len(q)
    BY LenProperties
  <2>2. {i \in DOMAIN q : q[i].voice = v} = {}
    BY <1>1, <2>1 DEF NoneFor
  <2>3. (v \in h) \in BOOLEAN
    OBVIOUS
  <2> QED BY <2>2, <2>3, Zenon DEF OutcomeOf
<1>2. ASSUME NEW i \in 1 .. Len(q), LastFor(q, v, i)
      PROVE  OutcomeOf(q, h, v) \in BOOLEAN
  <2>1. OutcomeOf(q, h, v) = q[i].on
    BY <1>2, OutcomeOfLast
  <2>2. q[i] \in Event
    BY ElementOfSeq
  <2> QED BY <2>1, <2>2 DEF Event
<1> QED BY <1>1, <1>2, LastOrNone

LEMMA OutcomeAppended ==
    ASSUME NEW q \in Seq(Event), NEW e \in Event, NEW h, NEW v
    PROVE  /\ e.voice = v => OutcomeOf(Append(q, e), h, v) = e.on
           /\ e.voice # v => OutcomeOf(Append(q, e), h, v) = OutcomeOf(q, h, v)
<1> DEFINE a == Append(q, e)
<1>1. /\ a \in Seq(Event) /\ Len(a) = Len(q) + 1 /\ Len(q) \in Nat
      /\ \A i \in 1 .. Len(q) : a[i] = q[i]
      /\ a[Len(q) + 1] = e
  BY AppendProperties, LenProperties
<1> HIDE DEF a
<1>2. CASE e.voice = v
  <2>1. Len(a) \in 1 .. Len(a) /\ a[Len(a)] = e /\ LastFor(a, v, Len(a))
    BY <1>1, <1>2 DEF LastFor
  <2>2. OutcomeOf(a, h, v) = a[Len(a)].on
    BY <1>1, <2>1, OutcomeOfLast
  <2> QED BY <1>2, <2>1, <2>2 DEF a
<1>3. CASE e.voice # v /\ NoneFor(q, v)
  <2>1. NoneFor(a, v)
    BY <1>1, <1>3 DEF NoneFor
  <2>2. OutcomeOf(a, h, v) <=> v \in h
    BY <1>1, <2>1, OutcomeOfNone
  <2>3. OutcomeOf(q, h, v) <=> v \in h
    BY <1>3, OutcomeOfNone
  <2> QED BY <1>3, <2>2, <2>3, OutcomeIsBoolean, <1>1 DEF a
<1>4. ASSUME e.voice # v, NEW i \in 1 .. Len(q), LastFor(q, v, i)
      PROVE  OutcomeOf(a, h, v) = OutcomeOf(q, h, v)
  <2>1. i \in 1 .. Len(a) /\ a[i] = q[i] /\ LastFor(a, v, i)
    BY <1>1, <1>4 DEF LastFor
  <2>2. OutcomeOf(a, h, v) = a[i].on
    BY <1>1, <2>1, OutcomeOfLast
  <2>3. OutcomeOf(q, h, v) = q[i].on
    BY <1>4, OutcomeOfLast
  <2> QED BY <2>1, <2>2, <2>3
<1> QED BY <1>2, <1>3, <1>4, LastOrNone DEF a

(* Delivering the head of the queue does not change what will be held.     *)
LEMMA OutcomeDelivered ==
    ASSUME NEW q \in Seq(Event), q # <<>>, NEW h, NEW g, NEW v,
           g = IF Head(q).on THEN h \cup {Head(q).voice} ELSE h \ {Head(q).voice}
    PROVE  OutcomeOf(Tail(q), g, v) = OutcomeOf(q, h, v)
<1> DEFINE t == Tail(q)
<1>1. /\ t \in Seq(Event) /\ Len(q) \in Nat /\ Len(q) >= 1 /\ Len(t) = Len(q) - 1
      /\ \A i \in 1 .. Len(t) : t[i] = q[i + 1]
      /\ Head(q) = q[1] /\ q[1] \in Event
  BY HeadTailProperties, LenProperties, EmptySeq
<1> HIDE DEF t
<1>2. CASE NoneFor(q, v)
  <2>1. NoneFor(t, v)
    BY <1>1, <1>2 DEF NoneFor
  <2>2. Head(q).voice # v
    BY <1>1, <1>2 DEF NoneFor
  <2>3. v \in g <=> v \in h
    BY <2>2
  <2>4. OutcomeOf(t, g, v) <=> v \in g
    BY <1>1, <2>1, OutcomeOfNone
  <2>5. OutcomeOf(q, h, v) <=> v \in h
    BY <1>2, OutcomeOfNone
  <2> QED BY <1>1, <2>3, <2>4, <2>5, OutcomeIsBoolean DEF t
<1>3. ASSUME NEW i \in 1 .. Len(q), LastFor(q, v, i)
      PROVE  OutcomeOf(t, g, v) = OutcomeOf(q, h, v)
  <2>1. OutcomeOf(q, h, v) = q[i].on
    BY <1>3, OutcomeOfLast
  <2>2. CASE i = 1
    <3>1. NoneFor(t, v)
      BY <1>1, <1>3, <2>2 DEF LastFor, NoneFor
    <3>2. OutcomeOf(t, g, v) <=> v \in g
      BY <1>1, <3>1, OutcomeOfNone
    <3>3. Head(q).voice = v /\ Head(q).on \in BOOLEAN /\ Head(q).on = q[i].on
      BY <1>1, <1>3, <2>2 DEF Event, LastFor
    <3>4. v \in g <=> Head(q).on
      BY <3>3
    <3> QED BY <1>1, <2>1, <3>2, <3>3, <3>4, OutcomeIsBoolean DEF t
  <2>3. CASE i # 1
    <3>1. i - 1 \in 1 .. Len(t) /\ t[i - 1] = q[i] /\ LastFor(t, v, i - 1)
      BY <1>1, <1>3, <2>3 DEF LastFor
    <3>2. OutcomeOf(t, g, v) = t[i - 1].on
      BY <1>1, <3>1, OutcomeOfLast
    <3> QED BY <2>1, <3>1, <3>2
  <2> QED BY <2>2, <2>3
<1> QED BY <1>2, <1>3, LastOrNone DEF t

-----------------------------------------------------------------------------
(* How many keys sound a note.                                             *)

SoundingOf(a, n) == {k \in Keys : a[k] = n}

LEMMA KeySetsAreFinite ==
    ASSUME NEW S \in SUBSET Keys
    PROVE  IsFiniteSet(S) /\ Cardinality(S) \in Nat
<1>1. 1 \in Int /\ NumKeys \in Int
  BY RawConstants DEF RawConstants
<1>2. IsFiniteSet(Keys)
  BY <1>1, FS_Interval DEF Keys
<1>3. IsFiniteSet(S)
  BY <1>2, FS_Subset
<1> QED BY <1>3, FS_CardinalityType

LEMMA UnmappedIsNoNote == Unmapped \notin Notes /\ Notes \subseteq Int /\ Pedal \notin Notes
BY MidiConstants, SMT DEF MidiConstants, Notes, Pedal

LEMMA OwnerGone ==
    ASSUME NEW a \in [Keys -> Notes \cup {Unmapped}], NEW k \in Keys, a[k] \in Notes
    PROVE  LET b == [a EXCEPT ![k] = Unmapped]
           IN  \A n \in Notes :
                  Cardinality(SoundingOf(b, n)) =
                     IF n = a[k] THEN Cardinality(SoundingOf(a, n)) - 1
                     ELSE Cardinality(SoundingOf(a, n))
<1> DEFINE b == [a EXCEPT ![k] = Unmapped]
<1> SUFFICES ASSUME NEW n \in Notes
             PROVE  Cardinality(SoundingOf(b, n)) =
                       IF n = a[k] THEN Cardinality(SoundingOf(a, n)) - 1
                       ELSE Cardinality(SoundingOf(a, n))
  OBVIOUS
<1>1. SoundingOf(b, n) = SoundingOf(a, n) \ {k}
  BY UnmappedIsNoNote DEF SoundingOf
<1>2. IsFiniteSet(SoundingOf(a, n))
  BY KeySetsAreFinite DEF SoundingOf
<1>3. k \in SoundingOf(a, n) <=> n = a[k]
  BY DEF SoundingOf
<1> QED BY <1>1, <1>2, <1>3, FS_RemoveElement

LEMMA OwnerAdded ==
    ASSUME NEW a \in [Keys -> Notes \cup {Unmapped}], NEW k \in Keys, a[k] = Unmapped,
           NEW m \in Notes
    PROVE  LET b == [a EXCEPT ![k] = m]
           IN  \A n \in Notes :
                  Cardinality(SoundingOf(b, n)) =
                     IF n = m THEN Cardinality(SoundingOf(a, n)) + 1
                     ELSE Cardinality(SoundingOf(a, n))
<1> DEFINE b == [a EXCEPT ![k] = m]
<1> SUFFICES ASSUME NEW n \in Notes
             PROVE  Cardinality(SoundingOf(b, n)) =
                       IF n = m THEN Cardinality(SoundingOf(a, n)) + 1
                       ELSE Cardinality(SoundingOf(a, n))
  OBVIOUS
<1>1. IsFiniteSet(SoundingOf(a, n)) /\ k \notin SoundingOf(a, n)
  BY KeySetsAreFinite, UnmappedIsNoNote DEF SoundingOf
<1>2. CASE n = m
  <2>1. SoundingOf(b, n) = SoundingOf(a, n) \cup {k}
    BY <1>2, UnmappedIsNoNote DEF SoundingOf
  <2> QED BY <1>1, <1>2, <2>1, FS_AddElement
<1>3. CASE n # m
  <2>1. SoundingOf(b, n) = SoundingOf(a, n)
    BY <1>3, UnmappedIsNoNote DEF SoundingOf
  <2> QED BY <1>3, <2>1
<1> QED BY <1>2, <1>3

LEMMA NobodySounds ==
    ASSUME NEW a, NEW n \in Notes, \A k \in Keys : a[k] = Unmapped
    PROVE  Cardinality(SoundingOf(a, n)) = 0
<1>1. SoundingOf(a, n) = {}
  BY UnmappedIsNoNote DEF SoundingOf
<1> QED BY <1>1, FS_EmptySet

LEMMA SomebodySounds ==
    ASSUME NEW a, NEW n
    PROVE  Cardinality(SoundingOf(a, n)) # 0 <=> \E k \in Keys : a[k] = n
<1>1. SoundingOf(a, n) = {} <=> ~ \E k \in Keys : a[k] = n
  BY DEF SoundingOf
<1>2. IsFiniteSet(SoundingOf(a, n))
  BY KeySetsAreFinite DEF SoundingOf
<1> QED BY <1>1, <1>2, FS_EmptySet

-----------------------------------------------------------------------------
(* The inductive invariant.                                                *)

MeaningTypeOK ==
    /\ mode \in BOOLEAN /\ lowerMuted \in BOOLEAN /\ janko \in BOOLEAN /\ applied \in BOOLEAN
    /\ mapping \in [Keys -> Notes \cup {Unmapped}]
    /\ octave \in (0 - OctaveLimit) .. OctaveLimit
    /\ scale \in Scales
VoiceTypeOK ==
    /\ active \in [Keys -> Notes \cup {Unmapped}]
    /\ pend \in [Keys -> [SlotIds -> Notes \cup {Unmapped}]]
    /\ current \in [Keys -> SlotIds \cup {NoSlot}]
    /\ released \in [Keys -> SUBSET SlotIds]
    /\ previous \in SUBSET Keys /\ noteWork \in SUBSET Keys
    /\ refs \in [Notes -> Nat]
    /\ sustain \in BOOLEAN /\ wasArmed \in BOOLEAN
OutTypeOK ==
    /\ queue \in Seq(Event) /\ Len(queue) <= QueueSize
    /\ panic \in 0 .. CleanupEvents
    /\ hostDirty \in BOOLEAN /\ resetPending \in BOOLEAN
    /\ host \in SUBSET Voices
WalkTypeOK ==
    /\ phase \in {"idle", "controls", "release", "fire", "strike"}
    /\ key \in Keys /\ slot \in SlotIds

(* The reference counts are the number of keys that sound each note.       *)
RefsCount == \A n \in Notes : refs[n] = Cardinality(SoundingOf(active, n))

(* A key owns one strike at most: the buffered strike that is still held   *)
(* is the current one, and while there is one the key sounds nothing.      *)
OneStrike ==
    \A k \in Keys : \A s \in Buffered(k) \ released[k] : s = current[k] /\ active[k] = Unmapped

(* Only keys of the worklist have something buffered or sounding.          *)
WorkCovers == \A k \in Keys : Buffered(k) # {} \/ active[k] # Unmapped => k \in noteWork

(* What a frame has put right so far: keys that are up own nothing, as     *)
(* seen by the last frame ahead of the walk, by this one behind it.        *)
Unowned(k) == active[k] = Unmapped /\ Buffered(k) \subseteq released[k]

WalkPosition ==
    /\ phase \in {"idle", "controls"} => \A k \in Keys \ previous : Unowned(k)
    /\ phase \in {"release", "fire", "strike"} =>
          /\ key \in noteWork
          /\ \A k \in Keys : k < key /\ k \notin down => Unowned(k)
          /\ \A k \in Keys : k > key /\ k \notin previous => Unowned(k)
    /\ phase = "release" /\ key \notin previous => Unowned(key)
    /\ phase \in {"fire", "strike"} /\ key \notin previous \cap down => Unowned(key)

(* A frame walks only in MIDI mode and outside a cleanup; in keyboard mode *)
(* nothing sounds.                                                         *)
ModeRules ==
    /\ ~mode => active = SilentKeys /\ pend = EmptySlots
    /\ ~Idle => mode /\ panic = 0

(* Between frames of an armed keyboard the edge history is up to date.     *)
HistoryCurrent == Idle /\ armed /\ wasArmed => previous = down

MidiInv ==
    /\ scenario \in Scenarios
    /\ RawInv /\ MeaningTypeOK /\ VoiceTypeOK /\ OutTypeOK /\ WalkTypeOK
    /\ RefsCount /\ OneStrike /\ WorkCovers /\ WalkPosition
    /\ ModeRules /\ HistoryCurrent
    /\ resetPending => Resets
    /\ HostFollowsKeys /\ CleanupCovers /\ CleanupIsFinal

Advances == panic > 0 /\ ~Resets => panic' \in {panic, panic - 1}

LEMMA ScenarioTypes ==
    ASSUME scenario \in Scenarios
    PROVE  /\ Role \in [Keys -> {"note", "fn", "sustain", "up", "down", "spare"}]
           /\ DefaultMapping \in [Keys -> Notes \cup {Unmapped}]
           /\ JankoNotes \in [Keys -> Notes \cup {Unmapped}]
BY MidiConstants DEF MidiConstants, Role, DefaultMapping, JankoNotes

LEMMA SilentTypes ==
    /\ SilentKeys \in [Keys -> Notes \cup {Unmapped}]
    /\ EmptySlots \in [Keys -> [SlotIds -> Notes \cup {Unmapped}]]
    /\ [k \in Keys |-> NoSlot] \in [Keys -> SlotIds \cup {NoSlot}]
    /\ [k \in Keys |-> {}] \in [Keys -> SUBSET SlotIds]
    /\ [n \in Notes |-> 0] \in [Notes -> Nat]
    /\ <<>> \in Seq(Event) /\ Len(<<>>) = 0
    /\ 0 <= QueueSize
BY MidiConstants DEF MidiConstants, SilentKeys, EmptySlots

LEMMA ConstantTypes ==
    /\ MaxNote \in Nat /\ CleanupEvents \in Nat /\ CleanupEvents = MaxNote + 6
    /\ Pedal = MaxNote + 1 /\ Voices = 0 .. Pedal /\ Notes = 0 .. MaxNote
    /\ Slots \in Nat /\ Slots >= 1 /\ 1 \in SlotIds /\ 1 \in Keys
    /\ 0 \in (0 - OctaveLimit) .. OctaveLimit /\ OctaveLimit \in Nat /\ QueueSize \in Nat
    /\ Chromatic \in Scales
BY RawConstants, MidiConstants, SMT
   DEF RawConstants, MidiConstants, CleanupEvents, Pedal, Voices, Notes, SlotIds, Keys

(* A keyboard without voices: what the invariant says of them is true.     *)
LEMMA SilenceKeepsInv ==
    ASSUME active = SilentKeys, pend = EmptySlots,
           refs = [n \in Notes |-> 0]
    PROVE  /\ RefsCount /\ OneStrike /\ WorkCovers
           /\ \A k \in Keys : Unowned(k)
           /\ \A n \in Notes : ~ \E k \in Keys : active[k] = n
<1>1. \A k \in Keys : active[k] = Unmapped /\ Buffered(k) = {}
  BY DEF SilentKeys, EmptySlots, Buffered
<1>2. RefsCount
  BY <1>1, NobodySounds DEF RefsCount
<1>3. OneStrike /\ WorkCovers /\ \A k \in Keys : Unowned(k)
  BY <1>1 DEF OneStrike, WorkCovers, Unowned
<1>4. \A n \in Notes : ~ \E k \in Keys : active[k] = n
  BY <1>1, UnmappedIsNoNote
<1> QED BY <1>2, <1>3, <1>4

LEMMA InitMidiInv == MidiInit => MidiInv
<1> SUFFICES ASSUME MidiInit PROVE MidiInv
  OBVIOUS
<1>1. scenario \in Scenarios /\ RawInv
  BY InitRawInv DEF MidiInit
<1>2. MeaningTypeOK
  BY <1>1, ScenarioTypes, ConstantTypes DEF MidiInit, MeaningTypeOK
<1>3. VoiceTypeOK
  BY SilentTypes DEF MidiInit, VoiceTypeOK
<1>4. OutTypeOK /\ WalkTypeOK
  <2>1. 0 \in 0 .. CleanupEvents /\ {} \in SUBSET Voices
    BY ConstantTypes
  <2>2. OutTypeOK
    BY <2>1, SilentTypes DEF MidiInit, OutTypeOK
  <2> QED BY <2>2, ConstantTypes DEF MidiInit, WalkTypeOK
<1>5. /\ RefsCount /\ OneStrike /\ WorkCovers
      /\ \A k \in Keys : Unowned(k)
      /\ \A n \in Notes : ~ \E k \in Keys : active[k] = n
  BY SilenceKeepsInv DEF MidiInit
<1>6. WalkPosition /\ ModeRules /\ HistoryCurrent /\ (resetPending => Resets)
  BY <1>5 DEF MidiInit, WalkPosition, ModeRules, HistoryCurrent, Idle
<1>7. CleanupCovers /\ CleanupIsFinal
  BY DEF MidiInit, CleanupCovers, CleanupIsFinal
<1>8. HostFollowsKeys
  <2>1. \A v \in Voices : Outcome(v) = FALSE
    BY DEF MidiInit, Outcome
  <2>2. \A v \in Voices : Wanted(v) = FALSE
    BY <1>5, ConstantTypes DEF MidiInit, Wanted
  <2> QED BY <2>1, <2>2 DEF HostFollowsKeys
<1> QED BY <1>1, <1>2, <1>3, <1>4, <1>5, <1>6, <1>7, <1>8 DEF MidiInv

-----------------------------------------------------------------------------
(* The cleanup sweep.                                                      *)

(* What CleanupCovers says of any host and any sweep with p events to go.  *)
Covered(h, dirty, p) ==
    \A v \in h : IF p = 0 THEN dirty
                 ELSE CleanupEvents - p <= (IF v = Pedal THEN 0 ELSE v + 1)

(* keyboard_midi_abort starts a sweep whenever the host may hold something.*)
LEMMA AbortCovers ==
    ASSUME MidiInv, NEW m \in BOOLEAN
    PROVE  LET p == CleanupAfterAbort(m)
           IN  /\ p \in 0 .. CleanupEvents
               /\ panic > 0 => p = panic
               /\ ~Resets => Covered(host, hostDirty, p) /\ (p = 0 => host = {})
<1> DEFINE p == CleanupAfterAbort(m)
<1>1. /\ panic \in 0 .. CleanupEvents /\ hostDirty \in BOOLEAN /\ host \in SUBSET Voices
      /\ ~Resets => Covered(host, hostDirty, panic)
  BY DEF MidiInv, OutTypeOK, CleanupCovers, Covered
<1>2. p \in 0 .. CleanupEvents /\ (panic > 0 => p = panic)
  BY <1>1, ConstantTypes DEF CleanupAfterAbort
<1>3. ASSUME ~Resets PROVE Covered(host, hostDirty, p) /\ (p = 0 => host = {})
  <2>1. CASE p = panic
    <3>1. p = 0 => ~hostDirty
      BY <1>1, <2>1, ConstantTypes DEF CleanupAfterAbort
    <3>2. Covered(host, hostDirty, p)
      BY <1>1, <1>3, <2>1
    <3>3. p = 0 => host = {}
      BY <3>1, <3>2 DEF Covered
    <3> QED BY <3>2, <3>3
  <2>2. CASE p # panic
    <3>1. p = CleanupEvents /\ p # 0
      BY <2>2, ConstantTypes DEF CleanupAfterAbort
    <3>2. \A v \in host : 0 <= (IF v = Pedal THEN 0 ELSE v + 1)
      BY <1>1, ConstantTypes
    <3> QED BY <3>1, <3>2, ConstantTypes DEF Covered
  <2> QED BY <2>1, <2>2
<1> QED BY <1>2, <1>3

(* One cleanup event: what it does not silence is still ahead of the sweep,*)
(* and the last one leaves nothing.                                        *)
LEMMA SweepCovers ==
    ASSUME NEW h \in SUBSET Voices, NEW dirty \in BOOLEAN, NEW p \in 1 .. CleanupEvents,
           Covered(h, dirty, p),
           NEW left, left = h \ Silenced(CleanupEvents - p), NEW d
    PROVE  /\ Covered(left, d, p - 1)
           /\ p = 1 => left = {}
<1> DEFINE place(v) == IF v = Pedal THEN 0 ELSE v + 1
           index == CleanupEvents - p
<1>1. \A v \in h : /\ v \in Int /\ 0 <= v /\ v <= MaxNote + 1
                   /\ (v = Pedal <=> v = MaxNote + 1)
                   /\ (v \in Notes <=> v <= MaxNote)
                   /\ index <= place(v)
  BY ConstantTypes DEF Covered
<1>2. \A v \in left : index # place(v)
  <2> SUFFICES ASSUME NEW v \in left, index = place(v) PROVE FALSE
    OBVIOUS
  <2>1. v \in Silenced(index)
    <3>1. CASE v = Pedal
      BY <3>1 DEF Silenced
    <3>2. CASE v # Pedal
      <4>1. index = v + 1 /\ v \in Notes /\ v >= 0
        BY <1>1, <3>2, ConstantTypes
      <4>2. index # 0 /\ index - 1 = v
        BY <4>1, ConstantTypes
      <4> QED BY <4>1, <4>2 DEF Silenced
    <3> QED BY <3>1, <3>2
  <2> QED BY <2>1
<1>3. \A v \in left : index + 1 <= place(v) /\ place(v) <= MaxNote + 1
  BY <1>1, <1>2, ConstantTypes
<1>4. ASSUME p = 1 PROVE left = {}
  <2>1. index = MaxNote + 5 /\ MaxNote \in Nat
    BY <1>4, ConstantTypes
  <2>2. ASSUME NEW v \in left PROVE FALSE
    <3>1. index + 1 <= MaxNote + 1
      BY <1>1, <1>3, <2>1
    <3> QED BY <2>1, <3>1
  <2> QED BY <2>2
<1>5. CASE p = 1
  BY <1>4, <1>5 DEF Covered
<1>6. CASE p # 1
  <2>1. CleanupEvents - (p - 1) = index + 1 /\ p - 1 # 0
    BY <1>6, ConstantTypes
  <2> QED BY <1>3, <1>6, <2>1 DEF Covered
<1> QED BY <1>5, <1>6, <1>4

-----------------------------------------------------------------------------
(* Steps that leave the voices alone, and steps that clear them all.       *)

LEMMA ClearTypes == ASSUME ClearVoices PROVE VoiceTypeOK'
BY SilentTypes DEF ClearVoices, VoiceTypeOK

(* keyboard_midi_clear under any acquisition, meaning and cleanup.         *)
LEMMA ClearKeepsInv ==
    ASSUME MidiInv, RawInv', MeaningTypeOK', ClearVoices,
           scenario' = scenario, phase' = "idle", key' \in Keys, slot' \in SlotIds,
           panic' \in 0 .. CleanupEvents, hostDirty' \in BOOLEAN, host' \in SUBSET Voices,
           resetPending' \in BOOLEAN, resetPending' => Resets,
           ~Resets => Covered(host', hostDirty', panic') /\ (panic' = 0 => host' = {})
    PROVE  MidiInv'
<1>1. VoiceTypeOK' /\ WalkTypeOK'
  BY ClearTypes DEF WalkTypeOK
<1>2. OutTypeOK'
  BY SilentTypes DEF ClearVoices, OutTypeOK
<1>3. scenario' \in Scenarios /\ (Resets' <=> Resets)
  BY DEF MidiInv, Resets, Commands
<1>4. /\ active' = SilentKeys /\ pend' = EmptySlots /\ queue' = <<>> /\ ~sustain' /\ ~wasArmed'
      /\ refs' = [n \in Notes |-> 0]
  BY DEF ClearVoices
<1>5. (/\ RefsCount /\ OneStrike /\ WorkCovers
       /\ \A k \in Keys : Unowned(k)
       /\ \A n \in Notes : ~ \E k \in Keys : active[k] = n)'
  <2>1. \A k \in Keys : active'[k] = Unmapped /\ Buffered(k)' = {}
    BY <1>4 DEF SilentKeys, EmptySlots, Buffered
  <2>2. RefsCount'
    BY <1>4, <2>1, NobodySounds DEF RefsCount
  <2>3. OneStrike' /\ WorkCovers' /\ \A k \in Keys : Unowned(k)'
    BY <2>1 DEF OneStrike, WorkCovers, Unowned
  <2> QED BY <2>1, <2>2, <2>3, UnmappedIsNoNote
<1>6. WalkPosition' /\ ModeRules' /\ HistoryCurrent'
  BY <1>4, <1>5 DEF WalkPosition, ModeRules, HistoryCurrent, Idle
<1>7. CleanupCovers' /\ CleanupIsFinal'
  BY <1>3, <1>4 DEF CleanupCovers, Covered, CleanupIsFinal
<1>8. HostFollowsKeys'
  <2> SUFFICES ASSUME panic' = 0, ~Resets PROVE \A v \in Voices : Outcome(v)' = Wanted(v)'
    BY <1>3 DEF HostFollowsKeys
  <2>1. \A v \in Voices : Outcome(v)' = FALSE
    BY <1>4 DEF Outcome
  <2>2. \A v \in Voices : Wanted(v)' = FALSE
    BY <1>4, <1>5, ConstantTypes DEF Wanted
  <2> QED BY <2>1, <2>2
<1> QED BY <1>1, <1>2, <1>3, <1>5, <1>6, <1>7, <1>8 DEF MidiInv

(* keyboard_midi_abort, judged by a mode m.                                *)
LEMMA AbortKeepsInv ==
    ASSUME MidiInv, NEW m \in BOOLEAN, RawInv', MeaningTypeOK', ClearVoices,
           panic' = CleanupAfterAbort(m), hostDirty' = hostDirty, host' = host,
           scenario' = scenario, phase' = "idle", key' = key, slot' = slot,
           resetPending' \in BOOLEAN, resetPending' => Resets
    PROVE  MidiInv' /\ Advances
<1>1. /\ panic' \in 0 .. CleanupEvents
      /\ panic > 0 => panic' = panic
      /\ ~Resets => Covered(host', hostDirty', panic') /\ (panic' = 0 => host' = {})
  BY AbortCovers
<1>2. /\ hostDirty' \in BOOLEAN /\ host' \in SUBSET Voices
      /\ key' \in Keys /\ slot' \in SlotIds
  BY DEF MidiInv, OutTypeOK, WalkTypeOK
<1>3. MidiInv'
  BY <1>1, <1>2, ClearKeepsInv
<1> QED BY <1>1, <1>3 DEF Advances

(* A disturbance of the input between two calls.                           *)
LEMMA QuietKeepsInv ==
    ASSUME MidiInv, RawInv', Idle, UNCHANGED midiVars,
           armed' => armed /\ down' = down
    PROVE  MidiInv' /\ Advances
<1>1. /\ UNCHANGED <<scenario, mode, mapping, octave, lowerMuted, janko, scale, applied>>
      /\ UNCHANGED <<active, pend, current, released, previous, noteWork, refs, sustain, wasArmed>>
      /\ UNCHANGED <<queue, panic, hostDirty, host, resetPending, phase, key, slot>>
  BY DEF midiVars, meaningVars, voiceVars, outVars, walkVars
<1>2. scenario' \in Scenarios /\ MeaningTypeOK' /\ VoiceTypeOK' /\ OutTypeOK' /\ WalkTypeOK'
  BY <1>1 DEF MidiInv, MeaningTypeOK, VoiceTypeOK, OutTypeOK, WalkTypeOK
<1>3. RefsCount' /\ OneStrike' /\ WorkCovers'
  BY <1>1 DEF MidiInv, RefsCount, OneStrike, WorkCovers, Buffered
<1>4. WalkPosition' /\ ModeRules' /\ HistoryCurrent'
  BY <1>1 DEF MidiInv, WalkPosition, ModeRules, HistoryCurrent, Idle, Unowned, Buffered
<1>5. /\ (resetPending => Resets)' /\ HostFollowsKeys' /\ CleanupCovers' /\ CleanupIsFinal'
  <2>1. (resetPending => Resets)'
    BY <1>1 DEF MidiInv, Resets, Commands
  <2>2. CleanupCovers' /\ CleanupIsFinal'
    BY <1>1 DEF MidiInv, Resets, Commands, CleanupCovers, CleanupIsFinal
  <2>3. \A v : Outcome(v)' = Outcome(v) /\ Wanted(v)' = Wanted(v)
    BY <1>1 DEF Outcome, Wanted
  <2> QED BY <1>1, <2>1, <2>2, <2>3 DEF MidiInv, HostFollowsKeys, Resets, Commands
<1>6. Advances
  BY <1>1 DEF Advances
<1> QED BY <1>2, <1>3, <1>4, <1>5, <1>6 DEF MidiInv

LEMMA DisturbKeepsInv ==
    ASSUME MidiInv, DisturbInput
    PROVE  MidiInv' /\ Advances
<1>1. RawInv /\ Idle /\ UNCHANGED midiVars
  BY DEF MidiInv, DisturbInput
<1>2. CASE InputFault \/ RawCommand
  BY <1>1, <1>2, FaultKeepsInv, CommandKeepsInv, QuietKeepsInv
<1>3. CASE TakeInput
  <2>1. RawInv' /\ (armed' => armed /\ down' = down)
    BY <1>1, <1>3, TakeInputKeepsInv DEF edgeVars
  <2> QED BY <1>1, <2>1, QuietKeepsInv
<1> QED BY <1>2, <1>3 DEF DisturbInput

-----------------------------------------------------------------------------
(* The head of a frame.                                                    *)

LEMMA PlayedReadbacks ==
    ASSUME scenario \in Scenarios
    PROVE  Played \subseteq Readbacks
BY DEF Played, PlayedOn

(* keyboard_midi_abort as the menu, a fault or a lost frame calls it: the  *)
(* meaning of the keys stays.                                              *)
LEMMA PlainAbortKeepsInv ==
    ASSUME MidiInv, RawInv', Abort, UNCHANGED <<scenario, meaningVars>>,
           phase' = "idle", key' = key, slot' = slot,
           resetPending' \in BOOLEAN, resetPending' => Resets
    PROVE  MidiInv' /\ Advances
<1>1. MeaningTypeOK' /\ mode \in BOOLEAN
  BY DEF MidiInv, MeaningTypeOK, meaningVars
<1>2. /\ ClearVoices /\ panic' = CleanupAfterAbort(mode)
      /\ hostDirty' = hostDirty /\ host' = host /\ scenario' = scenario
  BY DEF Abort
<1> QED BY <1>1, <1>2, AbortKeepsInv

LEMMA FrameReleasesInputKeepsInv ==
    ASSUME MidiInv, NEW in \in Readbacks, FrameReleasesInput(in)
    PROVE  MidiInv' /\ Advances
<1>1. RawInv' /\ ~armed'
  BY ReleaseInputKeepsInv DEF MidiInv, FrameReleasesInput
<1>2. /\ Idle /\ phase' = phase /\ key' = key /\ slot' = slot
      /\ UNCHANGED <<scenario, meaningVars>> /\ resetPending' = resetPending
      /\ resetPending \in BOOLEAN /\ (resetPending => Resets)
  BY DEF FrameReleasesInput, walkVars, restVars, MidiInv, OutTypeOK
<1>3. CASE Abort
  BY <1>1, <1>2, <1>3, PlainAbortKeepsInv DEF Idle
<1>4. CASE UNCHANGED <<voiceVars, outVars>>
  <2>1. UNCHANGED midiVars
    BY <1>2, <1>4 DEF FrameReleasesInput, midiVars, walkVars
  <2> QED BY <1>1, <1>2, <2>1, QuietKeepsInv
<1> QED BY <1>3, <1>4 DEF FrameReleasesInput

(* An armed frame: nothing of the performance changes but the history, or  *)
(* the walk begins.                                                        *)
LEMMA ArmedFrameKeepsInv ==
    ASSUME MidiInv, RawInv', Idle, armed', wasArmed' = TRUE,
           \/ (~mode \/ panic > 0) /\ previous' = down' /\ phase' = phase
           \/ mode /\ panic = 0 /\ phase' = "controls" /\ previous' = previous,
           key' = key, slot' = slot,
           UNCHANGED <<active, pend, current, released, noteWork, refs, sustain, outVars>>,
           UNCHANGED <<meaningVars, restVars>>
    PROVE  MidiInv' /\ Advances
<1>1. /\ UNCHANGED <<scenario, mode, mapping, octave, lowerMuted, janko, scale, applied>>
      /\ UNCHANGED <<active, pend, current, released, noteWork, refs, sustain>>
      /\ UNCHANGED <<queue, panic, hostDirty, host, resetPending, key, slot>>
      /\ phase = "idle"
  BY DEF meaningVars, outVars, restVars, Idle
<1>2. down' \in SUBSET Keys /\ phase' \in {"idle", "controls"} /\ wasArmed' \in BOOLEAN
  BY <1>1 DEF RawInv, RawTypeOK
<1>3. scenario' \in Scenarios /\ MeaningTypeOK' /\ VoiceTypeOK' /\ OutTypeOK' /\ WalkTypeOK'
  <2>1. scenario' \in Scenarios /\ MeaningTypeOK' /\ OutTypeOK' /\ WalkTypeOK'
    BY <1>1, <1>2 DEF MidiInv, MeaningTypeOK, OutTypeOK, WalkTypeOK
  <2>2. previous' \in SUBSET Keys
    BY <1>2 DEF MidiInv, VoiceTypeOK
  <2>3. VoiceTypeOK'
    BY <1>1, <1>2, <2>2 DEF MidiInv, VoiceTypeOK
  <2> QED BY <2>1, <2>3
<1>4. RefsCount' /\ OneStrike' /\ WorkCovers'
  BY <1>1 DEF MidiInv, RefsCount, OneStrike, WorkCovers, Buffered
<1>5. \A k \in Keys : Unowned(k)' <=> Unowned(k)
  BY <1>1 DEF Unowned, Buffered
<1>6. ASSUME ~mode \/ panic > 0 PROVE \A k \in Keys : Unowned(k)
  <2>1. active = SilentKeys /\ pend = EmptySlots
    BY <1>6 DEF MidiInv, ModeRules, CleanupIsFinal
  <2> QED BY <2>1 DEF Unowned, Buffered, SilentKeys, EmptySlots
<1>7. WalkPosition'
  <2>1. \A k \in Keys \ previous : Unowned(k)
    BY <1>1 DEF MidiInv, WalkPosition
  <2>2. \A k \in Keys \ previous' : Unowned(k)'
    BY <1>5, <1>6, <2>1
  <2> QED BY <1>2, <2>2 DEF WalkPosition
<1>8. ModeRules' /\ HistoryCurrent'
  BY <1>1 DEF MidiInv, ModeRules, HistoryCurrent, Idle
<1>9. (resetPending => Resets)' /\ HostFollowsKeys' /\ CleanupCovers' /\ CleanupIsFinal'
  <2>1. (resetPending => Resets)' /\ CleanupCovers' /\ CleanupIsFinal'
    BY <1>1 DEF MidiInv, Resets, Commands, CleanupCovers, CleanupIsFinal
  <2>2. \A v : Outcome(v)' = Outcome(v) /\ Wanted(v)' = Wanted(v)
    BY <1>1 DEF Outcome, Wanted
  <2> QED BY <1>1, <2>1, <2>2 DEF MidiInv, HostFollowsKeys, Resets, Commands
<1>10. Advances
  BY <1>1 DEF Advances
<1> QED BY <1>3, <1>4, <1>7, <1>8, <1>9, <1>10 DEF MidiInv

LEMMA FrameBeginKeepsInv ==
    ASSUME MidiInv, NEW in \in Readbacks, NEW ok \in BOOLEAN, FrameBegin(in, ok)
    PROVE  MidiInv' /\ Advances
<1>1. RawInv'
  BY FrameKeepsInv, ObserveKeepsInv DEF MidiInv, FrameBegin
<1>2. /\ Idle /\ UNCHANGED <<scenario, meaningVars>> /\ resetPending' = resetPending
      /\ resetPending \in BOOLEAN /\ (resetPending => Resets)
  BY DEF FrameBegin, restVars, MidiInv, OutTypeOK
<1>3. CASE ~armed'
  <2>1. phase' = phase /\ key' = key /\ slot' = slot
        /\ (Abort \/ UNCHANGED <<voiceVars, outVars>>)
    BY <1>3 DEF FrameBegin, walkVars
  <2>2. CASE Abort
    BY <1>1, <1>2, <2>1, <2>2, PlainAbortKeepsInv DEF Idle
  <2>3. CASE UNCHANGED <<voiceVars, outVars>>
    <3>1. UNCHANGED midiVars
      BY <1>2, <2>1, <2>3 DEF FrameBegin, midiVars, walkVars
    <3> QED BY <1>1, <1>2, <1>3, <3>1, QuietKeepsInv
  <2> QED BY <2>1, <2>2, <2>3
<1>4. CASE armed'
  <2>1. /\ wasArmed' = TRUE
        /\ \/ (~mode \/ panic > 0) /\ previous' = down' /\ phase' = phase
           \/ mode /\ panic = 0 /\ phase' = "controls" /\ previous' = previous
        /\ key' = key /\ slot' = slot
        /\ UNCHANGED <<active, pend, current, released, noteWork, refs, sustain, outVars>>
        /\ UNCHANGED <<meaningVars, restVars>>
    BY <1>4 DEF FrameBegin, walkVars, Goto
  <2> QED BY <1>1, <1>2, <1>4, <2>1, ArmedFrameKeepsInv
<1> QED BY <1>3, <1>4

-----------------------------------------------------------------------------
(* Edits, the stored profile and its reset.                                *)

(* Invalidation under thresholds that did not change.                      *)
LEMMA InvalidateAlone ==
    ASSUME RawInv, RawInvalidate, UNCHANGED <<configVars, observed, raw>>
    PROVE  RawInv'
BY InvalidateKeepsInv DEF RawInv, RawTypeOK, ThresholdsOrdered, configVars

LEMMA RelabelKeepsInv ==
    ASSUME MidiInv, NEW m \in BOOLEAN, Idle, Relabel(m), MeaningTypeOK'
    PROVE  MidiInv' /\ Advances
<1>1. RawInv'
  BY InvalidateAlone DEF MidiInv, Relabel
<1>2. /\ ClearVoices /\ panic' = CleanupAfterAbort(m) /\ hostDirty' = hostDirty /\ host' = host
      /\ scenario' = scenario /\ phase' = "idle" /\ key' = key /\ slot' = slot
      /\ resetPending' \in BOOLEAN /\ (resetPending' => Resets)
  BY DEF Relabel, restVars, walkVars, Idle, MidiInv, OutTypeOK
<1> QED BY <1>1, <1>2, AbortKeepsInv

LEMMA EditKeepsInv ==
    ASSUME MidiInv, Edit
    PROVE  MidiInv' /\ Advances
<1>1. MeaningTypeOK /\ mode \in BOOLEAN /\ (~mode) \in BOOLEAN /\ scenario \in Scenarios
  BY DEF MidiInv, MeaningTypeOK
<1>2. CASE Toggle
  <2>1. MeaningTypeOK' /\ Idle /\ Relabel(~mode)
    BY <1>1, <1>2 DEF Toggle, MeaningTypeOK
  <2> QED BY <1>1, <2>1, RelabelKeepsInv
<1>3. CASE ToggleLower
  <2>1. MeaningTypeOK' /\ Idle /\ Relabel(mode)
    BY <1>1, <1>3 DEF ToggleLower, MeaningTypeOK
  <2> QED BY <1>1, <2>1, RelabelKeepsInv
<1>4. CASE ToggleJanko
  <2>1. MeaningTypeOK' /\ Idle /\ Relabel(mode)
    BY <1>1, <1>4 DEF ToggleJanko, MeaningTypeOK
  <2> QED BY <1>1, <2>1, RelabelKeepsInv
<1>5. ASSUME NEW sc \in Scales, SelectMusic(sc) PROVE MidiInv' /\ Advances
  <2>1. MeaningTypeOK' /\ Idle /\ Relabel(mode)
    BY <1>1, <1>5 DEF SelectMusic, MeaningTypeOK
  <2> QED BY <1>1, <2>1, RelabelKeepsInv
<1>6. ASSUME NEW k \in Keys, NEW n \in Notes \cup {Unmapped}, Map(k, n)
      PROVE  MidiInv' /\ Advances
  <2>1. MeaningTypeOK' /\ Idle /\ Relabel(mode)
    BY <1>1, <1>6 DEF Map, MeaningTypeOK
  <2> QED BY <1>1, <2>1, RelabelKeepsInv
<1>7. ASSUME NEW stored \in StoredOn[scenario], ApplyProfile(stored, press, release)
      PROVE  MidiInv' /\ Advances
  <2>1. stored \in ProfilesOf(scenario)
    BY <1>1, <1>7 DEF StoredOn
  <2>2. /\ stored.mode \in BOOLEAN /\ stored.lowerMuted \in BOOLEAN /\ stored.janko \in BOOLEAN
        /\ stored.octave \in (0 - OctaveLimit) .. OctaveLimit /\ stored.scale \in Scales
        /\ stored.enabled \in BOOLEAN
        /\ stored.mapping \in {[scenario.mapping EXCEPT ![k] = n] :
                                  k \in {j \in Keys : scenario.role[j] = "note"},
                                  n \in Notes \cup {Unmapped}}
    BY <2>1 DEF ProfilesOf
  <2>3. stored.mapping \in [Keys -> Notes \cup {Unmapped}]
    BY <1>1, <2>2, ScenarioTypes DEF DefaultMapping
  <2>4. MeaningTypeOK'
    BY <1>1, <1>7, <2>2, <2>3 DEF ApplyProfile, MeaningTypeOK
  <2>5. RawInv'
    BY <1>7, <2>2, InvalidateKeepsInv DEF ApplyProfile, MidiInv, RawInv, RawTypeOK, ThresholdsOrdered
  <2>6. /\ ClearVoices /\ panic' = CleanupAfterAbort(stored.mode)
        /\ hostDirty' = hostDirty /\ host' = host
        /\ scenario' = scenario /\ phase' = "idle" /\ key' = key /\ slot' = slot
        /\ resetPending' \in BOOLEAN /\ (resetPending' => Resets)
    BY <1>7 DEF ApplyProfile, restVars, walkVars, Idle, MidiInv, OutTypeOK
  <2> QED BY <2>2, <2>4, <2>5, <2>6, AbortKeepsInv
<1> QED BY <1>2, <1>3, <1>4, <1>5, <1>6, <1>7 DEF Edit

LEMMA ResetProfileKeepsInv ==
    ASSUME MidiInv, ResetProfile
    PROVE  MidiInv' /\ Advances
<1>1. RawInv'
  BY InvalidateAlone DEF MidiInv, ResetProfile
<1>2. /\ Abort /\ UNCHANGED <<scenario, meaningVars>> /\ phase' = "idle"
      /\ key' = key /\ slot' = slot /\ resetPending' = TRUE /\ Resets
  BY DEF ResetProfile, walkVars, Idle, Resets
<1> QED BY <1>1, <1>2, PlainAbortKeepsInv

LEMMA FrameAppliesResetKeepsInv ==
    ASSUME MidiInv, NEW in, NEW ok, FrameAppliesReset(in, ok)
    PROVE  MidiInv' /\ Advances
<1>1. Resets /\ scenario \in Scenarios
  BY DEF MidiInv, FrameAppliesReset
<1>2. RawInv'
  <2>1. /\ DefaultPress \in Nat /\ DefaultRelease \in Nat
        /\ 0 < DefaultPress /\ DefaultPress < DefaultRelease /\ DefaultRelease < MaxSample
    BY RawConstants, SMT DEF RawConstants
  <2>2. /\ RawInvalidate /\ observed' \in {observed, FALSE} /\ enabled' = TRUE
        /\ press' = [k \in Keys |-> DefaultPress]
        /\ release' = [k \in Keys |-> DefaultRelease]
        /\ raw' = [k \in Keys |-> 0]
    BY DEF FrameAppliesReset, RawReset
  <2>3. ThresholdsOrdered' /\ observed' \in BOOLEAN
    BY <2>1, <2>2 DEF ThresholdsOrdered, MidiInv, RawInv, RawTypeOK
  <2> QED BY <2>1, <2>2, <2>3, InvalidateKeepsInv
<1>3. MeaningTypeOK'
  BY <1>1, ScenarioTypes, ConstantTypes
     DEF FrameAppliesReset, MeaningTypeOK, MidiInv
<1>4. /\ ClearVoices /\ scenario' = scenario /\ phase' = "idle" /\ key' \in Keys
      /\ slot' \in SlotIds /\ panic' \in 0 .. CleanupEvents /\ hostDirty' \in BOOLEAN
      /\ host' \in SUBSET Voices /\ resetPending' = FALSE
  <2>1. 0 \in 0 .. CleanupEvents
    BY ConstantTypes
  <2> QED BY <2>1 DEF FrameAppliesReset, walkVars, Idle, MidiInv, OutTypeOK, WalkTypeOK
<1>5. MidiInv'
  BY <1>1, <1>2, <1>3, <1>4, ClearKeepsInv
<1> QED BY <1>1, <1>5 DEF Advances

-----------------------------------------------------------------------------
(* keyboard_midi_service.                                                  *)

(* A service that changes only the queue and what the host knows.          *)
LEMMA DeliveryKeepsInv ==
    ASSUME MidiInv, Idle,
           UNCHANGED <<rawVars, meaningVars, voiceVars, restVars, walkVars>>,
           queue' \in Seq(Event), Len(queue') <= QueueSize, panic' \in 0 .. CleanupEvents,
           hostDirty' \in BOOLEAN, host' \in SUBSET Voices,
           HostFollowsKeys', CleanupCovers', CleanupIsFinal'
    PROVE  MidiInv'
<1>1. /\ UNCHANGED <<scenario, mode, mapping, octave, lowerMuted, janko, scale, applied>>
      /\ UNCHANGED <<active, pend, current, released, previous, noteWork, refs, sustain, wasArmed>>
      /\ UNCHANGED <<resetPending, phase, key, slot>>
      /\ UNCHANGED <<armed, down>> /\ phase = "idle"
  BY DEF meaningVars, voiceVars, walkVars, restVars, Idle, rawVars, edgeVars
<1>2. scenario' \in Scenarios /\ MeaningTypeOK' /\ VoiceTypeOK' /\ OutTypeOK' /\ WalkTypeOK'
  <2>1. MeaningTypeOK' /\ WalkTypeOK' /\ scenario' \in Scenarios
    BY <1>1 DEF MidiInv, MeaningTypeOK, WalkTypeOK
  <2>2. VoiceTypeOK'
    BY <1>1 DEF MidiInv, VoiceTypeOK
  <2>3. OutTypeOK'
    BY <1>1 DEF MidiInv, OutTypeOK
  <2> QED BY <2>1, <2>2, <2>3
<1>3. RawInv'
  BY DEF MidiInv, RawInv, RawTypeOK, ThresholdsOrdered, SchmittSettled, NothingLeft,
         rawVars, configVars, edgeVars, fitVars
<1>4. RefsCount' /\ OneStrike' /\ WorkCovers'
  BY <1>1 DEF MidiInv, RefsCount, OneStrike, WorkCovers, Buffered
<1>5. WalkPosition' /\ ModeRules' /\ HistoryCurrent' /\ (resetPending => Resets)'
  BY <1>1 DEF MidiInv, WalkPosition, ModeRules, HistoryCurrent, Idle, Unowned, Buffered,
              Resets, Commands
<1> QED BY <1>2, <1>3, <1>4, <1>5 DEF MidiInv

LEMMA ServiceKeepsInv ==
    ASSUME MidiInv, NEW accepted \in BOOLEAN, Service(accepted)
    PROVE  MidiInv' /\ Advances
<1>1. /\ UNCHANGED <<rawVars, meaningVars, restVars, walkVars>> /\ Idle
      /\ scenario' = scenario /\ resetPending' = resetPending
      /\ phase' = "idle" /\ key' = key /\ slot' = slot
  BY DEF Service, restVars, walkVars, Idle
<1>2. /\ queue \in Seq(Event) /\ Len(queue) <= QueueSize /\ panic \in 0 .. CleanupEvents
      /\ hostDirty \in BOOLEAN /\ host \in SUBSET Voices
      /\ resetPending \in BOOLEAN /\ (resetPending => Resets) /\ mode \in BOOLEAN
      /\ key \in Keys /\ slot \in SlotIds
      /\ (Resets' <=> Resets)
  BY <1>1 DEF MidiInv, OutTypeOK, WalkTypeOK, MeaningTypeOK, Resets, Commands
<1>3. RawInv' /\ MeaningTypeOK'
  <2>1. RawInv'
    BY <1>1 DEF MidiInv, RawInv, RawTypeOK, ThresholdsOrdered, SchmittSettled, NothingLeft,
         rawVars, configVars, edgeVars, fitVars
  <2> QED BY <1>1, <2>1 DEF MidiInv, MeaningTypeOK, meaningVars
<1>4. ASSUME GuardTrips, ClearVoices,
             panic' = CleanupAfterAbort(mode), UNCHANGED <<host, hostDirty>>
      PROVE  MidiInv' /\ Advances
  BY <1>1, <1>2, <1>3, <1>4, AbortKeepsInv
<1>5. ASSUME GuardTrips, ClearVoices,
             NEW p, p = CleanupAfterAbort(mode), p > 0, SweepStep(p)
      PROVE  MidiInv' /\ Advances
  <2>1. /\ p \in 0 .. CleanupEvents /\ (panic > 0 => p = panic)
        /\ ~Resets => Covered(host, hostDirty, p)
    BY <1>2, <1>5, AbortCovers
  <2>2. /\ p \in 1 .. CleanupEvents /\ p - 1 \in 0 .. CleanupEvents
        /\ panic' = p - 1 /\ host' = host \ Silenced(CleanupEvents - p)
        /\ hostDirty' \in BOOLEAN /\ (hostDirty' <=> hostDirty /\ p # 1)
        /\ host' \in SUBSET Voices
    <3>1. p \in 1 .. CleanupEvents /\ p - 1 \in 0 .. CleanupEvents
      BY <1>5, <2>1, ConstantTypes
    <3>2. hostDirty' \in BOOLEAN /\ (hostDirty' <=> hostDirty /\ p # 1)
      BY <1>5 DEF SweepStep
    <3> QED BY <1>2, <1>5, <3>1, <3>2 DEF SweepStep
  <2>3. ~Resets => Covered(host', hostDirty', panic') /\ (p = 1 => host' = {})
    BY <1>2, <2>1, <2>2, SweepCovers
  <2>4. panic' = 0 => p = 1
    BY <2>2
  <2>5. MidiInv'
    BY <1>1, <1>2, <1>3, <1>5, <2>2, <2>3, <2>4, ClearKeepsInv
  <2> QED BY <2>1, <2>2, <2>5 DEF Advances
<1>6. ASSUME panic > 0, SweepStep(panic), UNCHANGED queue, UNCHANGED voiceVars
      PROVE  MidiInv' /\ Advances
  <2>1. /\ panic \in 1 .. CleanupEvents /\ panic' = panic - 1 /\ panic' \in 0 .. CleanupEvents
        /\ host' = host \ Silenced(CleanupEvents - panic)
        /\ hostDirty' \in BOOLEAN /\ (hostDirty' <=> hostDirty /\ panic # 1)
        /\ host' \in SUBSET Voices
    <3>1. panic \in 1 .. CleanupEvents /\ panic - 1 \in 0 .. CleanupEvents
      BY <1>2, <1>6, ConstantTypes
    <3>2. hostDirty' \in BOOLEAN /\ (hostDirty' <=> hostDirty /\ panic # 1)
      BY <1>6 DEF SweepStep
    <3> QED BY <1>2, <1>6, <3>1, <3>2 DEF SweepStep
  <2>2. ~Resets => Covered(host, hostDirty, panic)
    BY DEF MidiInv, CleanupCovers, Covered
  <2>3. ~Resets => Covered(host', hostDirty', panic') /\ (panic = 1 => host' = {})
    BY <1>2, <2>1, <2>2, SweepCovers
  <2>4. queue = <<>> /\ active = SilentKeys /\ pend = EmptySlots /\ ~sustain
    BY <1>6 DEF MidiInv, CleanupIsFinal
  <2>5. queue' = <<>> /\ active' = SilentKeys /\ pend' = EmptySlots /\ ~sustain'
    BY <1>6, <2>4 DEF voiceVars
  <2>6. CleanupCovers' /\ CleanupIsFinal'
    BY <1>2, <2>3, <2>5 DEF CleanupCovers, CleanupIsFinal, Covered
  <2>7. HostFollowsKeys'
    <3> SUFFICES ASSUME panic' = 0, ~Resets PROVE \A v \in Voices : Outcome(v)' = Wanted(v)'
      BY <1>2 DEF HostFollowsKeys
    <3>1. host' = {}
      BY <2>1, <2>3
    <3>2. \A v \in Voices : Outcome(v)' = FALSE
      BY <2>5, <3>1 DEF Outcome
    <3>3. \A k \in Keys : active'[k] = Unmapped
      BY <2>5 DEF SilentKeys
    <3>4. \A v \in Voices : Wanted(v)' = FALSE
      BY <2>5, <3>3, ConstantTypes, UnmappedIsNoNote DEF Wanted
    <3> QED BY <3>2, <3>4
  <2>8. MidiInv'
    BY <1>1, <1>2, <1>6, <2>1, <2>6, <2>7, DeliveryKeepsInv
  <2> QED BY <2>1, <2>8 DEF Advances
<1>7. ASSUME panic = 0, queue # <<>>, hostDirty' = TRUE, queue' = Tail(queue), panic' = panic,
             host' = IF Head(queue).on THEN host \cup {Head(queue).voice}
                     ELSE host \ {Head(queue).voice},
             UNCHANGED voiceVars
      PROVE  MidiInv' /\ Advances
  <2>1. /\ queue' \in Seq(Event) /\ Len(queue') <= QueueSize /\ Head(queue) \in Event
    BY <1>2, <1>7, HeadTailProperties, LenProperties, ConstantTypes
  <2>2. host' \in SUBSET Voices
    BY <1>2, <1>7, <2>1 DEF Event
  <2>3. CleanupCovers' /\ CleanupIsFinal'
    BY <1>7 DEF CleanupCovers, CleanupIsFinal
  <2>4. HostFollowsKeys'
    <3> SUFFICES ASSUME ~Resets, NEW v \in Voices PROVE Outcome(v)' = Wanted(v)'
      BY <1>2 DEF HostFollowsKeys
    <3>1. Outcome(v) = Wanted(v)
      BY <1>7 DEF MidiInv, HostFollowsKeys
    <3>2. OutcomeOf(queue', host', v) = OutcomeOf(queue, host, v)
      BY <1>2, <1>7, OutcomeDelivered
    <3>3. Outcome(v) = OutcomeOf(queue, host, v) /\ Outcome(v)' = OutcomeOf(queue', host', v)
      BY DEF Outcome, OutcomeOf
    <3>4. Wanted(v)' = Wanted(v)
      BY <1>7 DEF Wanted, voiceVars
    <3> QED BY <3>1, <3>2, <3>3, <3>4
  <2>5. MidiInv'
    BY <1>1, <1>2, <1>7, <2>1, <2>2, <2>3, <2>4, DeliveryKeepsInv
  <2> QED BY <1>7, <2>5 DEF Advances
<1> QED BY <1>2, <1>4, <1>5, <1>6, <1>7 DEF Service

-----------------------------------------------------------------------------
(* The walk over the worklist.                                             *)

(* overflow: everything is given up.                                       *)
LEMMA GiveUpKeepsInv ==
    ASSUME MidiInv, GiveUp, MeaningTypeOK'
    PROVE  MidiInv' /\ Advances
<1>1. RawInv'
  BY InvalidateAlone DEF MidiInv, GiveUp
<1>2. /\ mode \in BOOLEAN
      /\ ClearVoices /\ panic' = CleanupAfterAbort(mode) /\ hostDirty' = hostDirty /\ host' = host
      /\ scenario' = scenario /\ phase' = "idle" /\ key' = key /\ slot' = slot
      /\ resetPending' \in BOOLEAN /\ (resetPending' => Resets)
  BY DEF GiveUp, Abort, Rest, restVars, MidiInv, OutTypeOK, MeaningTypeOK
<1> QED BY <1>1, <1>2, AbortKeepsInv

LEMMA OverflowKeepsInv ==
    ASSUME MidiInv, Overflow
    PROVE  MidiInv' /\ Advances
<1>1. MeaningTypeOK' /\ GiveUp
  BY DEF MidiInv, MeaningTypeOK, meaningVars, Overflow
<1> QED BY <1>1, GiveUpKeepsInv

(* What a stage of the walk has to establish.                              *)
LEMMA WalkKeepsInv ==
    ASSUME MidiInv, ~Idle, UNCHANGED rawVars, UNCHANGED restVars, mode' = mode,
           UNCHANGED <<panic, hostDirty, host>>,
           MeaningTypeOK', VoiceTypeOK', WalkTypeOK',
           queue' \in Seq(Event), Len(queue') <= QueueSize,
           RefsCount', OneStrike', WorkCovers', WalkPosition', HistoryCurrent',
           \A v \in Voices : OutcomeOf(queue, host, v) = Wanted(v) =>
                             OutcomeOf(queue', host, v) = Wanted(v)'
    PROVE  MidiInv' /\ Advances
<1>1. mode /\ panic = 0 /\ scenario' = scenario /\ resetPending' = resetPending
      /\ panic' = panic /\ hostDirty' = hostDirty /\ host' = host
  BY DEF MidiInv, ModeRules, restVars
<1>2. RawInv'
  BY DEF MidiInv, RawInv, RawTypeOK, ThresholdsOrdered, SchmittSettled, NothingLeft,
         rawVars, configVars, edgeVars, fitVars
<1>3. OutTypeOK' /\ scenario' \in Scenarios
  BY <1>1 DEF MidiInv, OutTypeOK
<1>4. ModeRules' /\ (resetPending => Resets)' /\ CleanupCovers' /\ CleanupIsFinal'
  BY <1>1 DEF MidiInv, ModeRules, Resets, Commands, CleanupCovers, CleanupIsFinal
<1>5. HostFollowsKeys'
  <2> SUFFICES ASSUME ~Resets, NEW v \in Voices PROVE Outcome(v)' = Wanted(v)'
    BY <1>1 DEF HostFollowsKeys, Resets, Commands
  <2>1. Outcome(v) = Wanted(v)
    BY <1>1 DEF MidiInv, HostFollowsKeys
  <2>2. Outcome(v) = OutcomeOf(queue, host, v) /\ Outcome(v)' = OutcomeOf(queue', host, v)
    BY <1>1 DEF Outcome, OutcomeOf
  <2> QED BY <2>1, <2>2
<1>6. Advances
  BY <1>1 DEF Advances
<1> QED BY <1>2, <1>3, <1>4, <1>5, <1>6 DEF MidiInv

(* Moving on after key k, with everything up to k settled.                 *)
LEMMA NextKeyPosition ==
    ASSUME MidiInv, NEW k \in Nat, noteWork' \in SUBSET Keys, NextKey(k, noteWork'),
           down' = down, WorkCovers',
           \A j \in Keys : j <= k /\ j \notin down => Unowned(j)',
           \A j \in Keys : j > k /\ j \notin previous => Unowned(j)'
    PROVE  /\ WalkTypeOK' /\ WalkPosition' /\ HistoryCurrent'
           /\ previous' \in SUBSET Keys
<1> DEFINE rest == {j \in noteWork' : j > k}
<1>1. \A j \in Keys : j \in Nat /\ (j <= k \/ j > k)
  BY DEF Keys
<1>2. \A j \in Keys : j \notin noteWork' => Unowned(j)'
  BY DEF WorkCovers, Unowned
<1>3. down \in SUBSET Keys /\ previous \in SUBSET Keys /\ key \in Keys /\ slot \in SlotIds
  BY DEF MidiInv, RawInv, RawTypeOK, VoiceTypeOK, WalkTypeOK
<1>4. CASE rest = {} /\ FrameEnd
  <2>1. /\ previous' = down /\ phase' = "idle" /\ key' = key /\ slot' = slot
    BY <1>4 DEF FrameEnd, Rest
  <2>2. \A j \in Keys \ previous' : Unowned(j)'
    BY <1>1, <1>2, <1>4, <2>1
  <2> QED BY <1>3, <2>1, <2>2 DEF WalkTypeOK, WalkPosition, HistoryCurrent
<1>5. CASE rest # {} /\ Goto("release", Min(rest)) /\ UNCHANGED <<previous, slot>>
  <2>1. Min(rest) \in rest /\ \A j \in rest : Min(rest) <= j
    <3>1. rest \in SUBSET Nat
      BY <1>1
    <3> QED BY <1>5, <3>1, LeastMember
  <2>2. /\ phase' = "release" /\ key' = Min(rest) /\ previous' = previous /\ slot' = slot
        /\ key' \in Keys /\ key' \in noteWork' /\ key' > k
    BY <1>5, <2>1 DEF Goto
  <2>3. ASSUME NEW j \in Keys, j < key', j \notin down PROVE Unowned(j)'
    <3>1. CASE j <= k
      BY <2>3, <3>1
    <3>2. CASE j > k
      <4>1. j \notin noteWork'
        BY <1>1, <2>1, <2>2, <2>3, <3>2
      <4> QED BY <1>2, <4>1
    <3> QED BY <1>1, <3>1, <3>2
  <2>4. ASSUME NEW j \in Keys, j >= key', j \notin previous PROVE Unowned(j)'
    BY <1>1, <2>2, <2>4
  <2>5. WalkPosition'
    <3>1. \A j \in Keys : j < key' /\ j \notin down' => Unowned(j)'
      BY <2>3
    <3>2. \A j \in Keys : j > key' /\ j \notin previous' => Unowned(j)'
      BY <1>1, <2>2, <2>4
    <3>3. key' \notin previous' => Unowned(key)'
      BY <1>1, <2>2, <2>4
    <3> QED BY <2>2, <3>1, <3>2, <3>3 DEF WalkPosition
  <2> QED BY <1>3, <2>2, <2>5 DEF WalkTypeOK, HistoryCurrent, Idle
<1> QED BY <1>4, <1>5 DEF NextKey

LEMMA ControlsKeepsInv ==
    ASSUME MidiInv, Controls
    PROVE  MidiInv' /\ Advances
<1> DEFINE shift == Cardinality(Struck("up")) - Cardinality(Struck("down"))
           pedal == ~FnHeld /\ \E k \in down : Role[k] = "sustain" /\ (sustain \/ k \notin previous)
           shifted == IF FnHeld THEN octave ELSE Clamp(octave + shift)
<1>1. /\ phase = "controls" /\ ~Idle /\ octave' = shifted
      /\ UNCHANGED <<mode, mapping, lowerMuted, janko, scale, applied>>
  BY DEF Controls, Idle
<1>2. MeaningTypeOK'
  <2>1. down \in SUBSET Keys /\ octave \in (0 - OctaveLimit) .. OctaveLimit
    BY DEF MidiInv, RawInv, RawTypeOK, MeaningTypeOK
  <2>2. shift \in Int
    <3>1. Struck("up") \in SUBSET Keys /\ Struck("down") \in SUBSET Keys
      BY <2>1 DEF Struck
    <3> QED BY <3>1, KeySetsAreFinite
  <2>3. octave' \in (0 - OctaveLimit) .. OctaveLimit
    <3> HIDE DEF shift
    <3>1. \A o \in Int : Clamp(o) \in (0 - OctaveLimit) .. OctaveLimit
      BY ConstantTypes DEF Clamp
    <3>2. octave + shift \in Int
      BY <2>1, <2>2, ConstantTypes
    <3>3. Clamp(octave + shift) \in (0 - OctaveLimit) .. OctaveLimit
      BY <3>1, <3>2
    <3> QED BY <1>1, <2>1, <3>3
  <2> QED BY <1>1, <2>3 DEF MidiInv, MeaningTypeOK
<1> HIDE DEF pedal, shifted
<1>3. CASE GiveUp
  BY <1>2, <1>3, GiveUpKeepsInv
<1>4. ASSUME pedal = sustain \/ ~Full(1), sustain' = pedal,
             queue' = IF pedal = sustain THEN queue
                      ELSE Append(queue, [voice |-> Pedal, on |-> pedal]),
             noteWork' = noteWork \cup changed,
             NextKey(0, noteWork'),
             UNCHANGED <<active, pend, current, released, refs, wasArmed,
                         panic, hostDirty, host, rawVars, restVars>>
      PROVE  MidiInv' /\ Advances
  <2>1. /\ VoiceTypeOK /\ queue \in Seq(Event) /\ Len(queue) <= QueueSize
        /\ changed \in SUBSET Keys /\ down' = down
    BY <1>4 DEF MidiInv, OutTypeOK, RawInv, RawTypeOK, rawVars, edgeVars
  <2>2. pedal \in BOOLEAN /\ noteWork' \in SUBSET Keys
    BY <1>4, <2>1 DEF pedal, VoiceTypeOK
  <2>3. RefsCount' /\ OneStrike' /\ WorkCovers'
    BY <1>4 DEF MidiInv, RefsCount, OneStrike, WorkCovers, Buffered
  <2>4. \A j \in Keys : j > 0 /\ (Unowned(j)' <=> Unowned(j))
    BY <1>4 DEF Unowned, Buffered, Keys
  <2>5. \A j \in Keys \ previous : Unowned(j)
    BY <1>1 DEF MidiInv, WalkPosition
  <2>6. /\ \A j \in Keys : j <= 0 /\ j \notin down => Unowned(j)'
        /\ \A j \in Keys : j > 0 /\ j \notin previous => Unowned(j)'
    <3>1. \A j \in Keys : j \in Nat /\ ~ (j <= 0)
      BY DEF Keys
    <3> QED BY <2>4, <2>5, <3>1
  <2>7. WalkTypeOK' /\ WalkPosition' /\ HistoryCurrent' /\ previous' \in SUBSET Keys
    BY <1>4, <2>1, <2>2, <2>3, <2>6, NextKeyPosition
  <2>8. VoiceTypeOK'
    BY <1>4, <2>1, <2>2, <2>7 DEF VoiceTypeOK
  <2>9. [voice |-> Pedal, on |-> pedal] \in Event
    BY <2>2, ConstantTypes DEF Event
  <2>10. queue' \in Seq(Event) /\ Len(queue') <= QueueSize
    BY <1>4, <2>1, <2>9, AppendProperties, LenProperties, ConstantTypes DEF Full
  <2>11. ASSUME NEW v \in Voices, OutcomeOf(queue, host, v) = Wanted(v)
         PROVE  OutcomeOf(queue', host, v) = Wanted(v)'
    <3>1. v # Pedal => Wanted(v)' = Wanted(v)
      BY <1>4 DEF Wanted
    <3>2. v = Pedal => Wanted(v)' = pedal /\ Wanted(v) = sustain
      BY <1>4 DEF Wanted
    <3>3. CASE pedal = sustain
      BY <1>4, <2>11, <3>1, <3>2, <3>3
    <3>4. CASE pedal # sustain
      <4>1. /\ Pedal = v => OutcomeOf(queue', host, v) = pedal
            /\ Pedal # v => OutcomeOf(queue', host, v) = OutcomeOf(queue, host, v)
        <5> DEFINE e == [voice |-> Pedal, on |-> pedal]
        <5>1. queue' = Append(queue, e) /\ e \in Event /\ e.voice = Pedal /\ e.on = pedal
          BY <1>4, <2>9, <3>4
        <5> HIDE DEF e
        <5>2. /\ Pedal = v => OutcomeOf(queue', host, v) = e.on
              /\ Pedal # v => OutcomeOf(queue', host, v) = OutcomeOf(queue, host, v)
          BY <2>1, <5>1, OutcomeAppended
        <5> QED BY <5>1, <5>2
      <4> QED BY <2>11, <3>1, <3>2, <4>1
    <3> QED BY <3>3, <3>4
  <2> QED BY <1>1, <1>2, <1>4, <2>3, <2>7, <2>8, <2>10, <2>11, WalkKeepsInv
<1> QED BY <1>3, <1>4 DEF Controls, pedal

LEMMA KeyReleaseKeepsInv ==
    ASSUME MidiInv, KeyRelease
    PROVE  MidiInv' /\ Advances
<1> DEFINE up == key \in previous \ down
           note == active[key]
           lets == up /\ note # Unmapped
           last == lets /\ refs[note] = 1
<1>1. /\ phase = "release" /\ ~Idle
      /\ VoiceTypeOK /\ WalkTypeOK /\ RefsCount /\ OneStrike /\ WorkCovers /\ WalkPosition
      /\ queue \in Seq(Event) /\ Len(queue) <= QueueSize
  BY DEF KeyRelease, Idle, MidiInv, OutTypeOK
<1>2. CASE Overflow
  BY <1>2, OverflowKeepsInv
<1>3. ASSUME ~(last /\ Full(1)),
             released' = IF up /\ current[key] # NoSlot
                         THEN [released EXCEPT ![key] = @ \cup {current[key]}]
                         ELSE released,
             active' = IF up THEN [active EXCEPT ![key] = Unmapped] ELSE active,
             refs' = IF lets THEN Disowned(note) ELSE refs,
             queue' = IF last THEN Append(queue, [voice |-> note, on |-> FALSE]) ELSE queue,
             phase' \in {"fire", "strike"}, slot' = 1,
             UNCHANGED <<key, pend, current, previous, noteWork, sustain, wasArmed,
                         panic, hostDirty, host, rawVars, meaningVars, restVars>>
      PROVE  MidiInv' /\ Advances
  <2>1. /\ active \in [Keys -> Notes \cup {Unmapped}]
        /\ pend \in [Keys -> [SlotIds -> Notes \cup {Unmapped}]]
        /\ current \in [Keys -> SlotIds \cup {NoSlot}]
        /\ released \in [Keys -> SUBSET SlotIds]
        /\ refs \in [Notes -> Nat] /\ key \in Keys
    BY <1>1 DEF VoiceTypeOK, WalkTypeOK
  <2>2. lets => note \in Notes
    BY <2>1
  <2>3. /\ \A k \in Keys \ {key} : active'[k] = active[k] /\ released'[k] = released[k]
        /\ up => active'[key] = Unmapped
        /\ ~up => active' = active /\ released' = released
        /\ up => released[key] \subseteq released'[key]
        /\ up /\ current[key] # NoSlot => current[key] \in released'[key]
        /\ ~lets => active' = active
    BY <1>3, <2>1
  <2>4. \A k \in Keys : Buffered(k)' = Buffered(k) /\ Buffered(k) \subseteq SlotIds
    BY <1>3 DEF Buffered
  <2>5. \A k \in Keys : active'[k] = active[k] \/ active'[k] = Unmapped
    BY <2>3
  <2>6. \A k \in Keys : released[k] \subseteq released'[k]
    BY <2>3
  <2>7. RefsCount'
    <3>1. CASE lets
      <4>1. active' = [active EXCEPT ![key] = Unmapped] /\ active[key] \in Notes
        BY <1>3, <2>2, <3>1
      <4>2. \A n \in Notes :
                  Cardinality(SoundingOf(active', n)) =
                     IF n = note THEN Cardinality(SoundingOf(active, n)) - 1
                     ELSE Cardinality(SoundingOf(active, n))
        BY <2>1, <4>1, OwnerGone
      <4>3. Cardinality(SoundingOf(active, note)) # 0
        BY <2>1, SomebodySounds
      <4>4. \A n \in Notes : refs[n] = Cardinality(SoundingOf(active, n)) /\ refs[n] \in Nat
        BY <1>1, <2>1 DEF RefsCount
      <4>5. refs[note] > 0
        BY <2>2, <3>1, <4>3, <4>4
      <4>6. \A n \in Notes : refs'[n] = IF n = note THEN refs[n] - 1 ELSE refs[n]
        BY <1>3, <2>1, <2>2, <3>1, <4>5 DEF Disowned
      <4> QED BY <4>2, <4>4, <4>6 DEF RefsCount
    <3>2. CASE ~lets
      BY <1>1, <1>3, <2>3, <3>2 DEF RefsCount
    <3> QED BY <3>1, <3>2
  <2>8. OneStrike'
    BY <1>1, <1>3, <2>4, <2>5, <2>6 DEF OneStrike
  <2>9. WorkCovers'
    BY <1>1, <1>3, <2>4, <2>5 DEF WorkCovers
  <2>10. \A k \in Keys : Unowned(k) => Unowned(k)'
    BY <2>4, <2>5, <2>6 DEF Unowned
  <2>11. ASSUME key \notin previous \cap down PROVE Unowned(key)'
    <3>1. CASE key \notin previous
      BY <1>1, <1>3, <2>1, <2>10, <3>1 DEF WalkPosition
    <3>2. CASE up
      <4>1. ASSUME NEW t \in Buffered(key) PROVE t \in released'[key]
        <5>1. t \in released[key] \/ (t = current[key] /\ t \in SlotIds)
          BY <1>1, <2>1, <2>4, <4>1 DEF OneStrike
        <5>2. t = current[key] /\ t \in SlotIds => current[key] # NoSlot
          BY DEF SlotIds, NoSlot
        <5> QED BY <2>3, <3>2, <5>1, <5>2
      <4> QED BY <1>3, <2>1, <2>3, <2>4, <3>2, <4>1 DEF Unowned
    <3> QED BY <2>11, <3>1, <3>2
  <2>12. WalkPosition' /\ HistoryCurrent' /\ WalkTypeOK'
    <3>1. down' = down /\ previous' = previous /\ key' = key /\ noteWork' = noteWork
      BY <1>3 DEF rawVars, edgeVars
    <3>2. WalkPosition'
      BY <1>1, <1>3, <2>10, <2>11, <3>1 DEF WalkPosition
    <3> QED BY <1>1, <1>3, <3>1, <3>2, ConstantTypes DEF HistoryCurrent, Idle, WalkTypeOK
  <2>13. VoiceTypeOK'
    <3>1. active' \in [Keys -> Notes \cup {Unmapped}]
      BY <1>3, <2>1
    <3>2. released' \in [Keys -> SUBSET SlotIds]
      <4>1. up /\ current[key] # NoSlot => released[key] \cup {current[key]} \in SUBSET SlotIds
        BY <2>1
      <4> QED BY <1>3, <2>1, <4>1
    <3>3. refs' \in [Notes -> Nat]
      <4>1. lets => Disowned(note) \in [Notes -> Nat]
        BY <2>1, <2>2 DEF Disowned
      <4> QED BY <1>3, <2>1, <4>1
    <3> QED BY <1>1, <1>3, <3>1, <3>2, <3>3 DEF VoiceTypeOK
  <2>14. MeaningTypeOK'
    BY <1>3 DEF MidiInv, MeaningTypeOK, meaningVars
  <2>15. last => [voice |-> note, on |-> FALSE] \in Event /\ note # Pedal
    BY <2>2, ConstantTypes, UnmappedIsNoNote DEF Event
  <2>16. queue' \in Seq(Event) /\ Len(queue') <= QueueSize
    BY <1>1, <1>3, <2>15, AppendProperties, LenProperties, ConstantTypes DEF Full
  <2>17. ASSUME NEW v \in Voices, OutcomeOf(queue, host, v) = Wanted(v)
         PROVE  OutcomeOf(queue', host, v) = Wanted(v)'
    <3>1. ASSUME v = Pedal \/ ~lets \/ v # note PROVE Wanted(v)' = Wanted(v)
      <4>1. CASE v = Pedal
        BY <1>3, <4>1 DEF Wanted
      <4>2. CASE v # Pedal /\ ~lets
        BY <2>3, <4>2 DEF Wanted
      <4>3. CASE v # Pedal /\ v # note
        <5>1. v # Unmapped
          BY <4>3, ConstantTypes, UnmappedIsNoNote
        <5>2. \A k \in Keys : active'[k] = v <=> active[k] = v
          BY <2>1, <2>3, <4>3, <5>1
        <5> QED BY <4>3, <5>2 DEF Wanted
      <4> QED BY <3>1, <4>1, <4>2, <4>3
    <3>2. CASE last
      <4>1. /\ note = v => OutcomeOf(queue', host, v) = FALSE
            /\ note # v => OutcomeOf(queue', host, v) = OutcomeOf(queue, host, v)
        <5> DEFINE e == [voice |-> note, on |-> FALSE]
        <5>1. queue' = Append(queue, e)
          BY <1>3, <3>2
        <5>2. e \in Event /\ e.voice = note /\ e.on = FALSE
          BY <2>15, <3>2
        <5> HIDE DEF e
        <5>3. /\ note = v => OutcomeOf(queue', host, v) = e.on
              /\ note # v => OutcomeOf(queue', host, v) = OutcomeOf(queue, host, v)
          BY <1>1, <5>1, <5>2, OutcomeAppended
        <5> QED BY <5>2, <5>3
      <4>2. ASSUME v = note PROVE Wanted(v)' = FALSE
        <5>1. Cardinality(SoundingOf(active', v)) = 0
          <6>1. refs'[note] = 0
            BY <1>3, <2>1, <2>2, <3>2 DEF Disowned
          <6> QED BY <2>2, <2>7, <3>2, <4>2, <6>1 DEF RefsCount
        <5>2. ~ \E k \in Keys : active'[k] = v
          BY <5>1, SomebodySounds
        <5> QED BY <2>15, <3>2, <4>2, <5>2 DEF Wanted
      <4> QED BY <2>17, <3>1, <4>1, <4>2
    <3>3. CASE lets /\ ~last /\ v = note
      <4>1. v # Pedal /\ v \in Notes
        BY <2>2, <3>3, UnmappedIsNoNote
      <4>2. refs[v] # 0 /\ refs[v] # 1 /\ refs[v] \in Nat
        <5>1. Cardinality(SoundingOf(active, v)) # 0
          BY <2>1, <3>3, SomebodySounds
        <5> QED BY <1>1, <2>1, <3>3, <4>1, <5>1 DEF RefsCount
      <4>3. refs'[v] = refs[v] - 1
        BY <1>3, <2>1, <3>3, <4>1, <4>2 DEF Disowned
      <4>4. Cardinality(SoundingOf(active', v)) # 0
        BY <2>7, <4>1, <4>2, <4>3 DEF RefsCount
      <4>5. \E k \in Keys : active'[k] = v
        BY <4>4, SomebodySounds
      <4>6. Wanted(v)' = TRUE /\ Wanted(v) = TRUE
        BY <2>1, <3>3, <4>1, <4>5 DEF Wanted
      <4> QED BY <1>3, <2>17, <3>3, <4>6
    <3>4. CASE ~last /\ ~(lets /\ v = note)
      BY <1>3, <2>17, <3>1, <3>4
    <3> QED BY <3>2, <3>3, <3>4
  <2>18. UNCHANGED rawVars /\ UNCHANGED restVars /\ mode' = mode
         /\ UNCHANGED <<panic, hostDirty, host>>
    BY <1>3 DEF meaningVars
  <2> QED BY <1>1, <2>7, <2>8, <2>9, <2>12, <2>13, <2>14, <2>16, <2>17, <2>18, WalkKeepsInv
<1> QED BY <1>2, <1>3 DEF KeyRelease, ReleasedNote, LastOwner

(* The two events of a strike that sounds and ends at once.                *)
LEMMA TwoAppends ==
    ASSUME NEW q \in Seq(Event), NEW b \in Event, NEW e \in Event
    PROVE  q \o <<b, e>> = Append(Append(q, b), e)
<1>1. <<b>> \in Seq(Event) /\ <<e>> \in Seq(Event) /\ <<b, e>> \in Seq(Event)
  OBVIOUS
<1>2. Append(Append(q, b), e) = (q \o <<b>>) \o <<e>>
  <2>1. Append(q, b) \in Seq(Event)
    BY AppendProperties
  <2> QED BY <2>1, AppendIsConcat
<1>3. (q \o <<b>>) \o <<e>> = q \o (<<b>> \o <<e>>)
  BY <1>1, ConcatAssociative
<1>4. <<b>> \o <<e>> = <<b, e>>
  <2> DEFINE one == Append(<<b>>, e)
             two == <<b, e>>
  <2>1. Len(<<b>>) = 1 /\ <<b>>[1] = b
    OBVIOUS
  <2>2. one \in Seq(Event) /\ Len(one) = 2 /\ one[1] = b /\ one[2] = e
    BY <1>1, <2>1, AppendProperties
  <2>3. two \in Seq(Event) /\ Len(two) = 2 /\ two[1] = b /\ two[2] = e
    BY <1>1
  <2>4. one = <<b>> \o <<e>>
    BY <1>1, AppendIsConcat
  <2> HIDE DEF one, two
  <2>5. \A i \in 1 .. Len(one) : one[i] = two[i]
    BY <2>2, <2>3
  <2>6. one = two
    BY <2>2, <2>3, <2>5, SeqEqual
  <2> QED BY <2>4, <2>6 DEF two
<1> QED BY <1>2, <1>3, <1>4

LEMMA KeyFireKeepsInv ==
    ASSUME MidiInv, KeyFire
    PROVE  MidiInv' /\ Advances
<1> DEFINE note == pend[key][slot]
           first == note # Unmapped /\ refs[note] = 0
           tap == slot \in released[key]
           sounds == note # Unmapped /\ ~tap
           events == IF ~first THEN <<>>
                     ELSE IF tap THEN <<[voice |-> note, on |-> TRUE], [voice |-> note, on |-> FALSE]>>
                     ELSE <<[voice |-> note, on |-> TRUE]>>
<1>1. /\ phase = "fire" /\ ~Idle
      /\ VoiceTypeOK /\ WalkTypeOK /\ RefsCount /\ OneStrike /\ WorkCovers /\ WalkPosition
      /\ queue \in Seq(Event) /\ Len(queue) <= QueueSize
  BY DEF KeyFire, Idle, MidiInv, OutTypeOK
<1>2. CASE Overflow
  BY <1>2, OverflowKeepsInv
<1>3. ASSUME ~Full(Len(events)), queue' = queue \o events,
             refs' = IF sounds THEN [refs EXCEPT ![note] = @ + 1] ELSE refs,
             active' = IF sounds THEN [active EXCEPT ![key] = note] ELSE active,
             current' = IF note # Unmapped /\ current[key] = slot
                        THEN [current EXCEPT ![key] = NoSlot] ELSE current,
             pend' = [pend EXCEPT ![key][slot] = Unmapped],
             \/ slot < Slots /\ slot' = slot + 1 /\ phase' = phase
             \/ slot = Slots /\ phase' = "strike" /\ slot' = slot,
             UNCHANGED <<key, released, previous, noteWork, sustain, wasArmed,
                         panic, hostDirty, host, rawVars, meaningVars, restVars>>
      PROVE  MidiInv' /\ Advances
  <2>1. /\ active \in [Keys -> Notes \cup {Unmapped}]
        /\ pend \in [Keys -> [SlotIds -> Notes \cup {Unmapped}]]
        /\ current \in [Keys -> SlotIds \cup {NoSlot}]
        /\ released \in [Keys -> SUBSET SlotIds]
        /\ refs \in [Notes -> Nat] /\ key \in Keys /\ slot \in SlotIds
        /\ key \in noteWork
    BY <1>1 DEF VoiceTypeOK, WalkTypeOK, WalkPosition
  <2>2. note # Unmapped => note \in Notes
    BY <2>1
  <2>3. /\ \A k \in Keys \ {key} : active'[k] = active[k] /\ Buffered(k)' = Buffered(k)
                                   /\ current'[k] = current[k]
        /\ Buffered(key)' = Buffered(key) \ {slot}
        /\ \A k \in Keys : released'[k] = released[k] /\ Buffered(k)' \subseteq Buffered(k)
    <3>1. \A k \in Keys \ {key} : pend'[k] = pend[k]
      BY <1>3, <2>1
    <3>2. \A t \in SlotIds : pend'[key][t] = IF t = slot THEN Unmapped ELSE pend[key][t]
      BY <1>3, <2>1
    <3>3. \A k \in Keys \ {key} : active'[k] = active[k] /\ current'[k] = current[k]
      BY <1>3, <2>1
    <3> QED BY <1>3, <3>1, <3>2, <3>3 DEF Buffered
  <2>4. note # Unmapped <=> slot \in Buffered(key)
    BY <2>1 DEF Buffered
  <2>5. sounds => slot = current[key] /\ active[key] = Unmapped
    BY <1>1, <2>1, <2>4 DEF OneStrike
  <2>6. /\ sounds => active' = [active EXCEPT ![key] = note]
        /\ ~sounds => active' = active /\ refs' = refs
    BY <1>3
  <2>7. RefsCount'
    <3>1. CASE sounds
      <4>1. note \in Notes /\ active[key] = Unmapped
        BY <2>2, <2>5, <3>1
      <4>2. \A n \in Notes :
               Cardinality(SoundingOf(active', n)) =
                  IF n = note THEN Cardinality(SoundingOf(active, n)) + 1
                  ELSE Cardinality(SoundingOf(active, n))
        BY <2>1, <2>6, <3>1, <4>1, OwnerAdded
      <4>3. \A n \in Notes : refs'[n] = IF n = note THEN refs[n] + 1 ELSE refs[n]
        BY <1>3, <2>1, <3>1, <4>1
      <4> QED BY <1>1, <4>2, <4>3 DEF RefsCount
    <3>2. CASE ~sounds
      BY <1>1, <2>6, <3>2 DEF RefsCount
    <3> QED BY <3>1, <3>2
  <2>8. OneStrike'
    <3> SUFFICES ASSUME NEW k \in Keys, NEW t \in Buffered(k)' \ released'[k]
                 PROVE  t = current'[k] /\ active'[k] = Unmapped
      BY DEF OneStrike
    <3>1. t \in Buffered(k) \ released[k]
      BY <2>3
    <3>2. t = current[k] /\ active[k] = Unmapped
      BY <1>1, <3>1 DEF OneStrike
    <3>3. CASE k # key
      BY <2>3, <3>2, <3>3
    <3>4. CASE k = key
      <4>1. t # slot
        BY <1>3, <2>3, <3>4
      <4>2. ~sounds /\ current[key] # slot
        BY <2>5, <3>2, <3>4, <4>1
      <4>3. current' = current
        BY <1>3, <4>2
      <4> QED BY <2>6, <3>2, <4>2, <4>3
    <3> QED BY <3>3, <3>4
  <2>9. WorkCovers'
    <3>1. noteWork' = noteWork
      BY <1>3
    <3>2. ASSUME NEW k \in Keys \ {key}, Buffered(k)' # {} \/ active'[k] # Unmapped
          PROVE  k \in noteWork'
      BY <1>1, <2>3, <3>1, <3>2 DEF WorkCovers
    <3> QED BY <2>1, <3>1, <3>2 DEF WorkCovers
  <2>10. \A k \in Keys \ {key} : Unowned(k) => Unowned(k)'
    BY <2>3 DEF Unowned
  <2>11. ASSUME key \notin previous \cap down PROVE Unowned(key)'
    <3>1. Unowned(key) /\ key' = key
      BY <1>1, <1>3, <2>11 DEF WalkPosition
    <3>2. ~sounds
      BY <2>4, <3>1 DEF Unowned
    <3>3. active' = active
      BY <2>6, <3>2
    <3> QED BY <2>1, <2>3, <3>1, <3>3 DEF Unowned
  <2>12. WalkPosition' /\ HistoryCurrent' /\ WalkTypeOK'
    <3>1. /\ down' = down /\ previous' = previous /\ key' = key /\ noteWork' = noteWork
          /\ phase' \in {"fire", "strike"}
      BY <1>1, <1>3 DEF rawVars, edgeVars
    <3>2. WalkPosition'
      <4>1. \A k \in Keys : k < key /\ k \notin down => k # key /\ Unowned(k)
        BY <1>1, <2>1 DEF WalkPosition, Keys
      <4>2. \A k \in Keys : k > key /\ k \notin previous => k # key /\ Unowned(k)
        BY <1>1, <2>1 DEF WalkPosition, Keys
      <4>3. \A k \in Keys : k < key' /\ k \notin down' => Unowned(k)'
        BY <2>10, <3>1, <4>1
      <4>4. \A k \in Keys : k > key' /\ k \notin previous' => Unowned(k)'
        BY <2>10, <3>1, <4>2
      <4> QED BY <2>1, <2>11, <3>1, <4>3, <4>4 DEF WalkPosition
    <3>3. slot' \in SlotIds
      BY <1>3, <2>1, ConstantTypes DEF SlotIds
    <3> QED BY <2>1, <3>1, <3>2, <3>3 DEF HistoryCurrent, Idle, WalkTypeOK
  <2>13. VoiceTypeOK'
    <3>1. active' \in [Keys -> Notes \cup {Unmapped}]
      BY <2>1, <2>2, <2>6
    <3>2. current' \in [Keys -> SlotIds \cup {NoSlot}]
      BY <1>3, <2>1
    <3>3. refs' \in [Notes -> Nat]
      BY <1>3, <2>1, <2>2
    <3>4. pend' \in [Keys -> [SlotIds -> Notes \cup {Unmapped}]]
      <4>1. [pend[key] EXCEPT ![slot] = Unmapped] \in [SlotIds -> Notes \cup {Unmapped}]
        BY <2>1
      <4>2. pend' = [pend EXCEPT ![key] = [pend[key] EXCEPT ![slot] = Unmapped]]
        BY <1>3, <2>1
      <4> QED BY <2>1, <4>1, <4>2
    <3> QED BY <1>1, <1>3, <3>1, <3>2, <3>3, <3>4 DEF VoiceTypeOK
  <2>14. MeaningTypeOK' /\ UNCHANGED rawVars /\ UNCHANGED restVars /\ mode' = mode
         /\ UNCHANGED <<panic, hostDirty, host>>
    BY <1>3 DEF MidiInv, MeaningTypeOK, meaningVars
  <2>15. /\ ~first => queue' = queue
         /\ first /\ ~tap => queue' = Append(queue, [voice |-> note, on |-> TRUE])
         /\ first /\ tap => queue' = queue \o <<[voice |-> note, on |-> TRUE],
                                                [voice |-> note, on |-> FALSE]>>
    <3>1. ~first => queue' = queue
      <4>1. ~first => events = <<>>
        OBVIOUS
      <4> QED BY <1>1, <1>3, <4>1, ConcatEmptySeq
    <3>2. first /\ ~tap => queue' = Append(queue, [voice |-> note, on |-> TRUE])
      <4>1. first => [voice |-> note, on |-> TRUE] \in Event
        BY <2>2, ConstantTypes DEF Event
      <4>2. first /\ ~tap => events = <<[voice |-> note, on |-> TRUE]>>
        OBVIOUS
      <4> QED BY <1>1, <1>3, <4>1, <4>2, AppendIsConcat
    <3> QED BY <1>3, <3>1, <3>2
  <2>16. /\ queue' \in Seq(Event) /\ Len(queue') <= QueueSize
         /\ \A v \in Voices :
               /\ first /\ note = v /\ tap => OutcomeOf(queue', host, v) = FALSE
               /\ first /\ note = v /\ ~tap => OutcomeOf(queue', host, v) = TRUE
               /\ ~(first /\ note = v) => OutcomeOf(queue', host, v) = OutcomeOf(queue, host, v)
    <3>1. CASE ~first
      BY <1>1, <2>15, <3>1
    <3>2. CASE first /\ ~tap
      <4> DEFINE e == [voice |-> note, on |-> TRUE]
      <4>1. e \in Event /\ e.voice = note /\ e.on = TRUE
        BY <2>2, <3>2, ConstantTypes DEF Event
      <4>2. queue' = Append(queue, e) /\ Len(events) = 1
        BY <2>15, <3>2
      <4> HIDE DEF e, events
      <4>3. Len(queue) + 1 <= QueueSize
        BY <1>1, <1>3, <4>2, LenProperties, ConstantTypes DEF Full
      <4>4. queue' \in Seq(Event) /\ Len(queue') <= QueueSize
        BY <1>1, <4>1, <4>2, <4>3, AppendProperties
      <4>5. \A v : /\ note = v => OutcomeOf(queue', host, v) = e.on
                   /\ note # v => OutcomeOf(queue', host, v) = OutcomeOf(queue, host, v)
        BY <1>1, <4>1, <4>2, OutcomeAppended
      <4>6. \A v : note = v => OutcomeOf(queue', host, v) = TRUE
        BY <4>1, <4>5
      <4> QED BY <3>2, <4>4, <4>5, <4>6
    <3>3. CASE first /\ tap
      <4> DEFINE b == [voice |-> note, on |-> TRUE]
                 e == [voice |-> note, on |-> FALSE]
                 once == Append(queue, b)
      <4>1. b \in Event /\ b.voice = note /\ e \in Event /\ e.voice = note /\ e.on = FALSE
        BY <2>2, <3>3, ConstantTypes DEF Event
      <4>2. queue' = queue \o <<b, e>> /\ Len(events) = 2
        BY <2>15, <3>3
      <4> HIDE DEF b, e, events
      <4>3. Len(queue) + 2 <= QueueSize /\ Len(queue) \in Nat
        BY <1>1, <1>3, <4>2, LenProperties, ConstantTypes DEF Full
      <4>4. queue' = Append(once, e)
        BY <1>1, <4>1, <4>2, TwoAppends
      <4>5. once \in Seq(Event) /\ Len(once) = Len(queue) + 1
        BY <1>1, <4>1, AppendProperties
      <4>6. \A v : note # v => OutcomeOf(once, host, v) = OutcomeOf(queue, host, v)
        BY <1>1, <4>1, OutcomeAppended
      <4> HIDE DEF once
      <4>7. queue' \in Seq(Event) /\ Len(queue') <= QueueSize
        BY <4>1, <4>3, <4>4, <4>5, AppendProperties
      <4>8. \A v : /\ note = v => OutcomeOf(queue', host, v) = e.on
                   /\ note # v => OutcomeOf(queue', host, v) = OutcomeOf(once, host, v)
        BY <4>1, <4>4, <4>5, OutcomeAppended
      <4>9. \A v : /\ note = v => OutcomeOf(queue', host, v) = FALSE
                   /\ note # v => OutcomeOf(queue', host, v) = OutcomeOf(queue, host, v)
        BY <4>1, <4>6, <4>8
      <4> QED BY <3>3, <4>7, <4>9
    <3> QED BY <3>1, <3>2, <3>3
  <2>17. ASSUME NEW v \in Voices, OutcomeOf(queue, host, v) = Wanted(v)
         PROVE  OutcomeOf(queue', host, v) = Wanted(v)'
    <3>1. CASE v = Pedal
      <4>1. Wanted(v)' = Wanted(v)
        BY <1>3, <3>1 DEF Wanted
      <4>2. first => note # v /\ note \in Notes
        BY <2>2, <3>1, UnmappedIsNoNote
      <4>3. OutcomeOf(queue', host, v) = OutcomeOf(queue, host, v)
        BY <2>16, <4>2
      <4> QED BY <2>17, <4>1, <4>3
    <3>2. CASE v # Pedal /\ v # note
      <4>1. v \in Notes /\ v # Unmapped
        BY <3>2, ConstantTypes, UnmappedIsNoNote
      <4>2. \A k \in Keys : active'[k] = v <=> active[k] = v
        BY <2>1, <2>5, <2>6, <3>2, <4>1
      <4>3. Wanted(v)' = Wanted(v)
        BY <3>2, <4>2 DEF Wanted
      <4>4. OutcomeOf(queue', host, v) = OutcomeOf(queue, host, v)
        BY <2>16, <3>2
      <4> QED BY <2>17, <4>3, <4>4
    <3>3. CASE v # Pedal /\ v = note
      <4>1. note \in Notes /\ note # Unmapped
        BY <3>3, ConstantTypes, UnmappedIsNoNote
      <4>2. Wanted(v) <=> \E k \in Keys : active[k] = note
        BY <3>3 DEF Wanted
      <4>3. Wanted(v)' <=> \E k \in Keys : active'[k] = note
        BY <3>3 DEF Wanted
      <4>4. Wanted(v) \in BOOLEAN /\ Wanted(v)' \in BOOLEAN
        BY <3>3 DEF Wanted
      <4>5. refs[note] = 0 <=> ~Wanted(v)
        BY <1>1, <4>1, <4>2, SomebodySounds DEF RefsCount
      <4>6. ~tap => Wanted(v)' = TRUE
        BY <2>1, <2>6, <4>1, <4>3, <4>4
      <4>7. tap => Wanted(v)' = Wanted(v)
        BY <2>6, <4>2, <4>3, <4>4
      <4>8. CASE ~first
        BY <2>16, <2>17, <4>1, <4>4, <4>5, <4>6, <4>7, <4>8
      <4>9. CASE first
        <5>1. /\ tap => OutcomeOf(queue', host, v) = FALSE
              /\ ~tap => OutcomeOf(queue', host, v) = TRUE
          BY <2>16, <3>3, <4>9
        <5>2. Wanted(v) = FALSE
          BY <4>4, <4>5, <4>9
        <5> QED BY <4>6, <4>7, <5>1, <5>2
      <4> QED BY <4>8, <4>9
    <3> QED BY <3>1, <3>2, <3>3
  <2> QED BY <1>1, <2>7, <2>8, <2>9, <2>12, <2>13, <2>14, <2>16, <2>17, WalkKeepsInv
<1> QED BY <1>2, <1>3 DEF KeyFire

LEMMA KeyStrikeKeepsInv ==
    ASSUME MidiInv, KeyStrike
    PROVE  MidiInv' /\ Advances
<1> DEFINE strikes == ~FnHeld /\ key \in down \ previous /\ NoteEnabled(key)
           free == SlotIds \ Buffered(key)
           s == Min(free)
<1>1. /\ phase = "strike" /\ ~Idle
      /\ VoiceTypeOK /\ WalkTypeOK /\ RefsCount /\ OneStrike /\ WorkCovers /\ WalkPosition
      /\ queue \in Seq(Event) /\ Len(queue) <= QueueSize
  BY DEF KeyStrike, Idle, MidiInv, OutTypeOK
<1>2. CASE Overflow
  BY <1>2, OverflowKeepsInv
<1>3. ASSUME ~(strikes /\ free = {}),
             \/ /\ strikes
                /\ pend' = [pend EXCEPT ![key][s] = SoundingNote(key)]
                /\ released' = [released EXCEPT ![key] = @ \ {s}]
                /\ current' = [current EXCEPT ![key] = s]
                /\ noteWork' = noteWork
             \/ /\ ~strikes
                /\ noteWork' = IF Settled(key) THEN noteWork \ {key} ELSE noteWork
                /\ UNCHANGED <<pend, released, current>>,
             NextKey(key, noteWork),
             UNCHANGED <<active, refs, sustain, wasArmed, outVars, rawVars, meaningVars, restVars>>
      PROVE  MidiInv' /\ Advances
  <2>1. /\ active \in [Keys -> Notes \cup {Unmapped}]
        /\ pend \in [Keys -> [SlotIds -> Notes \cup {Unmapped}]]
        /\ current \in [Keys -> SlotIds \cup {NoSlot}]
        /\ released \in [Keys -> SUBSET SlotIds]
        /\ noteWork \in SUBSET Keys /\ key \in Keys /\ key \in Nat
        /\ key \in noteWork
    BY <1>1 DEF VoiceTypeOK, WalkTypeOK, WalkPosition, Keys
  <2>2. /\ active' = active /\ refs' = refs /\ sustain' = sustain /\ wasArmed' = wasArmed
        /\ queue' = queue /\ UNCHANGED <<panic, hostDirty, host>> /\ down' = down
        /\ UNCHANGED rawVars /\ UNCHANGED restVars /\ mode' = mode /\ MeaningTypeOK'
    BY <1>3 DEF outVars, rawVars, edgeVars, meaningVars, MidiInv, MeaningTypeOK
  <2>3. RefsCount'
    BY <1>1, <2>2 DEF RefsCount
  (* What becomes of the strikes that each key has buffered.               *)
  <2>4. /\ WorkCovers' /\ OneStrike' /\ noteWork' \in SUBSET Keys
        /\ \A k \in Keys \ {key} : Unowned(k) => Unowned(k)'
        /\ \A k \in Keys : k = key /\ k \notin down => Unowned(k)'
        /\ pend' \in [Keys -> [SlotIds -> Notes \cup {Unmapped}]]
        /\ current' \in [Keys -> SlotIds \cup {NoSlot}]
        /\ released' \in [Keys -> SUBSET SlotIds]
    <3>1. CASE /\ strikes
               /\ pend' = [pend EXCEPT ![key][s] = SoundingNote(key)]
               /\ released' = [released EXCEPT ![key] = @ \ {s}]
               /\ current' = [current EXCEPT ![key] = s]
               /\ noteWork' = noteWork
      <4>1. s \in SlotIds /\ s \notin Buffered(key)
        <5>1. free \in SUBSET Nat /\ free # {}
          BY <1>3, <3>1 DEF SlotIds
        <5> QED BY <5>1, LeastMember
      <4> HIDE DEF s
      <4>2. SoundingNote(key) \in Notes /\ SoundingNote(key) # Unmapped /\ key \in down
        BY <3>1, UnmappedIsNoNote DEF NoteEnabled, SoundingNote
      <4>3. active[key] = Unmapped /\ Buffered(key) \subseteq released[key]
        BY <1>1, <3>1 DEF WalkPosition, Unowned
      <4>4. /\ \A k \in Keys \ {key} : pend'[k] = pend[k] /\ released'[k] = released[k]
                                      /\ current'[k] = current[k]
            /\ released'[key] = released[key] \ {s} /\ current'[key] = s
        BY <2>1, <3>1
      <4>5. pend' = [pend EXCEPT ![key] = [pend[key] EXCEPT ![s] = SoundingNote(key)]]
        BY <2>1, <3>1
      <4>6. [pend[key] EXCEPT ![s] = SoundingNote(key)] \in [SlotIds -> Notes \cup {Unmapped}]
        BY <2>1, <4>1, <4>2
      <4>7. \A t \in SlotIds : pend'[key][t] = IF t = s THEN SoundingNote(key) ELSE pend[key][t]
        BY <2>1, <4>1, <4>5
      <4>8. \A k \in Keys : Buffered(k)' = IF k = key THEN Buffered(k) \cup {s} ELSE Buffered(k)
        <5>1. ASSUME NEW k \in Keys, k # key PROVE Buffered(k)' = Buffered(k)
          BY <4>4, <5>1 DEF Buffered
        <5>2. ASSUME NEW k \in Keys, k = key PROVE Buffered(k)' = Buffered(k) \cup {s}
          BY <4>1, <4>2, <4>7, <5>2 DEF Buffered
        <5> QED BY <5>1, <5>2
      <4>9. OneStrike'
        <5> SUFFICES ASSUME NEW k \in Keys, NEW t \in Buffered(k)' \ released'[k]
                     PROVE  t = current'[k] /\ active'[k] = Unmapped
          BY DEF OneStrike
        <5>1. CASE k # key
          BY <1>1, <2>2, <4>4, <4>8, <5>1 DEF OneStrike
        <5>2. CASE k = key
          BY <2>2, <4>3, <4>4, <4>8, <5>2
        <5> QED BY <5>1, <5>2
      <4>10. WorkCovers'
        <5> SUFFICES ASSUME NEW k \in Keys, Buffered(k)' # {} \/ active'[k] # Unmapped
                     PROVE  k \in noteWork'
          BY DEF WorkCovers
        <5>1. k # key => Buffered(k) # {} \/ active[k] # Unmapped
          BY <2>2, <4>8
        <5> QED BY <1>1, <2>1, <3>1, <5>1 DEF WorkCovers
      <4>11. \A k \in Keys \ {key} : Unowned(k) => Unowned(k)'
        BY <2>2, <4>4, <4>8 DEF Unowned
      <4>12. /\ pend' \in [Keys -> [SlotIds -> Notes \cup {Unmapped}]]
             /\ current' \in [Keys -> SlotIds \cup {NoSlot}]
             /\ released' \in [Keys -> SUBSET SlotIds]
        <5>1. pend' \in [Keys -> [SlotIds -> Notes \cup {Unmapped}]]
          BY <2>1, <4>5, <4>6
        <5> QED BY <2>1, <3>1, <4>1, <5>1
      <4> QED BY <2>1, <3>1, <4>2, <4>9, <4>10, <4>11, <4>12
    <3>2. CASE /\ ~strikes
               /\ noteWork' = IF Settled(key) THEN noteWork \ {key} ELSE noteWork
               /\ UNCHANGED <<pend, released, current>>
      <4>1. \A k \in Keys : Buffered(k)' = Buffered(k)
        BY <3>2 DEF Buffered
      <4>2. OneStrike'
        BY <1>1, <2>2, <3>2, <4>1 DEF OneStrike
      <4>3. WorkCovers'
        BY <1>1, <2>2, <3>2, <4>1 DEF WorkCovers, Settled
      <4>4. \A k \in Keys : Unowned(k)' <=> Unowned(k)
        BY <2>2, <3>2, <4>1 DEF Unowned
      <4>5. key \notin down => Unowned(key)
        BY <1>1 DEF WalkPosition
      <4> QED BY <2>1, <3>2, <4>2, <4>3, <4>4, <4>5
    <3> QED BY <1>3, <3>1, <3>2
  <2>5. /\ \A j \in Keys : j <= key /\ j \notin down => Unowned(j)'
        /\ \A j \in Keys : j > key /\ j \notin previous => Unowned(j)'
    <3>1. \A j \in Keys : /\ j <= key => j = key \/ (j # key /\ j < key)
                          /\ j > key => j # key
      BY <2>1 DEF Keys
    <3>2. /\ \A j \in Keys : j < key /\ j \notin down => Unowned(j)
          /\ \A j \in Keys : j > key /\ j \notin previous => Unowned(j)
      BY <1>1 DEF WalkPosition
    <3> QED BY <2>4, <3>1, <3>2
  <2>6. WalkTypeOK' /\ WalkPosition' /\ HistoryCurrent' /\ previous' \in SUBSET Keys
    <3>1. noteWork' = noteWork \/ noteWork' = noteWork \ {key}
      BY <1>3
    <3>2. {j \in noteWork' : j > key} = {j \in noteWork : j > key}
      BY <2>1, <3>1
    <3>3. NextKey(key, noteWork')
      BY <1>3, <3>2 DEF NextKey
    <3> QED BY <2>1, <2>2, <2>4, <2>5, <3>3, NextKeyPosition
  <2>7. VoiceTypeOK'
    BY <1>1, <2>2, <2>4, <2>6 DEF VoiceTypeOK
  <2>8. \A v \in Voices : OutcomeOf(queue, host, v) = Wanted(v) =>
                          OutcomeOf(queue', host, v) = Wanted(v)'
    <3>1. \A v : Wanted(v)' = Wanted(v)
      BY <2>2 DEF Wanted
    <3> QED BY <2>2, <3>1
  <2> QED BY <1>1, <2>2, <2>3, <2>4, <2>6, <2>7, <2>8, WalkKeepsInv
<1> QED BY <1>2, <1>3 DEF KeyStrike

-----------------------------------------------------------------------------
LEMMA NextKeepsMidiInv ==
    ASSUME MidiInv, [MidiNext]_vars
    PROVE  MidiInv' /\ [Advances]_vars
<1>1. CASE UNCHANGED vars
  <2>1. UNCHANGED rawVars /\ UNCHANGED midiVars
    BY <1>1 DEF vars
  <2>2. /\ UNCHANGED <<scenario, mode, mapping, octave, lowerMuted, janko, scale, applied>>
        /\ UNCHANGED <<active, pend, current, released, previous, noteWork, refs, sustain, wasArmed>>
        /\ UNCHANGED <<queue, panic, hostDirty, host, resetPending, phase, key, slot>>
        /\ UNCHANGED <<armed, down>>
    BY <2>1 DEF midiVars, meaningVars, voiceVars, outVars, walkVars, rawVars, edgeVars
  <2>3. RawInv'
    BY <2>1 DEF MidiInv, RawInv, RawTypeOK, ThresholdsOrdered, SchmittSettled, NothingLeft,
         rawVars, configVars, edgeVars, fitVars
  <2>4. scenario' \in Scenarios /\ MeaningTypeOK' /\ WalkTypeOK' /\ OutTypeOK'
    BY <2>2 DEF MidiInv, MeaningTypeOK, WalkTypeOK, OutTypeOK
  <2>5. VoiceTypeOK'
    BY <2>2 DEF MidiInv, VoiceTypeOK
  <2>6. RefsCount' /\ OneStrike' /\ WorkCovers'
    BY <2>2 DEF MidiInv, RefsCount, OneStrike, WorkCovers, Buffered
  <2>7. WalkPosition' /\ ModeRules' /\ HistoryCurrent' /\ (resetPending => Resets)'
    BY <2>2 DEF MidiInv, WalkPosition, ModeRules, HistoryCurrent, Idle, Unowned, Buffered,
                Resets, Commands
  <2>8. CleanupCovers' /\ CleanupIsFinal'
    BY <2>2 DEF MidiInv, Resets, Commands, CleanupCovers, CleanupIsFinal
  <2>9. \A v : Outcome(v)' = Outcome(v) /\ Wanted(v)' = Wanted(v)
    BY <2>2 DEF Outcome, Wanted
  <2>10. HostFollowsKeys'
    BY <2>2, <2>9 DEF MidiInv, HostFollowsKeys, Resets, Commands
  <2> QED BY <1>1, <2>3, <2>4, <2>5, <2>6, <2>7, <2>8, <2>10 DEF MidiInv
<1>2. ASSUME NEW in \in Played, NEW ok \in BOOLEAN,
             FrameBegin(in, ok) \/ FrameAppliesReset(in, ok)
      PROVE  MidiInv' /\ Advances
  <2>1. in \in Readbacks
    BY PlayedReadbacks DEF MidiInv
  <2> QED BY <1>2, <2>1, FrameBeginKeepsInv, FrameAppliesResetKeepsInv
<1>3. ASSUME NEW in \in Played, FrameReleasesInput(in) PROVE MidiInv' /\ Advances
  <2>1. in \in Readbacks
    BY PlayedReadbacks DEF MidiInv
  <2> QED BY <1>3, <2>1, FrameReleasesInputKeepsInv
<1>4. CASE Walk
  BY <1>4, ControlsKeepsInv, KeyReleaseKeepsInv, KeyFireKeepsInv, KeyStrikeKeepsInv DEF Walk
<1>5. ASSUME NEW accepted \in BOOLEAN, Service(accepted) PROVE MidiInv' /\ Advances
  BY <1>5, ServiceKeepsInv
<1>6. CASE Edit \/ ResetProfile \/ DisturbInput
  BY <1>6, EditKeepsInv, ResetProfileKeepsInv, DisturbKeepsInv
<1>7. ("raw" \notin Commands) \in BOOLEAN
  OBVIOUS
<1> QED BY <1>1, <1>2, <1>3, <1>4, <1>5, <1>6, <1>7 DEF MidiNext, Frame

(* MidiInv holds in every state of keyboard_midi.c.                        *)
THEOREM MidiInvariant == MidiSpec => []MidiInv
<1>1. MidiInv /\ [MidiNext]_vars => MidiInv'
  BY NextKeepsMidiInv
<1> QED BY <1>1, InitMidiInv, PTL DEF MidiSpec

(* Every variable of the performance keeps its type: the queue never       *)
(* exceeds MIDI_QUEUE, the octave its limit, a note its range.             *)
THEOREM MidiTypeCorrect == MidiSpec => []MidiTypeOK
<1>1. MidiInv => MidiTypeOK
  BY DEF MidiInv, RawInv, MidiTypeOK, MeaningTypeOK, VoiceTypeOK, OutTypeOK, WalkTypeOK, Event
<1> QED BY <1>1, MidiInvariant, PTL

(* Outside a cleanup, once the queue is delivered, the host holds exactly  *)
(* the notes some key sounds, and the pedal: note_on, note_off and the     *)
(* reference counts agree whatever the order of frames, overflows, edits,  *)
(* faults and packets.                                                     *)
THEOREM HostCorrect == MidiSpec => []HostFollowsKeys
<1>1. MidiInv => HostFollowsKeys
  BY DEF MidiInv
<1> QED BY <1>1, MidiInvariant, PTL

(* Whatever the host holds is ahead of the sweep or will start one.        *)
THEOREM CleanupCoversHost == MidiSpec => []CleanupCovers
<1>1. MidiInv => CleanupCovers
  BY DEF MidiInv
<1> QED BY <1>1, MidiInvariant, PTL

(* Nothing is queued, buffered or sounding while keyboard_midi_service     *)
(* sends the cleanup.                                                      *)
THEOREM CleanupFinality == MidiSpec => []CleanupIsFinal
<1>1. MidiInv => CleanupIsFinal
  BY DEF MidiInv
<1> QED BY <1>1, MidiInvariant, PTL

(* Between frames every voice has its key on the worklist, a held key owns *)
(* one strike at most and a key that is up owns none.                      *)
THEOREM VoicesCorrect == MidiSpec => []NoStrandedVoice
<1>1. ASSUME MidiInv PROVE NoStrandedVoice
  <2>1. VoiceTypeOK /\ OneStrike /\ WorkCovers /\ WalkPosition /\ HistoryCurrent
    BY <1>1 DEF MidiInv
  <2>2. ASSUME Idle, armed, wasArmed, NEW k \in Keys
        PROVE  LET held == Buffered(k) \ released[k]
               IN  IF k \in down
                   THEN Cardinality(held) + (IF active[k] = Unmapped THEN 0 ELSE 1) <= 1
                   ELSE held = {} /\ active[k] = Unmapped
    <3> DEFINE held == Buffered(k) \ released[k]
    <3>1. CASE k \in down
      <4>1. held = {} \/ (held = {current[k]} /\ active[k] = Unmapped)
        BY <2>1 DEF OneStrike
      <4>2. Cardinality({}) = 0 /\ Cardinality({current[k]}) = 1
        BY FS_EmptySet, FS_Singleton
      <4> HIDE DEF held
      <4>3. Cardinality(held) + (IF active[k] = Unmapped THEN 0 ELSE 1) <= 1
        BY <4>1, <4>2
      <4> QED BY <3>1, <4>3 DEF held
    <3>2. CASE k \notin down
      <4>1. previous = down
        BY <2>1, <2>2 DEF HistoryCurrent
      <4>2. Unowned(k)
        BY <2>1, <2>2, <3>2, <4>1 DEF WalkPosition, Idle
      <4> QED BY <3>2, <4>2 DEF Unowned
    <3> QED BY <3>1, <3>2
  <2> QED BY <2>1, <2>2 DEF NoStrandedVoice, WorkCovers
<1> QED BY <1>1, MidiInvariant, PTL

(* No fault, menu, edit or mode change restarts or drops a sweep.          *)
THEOREM SweepAdvances == MidiSpec => CleanupOnlyAdvances
<1>1. MidiInv /\ [MidiNext]_vars =>
        [panic > 0 /\ ~Resets => panic' \in {panic, panic - 1}]_vars
  BY NextKeepsMidiInv DEF Advances
<1> QED BY <1>1, MidiInvariant, PTL DEF MidiSpec, CleanupOnlyAdvances
=============================================================================
