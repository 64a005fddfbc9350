----------------------------- MODULE KeyboardRaw -----------------------------
(***************************************************************************)
(* keyboard_raw.c: raw readbacks become key edges (a Schmitt trigger per   *)
(* key) and velocity fits (a short window of readbacks after each strike). *)
(* A low reading is a deep press.  Output is armed only by a frame in      *)
(* which every key is released, and anything that disturbs the input       *)
(* disarms it.  Each frame visits only the keys its worklist names; the    *)
(* properties say that this shortcut never changes what a full scan of the *)
(* keyboard would have found.                                              *)
(***************************************************************************)
EXTENDS Integers, FiniteSets

CONSTANTS
    NumKeys,        \* keys, visited in sensor order 1..NumKeys
    Samples,        \* readbacks the acquisition can deliver, 0 = broken
    MaxSample,      \* largest valid readback (4096)
    BottomOut,      \* RAW_BOTTOM_OUT: a reading below it closes a fit
    Window,         \* RAW_VELOCITY_WINDOW: readbacks in a full fit (10)
    DefaultPress,   \* RAW_DEFAULT_PRESS
    DefaultRelease, \* RAW_DEFAULT_RELEASE
    Presses,        \* press thresholds a configuration command may carry
    Releases,       \* release thresholds a configuration command may carry
    RawCommands     \* which of the commands below an instance issues

Keys == 1 .. NumKeys

ASSUME RawConstants ==
    /\ NumKeys \in Nat \ {0}
    /\ Samples \subseteq Nat
    /\ MaxSample \in Nat \ {0}
    /\ BottomOut \in Nat \ {0}
    /\ Window \in Nat /\ Window >= 2
    /\ DefaultPress \in 1 .. MaxSample /\ DefaultRelease \in 1 .. MaxSample
    /\ DefaultPress < DefaultRelease
    /\ DefaultRelease < MaxSample
    /\ Presses \subseteq Nat /\ Releases \subseteq Nat
    /\ RawCommands \subseteq {"enable", "set", "all", "pressAll", "map", "observe"}

VARIABLES
    enabled,      \* keyboard output is enabled
    observed,     \* a menu or the board's control surface owns the input
    press,        \* press[k]: the key goes down below this reading
    release,      \* release[k]: the key is released above this reading
    raw,          \* the last readback of each key
    armed,        \* edges may produce output
    valid,        \* the last frame was usable
    down,         \* keys the Schmitt trigger holds down
    changed,      \* keys whose edge the last frame reported
    ready,        \* keys whose release was seen since their last strike
    pending,      \* keys with an open velocity fit
    count,        \* count[k]: readbacks in k's open fit
    fitted,       \* keys holding a completed fit (velocity.valid)
    velocityWork, \* the worklist: keys the next frame must visit
    neutralIdle   \* the last frame left nothing to visit

configVars == <<enabled, press, release>>
edgeVars == <<armed, valid, down, changed, neutralIdle>>
fitVars == <<ready, pending, count, fitted, velocityWork>>
rawVars == <<configVars, observed, raw, edgeVars, fitVars>>

RawTypeOK ==
    /\ enabled \in BOOLEAN
    /\ observed \in BOOLEAN
    /\ press \in [Keys -> Nat]
    /\ release \in [Keys -> Nat]
    /\ raw \in [Keys -> Samples \cup {0}]
    /\ armed \in BOOLEAN
    /\ valid \in BOOLEAN
    /\ down \in SUBSET Keys
    /\ changed \in SUBSET Keys
    /\ ready \in SUBSET Keys
    /\ pending \in SUBSET Keys
    /\ count \in [Keys -> 0 .. Window - 1]
    /\ fitted \in SUBSET Keys
    /\ velocityWork \in SUBSET Keys
    /\ neutralIdle \in BOOLEAN

RawInit ==
    /\ enabled = TRUE
    /\ observed = FALSE
    /\ press = [k \in Keys |-> DefaultPress]
    /\ release = [k \in Keys |-> DefaultRelease]
    /\ raw = [k \in Keys |-> 0]
    /\ armed = FALSE
    /\ valid = FALSE
    /\ neutralIdle = FALSE
    /\ down = {}
    /\ changed = {}
    /\ ready = {}
    /\ pending = {}
    /\ count = [k \in Keys |-> 0]
    /\ fitted = {}
    /\ velocityWork = Keys

-----------------------------------------------------------------------------
(* keyboard_raw_invalidate: disarm, forget every edge and fit.             *)

RawInvalidate ==
    /\ armed' = FALSE
    /\ valid' = FALSE
    /\ neutralIdle' = FALSE
    /\ changed' = {}
    /\ velocityWork' = Keys
    /\ down' = {}
    /\ ready' = {}
    /\ fitted' = {}
    /\ pending' = {}
    /\ count' = [k \in Keys |-> 0]

Usable(in, ok) == ok /\ \A k \in Keys : in[k] # 0 /\ in[k] <= MaxSample
IsReleased(in, k) == in[k] > release[k]
AllReleased(in) == \A k \in Keys : IsReleased(in, k)

(* The Schmitt trigger: what the reading makes of a key that was, or was   *)
(* not, down.                                                              *)
Pressed(in, k, wasDown) ==
    IF wasDown THEN in[k] <= release[k] ELSE in[k] < press[k]

(* The fit of k closes at bottom-out or when its window is full; it has    *)
(* measured something if it holds two readbacks, and the one that closes   *)
(* it counts when there would be no second one otherwise.                  *)
WindowFull(k) == count[k] + 1 >= Window

BugMeasured(in, k) == in[k] >= BottomOut \/ count[k] >= 2 \* mutant: drop it
Measured(in, k) == in[k] >= BottomOut \/ count[k] + 1 >= 2

(* A key stays on the worklist while it is held or its fit is open.        *)
BugKeepsWork(in, k, fitting) == ~IsReleased(in, k) \* mutant: forget the fit
KeepsWork(in, k, fitting) == ~IsReleased(in, k) \/ k \in fitting

(* One frame's pass over the worklist, starting from the set `held` of     *)
(* keys considered down.                                                   *)
Detect(in, held) ==
    LET work == {k \in Keys : ~IsReleased(in, k)} \cup velocityWork
        edges == {k \in work : Pressed(in, k, k \in held) # (k \in held)}
        visited == {k \in work : \/ k \in edges
                                 \/ k \in pending
                                 \/ IsReleased(in, k) /\ k \notin ready}
        rearmed == ready \cup {k \in visited : IsReleased(in, k)}
        struck == (edges \ held) \cap rearmed
        sampling == (visited \cap pending) \ struck
        closing == {k \in sampling : in[k] < BottomOut \/ WindowFull(k)}
        measured == {k \in closing : Measured(in, k)}
    IN  /\ ready' = rearmed \ struck
        /\ pending' = (pending \ closing) \cup struck
        /\ count' = [k \in Keys |-> IF k \in struck THEN 1
                                    ELSE IF k \in closing THEN 0
                                    ELSE IF k \in sampling THEN count[k] + 1
                                    ELSE count[k]]
        /\ fitted' = fitted \cup measured
        /\ velocityWork' = {k \in work : KeepsWork(in, k, pending')}
        /\ down' = (held \ edges) \cup (edges \ held)
        /\ changed' = edges
        /\ neutralIdle' = (AllReleased(in) /\ pending' \cap work = {})

(* Only a neutral frame arms.                                              *)
BugArms(in) == ~armed /\ enabled   \* mutant: arm under held keys
Arms(in) == ~armed /\ enabled /\ AllReleased(in)

(* The idle shortcut.                                                      *)
BugSkips(in) == AllReleased(in)     \* mutant: skip the frame of a release
Skips(in) == AllReleased(in) /\ neutralIdle

(* keyboard_raw_frame on a keyboard whose menu is managed by the           *)
(* application: arm on a neutral frame, skip what cannot have changed,     *)
(* otherwise run the detection.                                            *)
RawFrame(in, ok) ==
    /\ raw' = in
    /\ UNCHANGED configVars
    /\ \/ ~Usable(in, ok) /\ RawInvalidate
       \/ /\ Usable(in, ok)
          /\ valid' = TRUE
          /\ LET arming == Arms(in)
                 held == IF arming THEN {} ELSE down
             IN /\ armed' = (armed \/ arming)
                /\ \/ /\ enabled /\ ~armed /\ ~arming
                      /\ neutralIdle' = FALSE
                      /\ changed' = {}
                      /\ UNCHANGED <<down, fitVars>>
                   \/ /\ armed \/ arming \/ ~enabled
                      /\ Skips(in)
                      /\ down' = held
                      /\ changed' = {}
                      /\ UNCHANGED <<neutralIdle, fitVars>>
                   \/ /\ armed \/ arming \/ ~enabled
                      /\ ~Skips(in)
                      /\ Detect(in, held)

(* keyboard_raw_observe: the menu reads the samples; nothing is armed.     *)
RawObserve(in, ok) ==
    /\ raw' = in
    /\ UNCHANGED configVars
    /\ \/ ~Usable(in, ok) /\ RawInvalidate
       \/ /\ Usable(in, ok)
          /\ armed' = FALSE
          /\ valid' = TRUE
          /\ changed' = {}
          /\ neutralIdle' = AllReleased(in)
          /\ \/ /\ armed
                /\ velocityWork' = Keys /\ down' = {} /\ ready' = {}
                /\ fitted' = {} /\ pending' = {} /\ count' = [k \in Keys |-> 0]
             \/ /\ ~armed
                /\ UNCHANGED <<down, fitVars>>

-----------------------------------------------------------------------------
(* The configuration commands.  Every accepted edit invalidates.           *)

BugAccepts(p, r) == p > 0 /\ p <= r /\ r < MaxSample \* mutant: equal pair
Accepts(p, r) == p > 0 /\ p < r /\ r < MaxSample

RawEnable(b) ==
    /\ "enable" \in RawCommands
    /\ enabled' = b
    /\ RawInvalidate
    /\ UNCHANGED <<press, release, raw, observed>>

RawSet(k, p, r) ==
    /\ "set" \in RawCommands
    /\ Accepts(p, r)
    /\ press' = [press EXCEPT ![k] = p]
    /\ release' = [release EXCEPT ![k] = r]
    /\ RawInvalidate
    /\ UNCHANGED <<enabled, raw, observed>>

RawSetAll(p, r) ==
    /\ "all" \in RawCommands
    /\ Accepts(p, r)
    /\ press' = [k \in Keys |-> p]
    /\ release' = [k \in Keys |-> r]
    /\ RawInvalidate
    /\ UNCHANGED <<enabled, raw, observed>>

RawSetPressAll(p) ==
    /\ "pressAll" \in RawCommands
    /\ p > 0 /\ p < MaxSample
    /\ \A k \in Keys : release[k] >= 2 /\ release[k] < MaxSample
    /\ press' = [k \in Keys |-> IF p < release[k] THEN p ELSE release[k] - 1]
    /\ RawInvalidate
    /\ UNCHANGED <<enabled, release, raw, observed>>

(* keyboard_raw_map with a new usage: the key map itself is not modelled.  *)
RawMap ==
    /\ "map" \in RawCommands
    /\ RawInvalidate
    /\ UNCHANGED <<configVars, raw, observed>>

RawCommand ==
    \/ \E b \in BOOLEAN : RawEnable(b)
    \/ \E k \in Keys, p \in Presses, r \in Releases : RawSet(k, p, r)
    \/ \E p \in Presses, r \in Releases : RawSetAll(p, r)
    \/ \E p \in Presses : RawSetPressAll(p)
    \/ RawMap

(* keyboard_raw_init, as a profile reset repeats it.                       *)
RawReset ==
    /\ enabled' = TRUE
    /\ press' = [k \in Keys |-> DefaultPress]
    /\ release' = [k \in Keys |-> DefaultRelease]
    /\ raw' = [k \in Keys |-> 0]
    /\ RawInvalidate

-----------------------------------------------------------------------------
(* The frames as keyboard_app_frame routes them.  While a menu, calibration*)
(* or the board's control surface owns the input, frames are only observed;*)
(* the frame in which the ownership ends, and a fault that cancels it,     *)
(* invalidate.                                                             *)

PerformanceFrame(in, ok) ==
    /\ ~observed
    /\ RawFrame(in, ok)
    /\ UNCHANGED observed

TakeInput ==
    /\ "observe" \in RawCommands
    /\ ~observed
    /\ observed' = TRUE
    /\ \/ RawInvalidate
       \/ UNCHANGED <<edgeVars, fitVars>>
    /\ UNCHANGED <<configVars, raw>>

ObserveFrame(in, ok) ==
    /\ observed
    /\ RawObserve(in, ok)
    /\ UNCHANGED observed

ReleaseInput(in) ==
    /\ observed
    /\ observed' = FALSE
    /\ raw' = in
    /\ RawInvalidate
    /\ UNCHANGED configVars

(* No frame, a stale one or an unknown layout: keyboard_app_invalidate.    *)
InputFault ==
    /\ observed' \in {observed, FALSE}
    /\ RawInvalidate
    /\ UNCHANGED <<configVars, raw>>

Readbacks == [Keys -> Samples]

RawNext ==
    \/ \E in \in Readbacks, ok \in BOOLEAN : PerformanceFrame(in, ok)
    \/ \E in \in Readbacks, ok \in BOOLEAN : ObserveFrame(in, ok)
    \/ \E in \in Readbacks : ReleaseInput(in)
    \/ TakeInput
    \/ InputFault
    \/ RawCommand

RawSpec == RawInit /\ [][RawNext]_rawVars

-----------------------------------------------------------------------------
(* Skipping a key must be invisible: every key with something left to do   *)
(* (held, a fit open, or a release not yet recorded) is on the worklist,   *)
(* and the idle shortcut is set only when there is nothing left at all.    *)
WorklistCovers ==
    /\ down \cup pending \cup (Keys \ ready) \subseteq velocityWork
    /\ armed /\ neutralIdle => down = {} /\ pending = {} /\ ready = Keys

(* While output stays armed a frame finds exactly the keys a full scan     *)
(* through the Schmitt trigger would: no edge is lost to the worklist or   *)
(* to the idle shortcut, and none is invented.                             *)
FullScanEquivalent ==
    [][armed /\ armed' => down' = {k \in Keys : Pressed(raw', k, k \in down)}]_rawVars

(* A strike always opens a velocity fit of its own, because the release    *)
(* before it was always recorded; and a fit that closes while output stays *)
(* armed has measured something (an actuation point near the bottom-out    *)
(* floor must not leave a press without a velocity).                       *)
StrikesAreMeasured ==
    [][armed /\ armed' => /\ down' \ down \subseteq pending'
                         /\ pending \ pending' \subseteq fitted']_rawVars

(* Arming reports no edge: whatever was held across a fault, a menu or an  *)
(* edit must be released, and struck again, before it can act.             *)
ArmingIsSilent ==
    [][~armed /\ armed' => changed' = {} /\ down' = {}]_rawVars

(* No accepted edit can leave a key whose Schmitt pair is inverted or that *)
(* could never be seen released, which would keep the keyboard disarmed.   *)
ThresholdsOrdered ==
    \A k \in Keys : /\ 0 < press[k] /\ press[k] < release[k]
                    /\ release[k] < MaxSample

-----------------------------------------------------------------------------
(* The inductive invariant behind the properties above.  A keyboard that   *)
(* is armed, or that no menu observes, may skip a frame only when nothing  *)
(* at all is left; an armed keyboard has seen every key that is not down   *)
(* released since its last strike; an open fit holds a readback.           *)

NothingLeft == down = {} /\ pending = {} /\ ready = Keys

SchmittSettled ==
    armed => /\ \A k \in down : raw[k] <= release[k]
             /\ \A k \in Keys \ down : raw[k] >= press[k] /\ k \in ready

RawInv ==
    /\ RawTypeOK
    /\ ThresholdsOrdered
    /\ down \cup pending \cup (Keys \ ready) \subseteq velocityWork
    /\ neutralIdle /\ (armed \/ ~observed) => NothingLeft
    /\ SchmittSettled
    /\ \A k \in pending : count[k] >= 1

=============================================================================
