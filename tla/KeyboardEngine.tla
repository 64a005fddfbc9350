---------------------------- MODULE KeyboardEngine ----------------------------
(***************************************************************************)
(* keyboard_engine.c and keyboard_config.c: what the edges of one frame    *)
(* make of the host report and of the trigger and rapid-trigger editors.   *)
(* The operators transform a record `s`; KeyboardApp owns it.              *)
(*                                                                         *)
(* A key is named for what it is to the editors and the menu.  Usages are  *)
(* abstracted to the layer a key was resolved on, "base" or "fn".          *)
(***************************************************************************)
EXTENDS Integers, FiniteSets, FiniteSetsExt

Names == {"fn", "esc", "tab", "caps", "c", "enter", "k", "r", "y", "n", "e", "v", "one", "up", "a"}

Digits == [one |-> 1] \* keyboard_editor_digit
Steps == [up |-> 1]   \* keyboard_editor_step
DefaultLevel == 2     \* a level other than the digit's
MaxLevel == 10

(* keyboard_menu_control: options that Fn offers outside MIDI mode.        *)
Controls == {"tab", "caps", "c", "enter", "k", "r"}
Shortcuts == {"esc", "y", "n", "one"} \* keyboard_shortcut_usage

-----------------------------------------------------------------------------
(* keyboard_config.c.  `edit` is the level of the open editor.             *)
Commit(s) ==
    IF s.dirty
    THEN [s EXCEPT !.saved = [@ EXCEPT ![s.mode] = s.edit], !.dirty = FALSE, !.revised = TRUE]
    ELSE s

Opened(s, mode) == [s EXCEPT !.mode = mode, !.edit = s.saved[mode], !.dirty = FALSE]
Closed(s) == [s EXCEPT !.mode = "normal", !.edit = 0, !.dirty = FALSE]
Toggled(s, mode) ==
    LET t == Commit(s) IN IF s.mode = mode THEN Closed(t) ELSE Opened(t, mode)

(* Caps alone switches rapid trigger, saving its level without a commit.   *)
RapidSwitched(s) ==
    [s EXCEPT !.rapid = ~@, !.saved = [@ EXCEPT !["rapid"] = s.edit], !.revised = TRUE]

Stepped(s, k) ==
    LET level == s.edit + Steps[k]
    IN  [s EXCEPT !.edit = IF level \in 1 .. MaxLevel THEN level ELSE @, !.dirty = TRUE]

EditorPress(s, k, layered) ==
    CASE k \in DOMAIN Digits -> [s EXCEPT !.edit = Digits[k], !.dirty = TRUE]
      [] k = "esc" -> Closed(Commit(s))
      [] k = "tab" /\ layered -> Toggled(s, "actuation")
      [] k = "caps" /\ layered -> Toggled(s, "rapid")
      [] k = "caps" /\ ~layered /\ s.mode = "rapid" -> RapidSwitched(s)
      [] k \in DOMAIN Steps -> Stepped(s, k)
      [] OTHER -> s

-----------------------------------------------------------------------------
(* engine_event: a press is resolved once, on the layer of its own press,  *)
(* and Fn's release takes back what its layer resolved.                    *)
Resolved(k, layered) ==
    IF layered THEN {<<k, "fn">>} \cap (Shortcuts \X {"fn"}) ELSE {<<k, "base">>}

Down(s, k) ==
    LET layered == s.fn
        t == [s EXCEPT !.pressed = @ \cup {k}]
    IN  CASE k = "fn" -> [t EXCEPT !.fn = TRUE]
          [] k # "fn" /\ s.mode # "normal" -> EditorPress(t, k, layered)
          [] OTHER -> [t EXCEPT !.out = @ \cup Resolved(k, layered)]

BugUp(s, k) == \* mutant: Fn's release leaves its layer down
    [s EXCEPT !.pressed = @ \ {k}, !.fn = @ /\ k # "fn", !.out = {o \in @ : o[1] # k}]
Up(s, k) ==
    [s EXCEPT !.pressed = @ \ {k}, !.fn = @ /\ k # "fn",
              !.out = {o \in @ : o[1] # k /\ (k = "fn" => o[2] = "base")}]

Event(s, k, down) ==
    CASE (k \in s.pressed) = down -> s
      [] (k \in s.pressed) # down /\ down -> Down(s, k)
      [] OTHER -> Up(s, k)

-----------------------------------------------------------------------------
(* keyboard_raw_invalidate, keyboard_raw_observe and keyboard_raw_frame,   *)
(* as far as their output goes: KeyboardRaw models the edges themselves,   *)
(* here a key is simply released or pressed.                               *)
Invalidated(s) ==
    [Closed(s) EXCEPT !.armed = FALSE, !.valid = FALSE, !.down = {},
                      !.pressed = {}, !.fn = FALSE, !.out = {}]

(* The dispatch of a frame: Fn first, then the others; what the menu       *)
(* offers under Fn is not the engine's.                                    *)
Sent(k, s) ==
    IF s.mode = "normal" /\ s.fn /\ k \in Controls THEN s ELSE Event(s, k, k \in s.down)
Dispatched(s, edges) ==
    FoldSet(Sent, IF "fn" \in edges THEN Event(s, "fn", "fn" \in s.down) ELSE s, edges \ {"fn"})

BugArms(s, held) == ~s.armed /\ s.enabled \* mutant: armed under held keys
Arms(s, held) == ~s.armed /\ s.enabled /\ held = {}

Scanned(s, held, ok, midi) ==
    LET arms == Arms(s, held)
        t == IF arms
             THEN [s EXCEPT !.armed = TRUE, !.valid = TRUE, !.down = {}, !.pressed = {},
                            !.fn = FALSE, !.out = {}]
             ELSE [s EXCEPT !.valid = TRUE]
        edges == (held \ t.down) \cup (t.down \ held)
        moved == [t EXCEPT !.down = held]
    IN  CASE ~ok -> Invalidated(s)
          [] ok /\ ~t.armed -> t \* a disabled keyboard's edges are only shown
          [] ok /\ t.armed -> IF midi THEN moved ELSE Dispatched(moved, edges)

Observed(s, ok) ==
    LET t == IF s.armed THEN Invalidated(s) ELSE s
    IN  IF ok THEN [t EXCEPT !.valid = TRUE] ELSE Invalidated(t)
=============================================================================
