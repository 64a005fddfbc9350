----------------------------- MODULE KeyboardMenu -----------------------------
(***************************************************************************)
(* keyboard_menu.c: Fn and one more key select an option; the selection    *)
(* takes effect when the chord is released.  A reset asks for a separate   *)
(* confirmation, and the MIDI settings open pages of their own.  While the *)
(* menu owns the input nothing is armed.                                   *)
(*                                                                         *)
(* `moved` says that raw->revision differs from pending_revision: the      *)
(* thresholds were edited behind the menu's back.                          *)
(***************************************************************************)
EXTENDS KeyboardEngine

OptionOf == [tab |-> "trigger", caps |-> "rapid", c |-> "calibration", enter |-> "mode",
             k |-> "light", r |-> "reset", e |-> "key", v |-> "velocity"]
KeyboardOnly == {"rapid", "calibration"}
MidiOnly == {"key", "velocity"}
PageOf == [trigger |-> "press", velocity |-> "velocity", key |-> "music"] \* in MIDI mode

MenuCancelled(s) ==
    [s EXCEPT !.pending = "none", !.chosenKey = "none", !.bright = FALSE, !.confirm = FALSE,
              !.ready = FALSE, !.page = "none", !.choice = "none", !.moved = FALSE]
MenuObserving(s) == s.pending # "none" \/ s.bright \/ s.confirm \/ s.page # "none"

Suppressed(s) == IF s.armed THEN Invalidated(s) ELSE [s EXCEPT !.valid = FALSE]

Does(s, action) == [state |-> s, action |-> action]
Nothing(s) == Does(s, "none")
Given(s) == Nothing(Invalidated(MenuCancelled(s)))

-----------------------------------------------------------------------------
(* keyboard_menu_thresholds: a committed trigger level becomes the raw     *)
(* thresholds; the editor stays as it is.                                  *)
Thresholds(s) ==
    [Invalidated(s) EXCEPT !.mode = s.mode, !.edit = s.edit, !.dirty = s.dirty,
                           !.moved = MenuObserving(s)]

(* A page accepts input once everything was released after it opened.      *)
PageFrame(s, held, midi) ==
    LET shown == Suppressed([s EXCEPT !.ready = @ \/ held = {}])
        digits == held \cap DOMAIN Digits
    IN  CASE ~midi \/ s.moved -> Given(s)
          [] midi /\ ~s.moved /\ ~s.ready -> Nothing(shown)
          [] midi /\ ~s.moved /\ s.ready /\ "esc" \in held -> Nothing(MenuCancelled(shown))
          [] midi /\ ~s.moved /\ s.ready /\ "esc" \notin held ->
                CASE s.page = "music" /\ s.choice # "none" ->
                        IF s.choice \in held THEN Nothing(shown)
                        ELSE Does(MenuCancelled(shown), "select")
                  [] s.page = "music" /\ s.choice = "none" ->
                        Nothing(IF Cardinality(held) > 1 THEN [shown EXCEPT !.ready = FALSE]
                                ELSE [shown EXCEPT !.choice = CHOOSE d \in digits \cup {"none"} :
                                                                 digits # {} => d # "none"])
                  [] OTHER -> IF Cardinality(held) = 1 /\ digits # {}
                              THEN Does(shown, s.page) ELSE Nothing(shown)

(* The confirmation of a reset: Y held before it opened cannot erase, and  *)
(* N, alone or with Y, cancels.                                            *)
BugConfirmed(s, held) == held \cap {"y", "n"} # {} \* mutant: no release is required first
Confirmed(s, held) == s.ready /\ held \cap {"y", "n"} # {}
ConfirmFrame(s, held) ==
    LET shown == Suppressed([s EXCEPT !.ready = @ \/ held = {}])
    IN  CASE s.moved -> Given(s)
          [] ~s.moved /\ Confirmed(s, held) ->
                Does(MenuCancelled(shown), IF "n" \in held THEN "none" ELSE "reset")
          [] OTHER -> Nothing(shown)

(* The chord was released: the option takes effect.                        *)
ChordDone(s, held, midi) ==
    LET action == s.pending
        calm == [Invalidated(MenuCancelled(s)) EXCEPT !.bright = "fn" \in held /\ action = "light"]
    IN  CASE action = "reset" -> Nothing([calm EXCEPT !.confirm = TRUE])
          [] action \in DOMAIN PageOf /\ midi -> Nothing([calm EXCEPT !.page = PageOf[action]])
          [] action = "trigger" /\ ~midi -> Does(Opened(calm, "actuation"), action)
          [] action = "rapid" -> Does(Opened(calm, "rapid"), action)
          [] OTHER -> Does(calm, action)
ChordFrame(s, held, midi) ==
    CASE s.moved -> Nothing(MenuCancelled(s))
      [] ~s.moved /\ {"fn", s.chosenKey} \subseteq held -> Nothing(s)
      [] OTHER -> ChordDone(s, held, midi)

(* A chord begins: Fn down in an armed frame, or between two taps of the   *)
(* brightness, and exactly one new option.                                 *)
ChordBegins(s, held, edges) ==
    LET open == [s EXCEPT !.bright = @ /\ "fn" \in held]
        key == CHOOSE k \in edges : TRUE
    IN  IF /\ (s.armed /\ "fn" \in s.down) \/ open.bright
           /\ Cardinality(edges) = 1
           /\ s.armed \/ OptionOf[key] = "light"
        THEN Nothing(Invalidated([open EXCEPT !.pending = OptionOf[key], !.chosenKey = key,
                                              !.moved = FALSE]))
        ELSE Nothing(open)

Offered(held, midi) ==
    {k \in held \cap DOMAIN OptionOf : OptionOf[k] \notin (IF midi THEN KeyboardOnly ELSE MidiOnly)}

(* keyboard_menu_frame.  `before` is the editor's state before the frame.  *)
MenuFrame(s0, held, before, calibrating, midi) ==
    LET s1 == IF before.mode = "actuation" /\ before.dirty /\ s0.revised THEN Thresholds(s0) ELSE s0
        now == Offered(held, midi)
        edges == now \ s1.previous
        s == [s1 EXCEPT !.previous = now]
    IN  CASE ~s.valid \/ ~s.enabled \/ calibrating \/ s.mode # "normal" -> Nothing(MenuCancelled(s))
          [] OTHER ->
             CASE s.page # "none" -> PageFrame(s, held, midi)
               [] s.confirm -> ConfirmFrame(s, held)
               [] s.bright /\ s.moved -> Nothing(MenuCancelled(s))
               [] s.pending # "none" -> ChordFrame(s, held, midi)
               [] OTHER -> ChordBegins(s, held, edges)
=============================================================================
