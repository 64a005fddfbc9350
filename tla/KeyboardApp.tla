----------------------------- MODULE KeyboardApp -----------------------------
(***************************************************************************)
(* The application: keyboard_app.c, keyboard_calibration.c and             *)
(* keyboard_command.c over the menu and the engine.  A board's loop gives  *)
(* it a scan frame when there is one and then calls its service, which     *)
(* makes the report; host commands run between two turns of the loop.      *)
(*                                                                         *)
(* A key is released or held (KeyboardRaw has the band between); MIDI      *)
(* notes are KeyboardMidi's, the journal is ProfileJournal's: here a save  *)
(* or an erase is refused, put off, done, or breaks half way.  Timers are  *)
(* choices: what has waited may be due in any frame.  A calibration that   *)
(* is over is "idle" however it ended: that only shows in the lights.  The *)
(* delivery of the report is M1Link's.                                     *)
(***************************************************************************)
EXTENDS KeyboardMenu

CONSTANTS Keyboards, \* the keyboards explored: sets of keys, each with Fn
          MaxHeld    \* bound: keys held in one frame

ASSUME KeyboardsAssumption ==
    \A keys \in Keyboards : keys \subseteq Names /\ "fn" \in keys
ASSUME MaxHeldAssumption == MaxHeld \in Nat \ {0}

VARIABLES keys,  \* the keys of this keyboard
          pc,    \* "frame" or "service": the turn of the loop
          held,  \* the keys held in the latest frame
          s,     \* keyboard_app_t with its engine, menu and calibration
          flash, \* the saved bounds: "factory" when there are none
          own,   \* ghost: keys held while the application owned the input
          since  \* ghost: keys held in every frame since a confirmation opened

vars == <<keys, pc, held, s, flash, own, since>>

-----------------------------------------------------------------------------
(* keyboard_calibration.c                                                  *)
Active(t) == t.cal \in {"release", "settle", "collect", "save"}

Aborted(t) == [t EXCEPT !.cal = IF Active(t) THEN "idle" ELSE @, !.done = {}, !.holds = {}]

BugMayTimeOut(t) == Active(t) \* mutant: a put-off save times out
MayTimeOut(t) == Active(t) /\ t.cal # "save"

Ticked(t, valid) ==
    IF valid THEN {t} \cup (IF MayTimeOut(t) THEN {Aborted(t)} ELSE {})
    ELSE {Aborted(t)}

(* Each key has a hold of its own; a key collected may stay held.          *)
Collected(t, now, full) ==
    LET done == t.done \cup full
    IN  [t EXCEPT !.done = done, !.holds = now \ done,
                  !.cal = IF done = keys THEN "save" ELSE @]

Measured(t, now) ==
    CASE t.cal \in {"release", "settle"} /\ now # {} -> {[t EXCEPT !.cal = "release"]}
      [] t.cal = "release" /\ now = {} -> {[t EXCEPT !.cal = "settle"]}
      [] t.cal = "settle" /\ now = {} -> {t, [t EXCEPT !.cal = "collect"], Aborted(t)}
      [] t.cal = "collect" -> {Collected(t, now, full) : full \in SUBSET (t.holds \cap now)}
      [] OTHER -> {t}

CalibrationFrame(t, now) == UNION {Measured(u, now) : u \in Ticked(t, t.frameValid)}

-----------------------------------------------------------------------------
(* keyboard_app_init, keyboard_app_invalidate, _calibrate, _reset_profile  *)
Fresh ==
    [armed |-> FALSE, valid |-> FALSE, enabled |-> TRUE, down |-> {}, pressed |-> {},
     fn |-> FALSE, out |-> {},
     mode |-> "normal", edit |-> 0, dirty |-> FALSE, rapid |-> FALSE, revised |-> FALSE,
     saved |-> [actuation |-> DefaultLevel, rapid |-> DefaultLevel],
     pending |-> "none", chosenKey |-> "none", bright |-> FALSE, confirm |-> FALSE,
     ready |-> FALSE, page |-> "none", choice |-> "none", previous |-> {}, moved |-> FALSE,
     midi |-> FALSE, cal |-> "idle", done |-> {}, holds |-> {},
     frameValid |-> FALSE, loaded |-> FALSE, resetPending |-> FALSE, fault |-> FALSE,
     bounds |-> "factory"]

BugDefaults(t) == \* mutant: the bounds of the sensors are not reset
    [Fresh EXCEPT !.fault = t.fault, !.bounds = t.bounds]
Defaults(t) == \* the neutral frame of a reset: all but the store
    [Fresh EXCEPT !.fault = t.fault]

AppInvalidated(t) ==
    [Aborted(MenuCancelled(Invalidated(t))) EXCEPT !.frameValid = FALSE]

MayCalibrate(t) == t.frameValid /\ ~t.midi /\ t.mode = "normal" /\ ~Active(t)
Calibrating(t) ==
    [Invalidated(t) EXCEPT !.cal = "release", !.done = {}, !.holds = {}]

(* What a board may answer, with the flash it leaves: an erase is done,    *)
(* refused, or breaks before or after the flash changed; a save can also   *)
(* be put off.                                                             *)
Outcome(t, f) == [state |-> t, flash |-> f]

ResetProfile(t, f) ==
    {Outcome([AppInvalidated(t) EXCEPT !.resetPending = TRUE, !.fault = FALSE], "factory"),
     Outcome(t, f), Outcome([t EXCEPT !.fault = TRUE], f), Outcome([t EXCEPT !.fault = TRUE], "factory")}

SaveOffered(t, f) ==
    LET failed == Aborted(t)
        broken == [failed EXCEPT !.fault = TRUE]
        completed == [t EXCEPT !.cal = "idle", !.done = {}, !.bounds = "custom"]
    IN  {Outcome(t, f)} \cup
        (IF t.cal # "save" THEN {}
         ELSE {Outcome(failed, f)} \cup
              (IF t.fault THEN {}
               ELSE {Outcome(broken, f), Outcome(broken, "custom"), Outcome(completed, "custom")}))

-----------------------------------------------------------------------------
(* keyboard_app_frame                                                      *)
Observing(t) == Active(t) \/ MenuObserving(t)

Looked(t, now, ok) == \* the samples, by the owner of the input
    LET u == [t EXCEPT !.revised = FALSE]
    IN  [(IF Observing(t) THEN Observed(u, ok) ELSE Scanned(u, now, ok, t.midi))
            EXCEPT !.frameValid = ok]

ResetApplied(t, now) == \* keyboard_app_frame's neutral frame
    IF t.resetPending /\ t.frameValid /\ now = {} THEN Defaults(t) ELSE t

Acted(m, f) == \* the menu's action
    CASE m.action = "mode" -> {Outcome([Invalidated(m.state) EXCEPT !.midi = ~@], f)}
      [] m.action = "calibration" /\ MayCalibrate(m.state) -> {Outcome(Calibrating(m.state), f)}
      [] m.action = "reset" -> ResetProfile(m.state, f)
      [] OTHER -> {Outcome(m.state, f)}

Loaded(t, f) == \* load_calibration, once, in the first valid frame
    IF ~t.loaded /\ t.frameValid
    THEN [t EXCEPT !.loaded = TRUE, !.bounds = IF f = "custom" THEN f ELSE @]
    ELSE t

(* Observation that ends in this frame disarms, and keeps what the menu    *)
(* committed while it ended.                                               *)
Handed(t) ==
    IF Observing(t) THEN t
    ELSE [Invalidated(t) EXCEPT !.mode = t.mode, !.edit = t.edit, !.dirty = t.dirty, !.fn = t.fn]

AppFrame(t, f, now, ok) ==
    LET seen == ResetApplied(Looked(t, now, ok), now)
        acted == Acted(MenuFrame(seen, now, t, Active(seen), seen.midi), f)
        collected == UNION {{Outcome(c, o.flash) : c \in CalibrationFrame(Loaded(o.state, o.flash), now)} :
                               o \in acted}
        saved == UNION {SaveOffered(o.state, o.flash) : o \in collected}
    IN  IF Observing(t) THEN {[o EXCEPT !.state = Handed(@)] : o \in saved} ELSE saved

-----------------------------------------------------------------------------
(* keyboard_app_service                                                    *)
Serviced(t, fresh) ==
    LET Ended(u) == IF Active(t) /\ ~Active(u) THEN Invalidated(u) ELSE u
        Stale(u) == [MenuCancelled(Invalidated(u)) EXCEPT !.frameValid = FALSE]
    IN  {IF fresh THEN Ended(u) ELSE Stale(u) : u \in Ticked(t, fresh /\ t.frameValid)}

Report(t) == IF t.armed /\ ~Active(t) /\ ~t.midi THEN t.out ELSE {}

-----------------------------------------------------------------------------
Init ==
    /\ keys \in Keyboards
    /\ pc = "frame"
    /\ held = {}
    /\ s = Fresh
    /\ flash \in {"factory", "custom"}
    /\ own = {}
    /\ since = {}

(* A turn with a frame; one without leaves the application alone.  Bound:  *)
(* the keys do not move in a bad frame, they may in the next.              *)
Hands == {h \in SUBSET keys : Cardinality(h) <= MaxHeld}

FrameWith(now, ok) ==
    /\ pc = "frame"
    /\ pc' = "service"
    /\ held' = now
    /\ \E o \in AppFrame(s, flash, now, ok) : s' = o.state /\ flash' = o.flash
    /\ own' = now \cap (IF Observing(s) \/ Observing(s') THEN now ELSE own)
    /\ since' = now \cap (IF ~s'.confirm THEN {} ELSE IF s.confirm THEN since ELSE now)
    /\ UNCHANGED <<keys>>
Frame == (\E now \in Hands : FrameWith(now, TRUE)) \/ FrameWith(held, FALSE)

NoFrame ==
    /\ pc = "frame"
    /\ pc' = "service"
    /\ UNCHANGED <<keys, held, s, flash, own, since>>

Service(fresh) ==
    /\ pc = "service"
    /\ pc' = "frame"
    /\ s' \in Serviced(s, fresh)
    /\ UNCHANGED <<keys, held, flash, own, since>>

(* Host commands and the board, between two turns.                         *)
Between(t) ==
    /\ pc = "frame"
    /\ s' = t
    /\ UNCHANGED <<keys, pc, held, flash, own, since>>

Enable == \* cfg enable
    \E on \in BOOLEAN : ~Active(s) /\ Between([Invalidated(s) EXCEPT !.enabled = on])
Edit == \* cfg set, all and key
    ~Active(s) /\ s.mode = "normal" /\ Between([Invalidated(s) EXCEPT !.moved = MenuObserving(s)])
Calibrate == MayCalibrate(s) /\ Between(Calibrating(s)) \* cfg calibrate
Cancel == Between(Invalidated(Aborted(s))) \* cfg calcancel
Invalidate == Between(AppInvalidated(s)) \* release_host, cancel_input

Clean == \* cfg clean
    /\ pc = "frame" /\ ~Active(s) /\ s.mode = "normal" /\ s.frameValid
    /\ \E o \in ResetProfile(s, flash) : s' = o.state /\ flash' = o.flash
    /\ UNCHANGED <<keys, pc, held, own, since>>

PowerCycle == \* a board starts again, and the host sees it go
    /\ s' = Fresh /\ pc' = "frame"
    /\ own' = {} /\ since' = {}
    /\ UNCHANGED <<keys, held, flash>>

Next ==
    \/ Frame
    \/ NoFrame
    \/ \E fresh \in BOOLEAN : Service(fresh)
    \/ Enable
    \/ Edit
    \/ Calibrate
    \/ Cancel
    \/ Invalidate
    \/ Clean
    \/ PowerCycle

Spec == Init /\ [][Next]_vars

-----------------------------------------------------------------------------
(* A key held while the menu, a page, a confirmation or a calibration      *)
(* owned the input never reaches the host's report before it was released, *)
(* however the ownership ended.                                            *)
OwnedKeysStaySilent == {o[1] : o \in Report(s)} \cap own = {}

(* Once they were loaded, the bounds in use are the ones the next boot will *)
(* load, unless a reset still waits for its neutral frame or the store     *)
(* failed.                                                                 *)
BoundsMatchFlash == s.loaded /\ ~s.resetPending /\ ~s.fault => s.bounds = flash

(* From the keys, a profile is only erased by a Y pressed after everything *)
(* was released since the question appeared, and not together with N.      *)
EraseNeedsFreshYes ==
    [][pc = "frame" /\ pc' = "service" /\ flash = "custom" /\ flash' = "factory"
          => s.confirm /\ since = {} /\ "y" \in held' /\ "n" \notin held']_vars

(* Whatever puts a save off, and for however long, a finished calibration  *)
(* waits for it while the scan is good: the service does not drop it       *)
(* (calibration_tick exempts CAL_SAVE from the deadline).  It contradicts  *)
(* docs/DEVICE_CONFIG_STORAGE.md:196-197, by which "the shared five-second *)
(* inactivity deadline still applies" while busy gates defer a save; the   *)
(* other documents and the tests agree with the code.                      *)
CandidateOutlastsDeferral ==
    [][pc = "service" /\ s.cal = "save" /\ s'.cal # "save" => ~s.frameValid \/ ~s'.frameValid
                                                              \/ s' = Fresh]_vars

(* The report only names keys that are held, the menu's options aside, and *)
(* a shortcut only while Fn is, though it was resolved when it was pressed. *)
ReportFollowsHands ==
    \A o \in Report(s) : /\ o[1] \in held \cup Controls
                         /\ o[2] = "fn" => {o[1], "fn"} \subseteq held

(* docs/M1_TEST_CHECKLIST.md: "Every physical key types its label; no stuck *)
(* or missing key": once every key is released the report is empty.        *)
NothingStuck == held = {} => Report(s) = {}
=============================================================================
