------------------------------- MODULE M1Power -------------------------------
(***************************************************************************)
(* The owner of the M1's power: m1_startup.c and m1_boot.c bring the board *)
(* up, m1_runtime_power.c puts it to sleep and wakes it, m1_source.c hands *)
(* it over when the cable comes or goes, m1_main.c contains a failure.     *)
(* Each step is one call of the main loop; what it calls in m1_hal.c,      *)
(* m1_lighting_hal.c, m1_usb_hal.c, m1_usb_power.c, m1_power_gpio.c,       *)
(* m1_sleep.c, m1_sleep_time.c and m1_live.c is part of the step, and      *)
(* every refusal of theirs is the owner's terminal failure.                *)
(*                                                                         *)
(* The radio scheduler is M1Wireless reduced to what power depends on: its *)
(* session, its sleep command and whether a transfer is on the wire.       *)
(***************************************************************************)
EXTENDS M1Scan

CONSTANT Radios     \* wireless transports: "bt", "rf"

VARIABLES
    cable,  \* PC13: external power
    peer,   \* the radio peer: "linked" with a host, "searching" or "silent"
    p,      \* m1_runtime_power.c, m1_power.c and, before "awake", m1_boot.c/m1_startup.c
    src,    \* m1_source.c
    live,   \* m1_live.c: power_state, transport, usb_abandoned, neutral output
    wl,     \* m1_wireless.c
    b       \* the peripherals and supplies

powerVars == <<hal, q, r, cable, peer, p, src, live, wl, b>>

Modes == {"usb"} \cup Radios
DefaultRadio == IF "bt" \in Radios THEN "bt" ELSE "rf"

-----------------------------------------------------------------------------
(* The radio scheduler and its bus.                                        *)
NoSession == [on |-> FALSE, mode |-> "usb", confirmed |-> FALSE, fresh |-> FALSE, link |-> FALSE,
              sleep |-> "none", done |-> FALSE, before |-> "none", flying |-> FALSE]
Session(m) == [NoSession EXCEPT !.on = TRUE, !.mode = m] \* begin_session, m1_wireless_select

(* m1_wireless_service: a transfer on the wire ends or not; a poll brings  *)
(* what the peer says, silence makes the last answer stale; then a sleep   *)
(* command goes out before anything else, and nothing after it.            *)
Heard(k) ==
    IF peer = "silent" THEN {k, [k EXCEPT !.fresh = FALSE, !.link = FALSE]}
    ELSE {[k EXCEPT !.confirmed = TRUE, !.fresh = TRUE, !.link = k.mode # "usb" /\ peer = "linked"]}
Landed(k) == IF k.flying THEN {[k EXCEPT !.flying = FALSE, !.done = TRUE]} ELSE Heard(k)
Started(k) ==
    IF k.sleep = "none" THEN {<<k, "ready">>, <<k, "busy">>}
    ELSE IF k.done THEN {<<k, "ready">>} ELSE {<<[k EXCEPT !.flying = TRUE], "busy">>}
Served(k, radio) ==
    IF ~k.on THEN {<<k, radio>>}
    ELSE IF radio = "busy" THEN {<<k, radio>>} \cup UNION {Started(n) : n \in Landed(k)}
    ELSE {<<k, radio>>} \cup Started(k)

SwitchReady(k, radio) == k.on /\ k.sleep = "none" /\ radio = "ready"
Selected(k, m) == k.on /\ k.sleep = "none" /\ k.mode = m /\ k.confirmed /\ k.fresh
SleepSent(k) == IF k.on /\ k.done THEN k.sleep ELSE "none"
MayAskSleep(k, radio, command) ==
    /\ k.on /\ radio = "ready"
    /\ k.sleep = "none" \/ (k.sleep = "retain" /\ k.done /\ command = "sleep")
    /\ command = "retain" => k.link
Asked(k, command) ==
    [k EXCEPT !.before = IF k.done THEN k.sleep ELSE "none", !.sleep = command, !.done = FALSE]
MayCancel(k) == k.on /\ k.sleep # "none" /\ ~k.done /\ ~k.flying
Cancelled(k) == [k EXCEPT !.sleep = k.before, !.done = k.before # "none", !.before = "none"]

-----------------------------------------------------------------------------
(* Supplies, lights, USB and pins.                                         *)
Lit(x) == [x EXCEPT !.led = TRUE, !.lights = "latch"]     \* m1_lighting_init
Dark(x) == [x EXCEPT !.lights = "stopped"]                \* m1_lighting_stop
LightServed(v) == IF v = "stopped" THEN v ELSE "ready"    \* "transfer" includes its latch
Unpowered(x) == [x EXCEPT !.sensor = FALSE]               \* rails_off
UsbStopped(x) == IF x.usb THEN [x EXCEPT !.usb = FALSE, !.reduced = FALSE] ELSE x
BugQuiesced(x) == x \* mutant: the bus keeps its pins
Quiesced(x) == [x EXCEPT !.radio = "off"]
Prepared(x) == [x EXCEPT !.prepared = TRUE]
Quiet(x) == x.lights # "transfer" /\ x.radio # "busy" /\ ~x.usb /\ hal \in {"off", "paused", "done"}
Dozes(x) == Quiet(x) /\ ~x.sensor /\ ~x.led \* m1_sleep_wait's own guards
BugHalStopped(h) == h \* mutant: the scan is left running
HalStopped(h) == "off"

(* PC13 is read again inside a call; the cable moves at most once in one.  *)
Reading(move, i) == IF i < move THEN cable ELSE ~cable
LastRead == 3
Moves == 1..(LastRead + 1)
MovedTo(move) == IF move <= LastRead THEN ~cable ELSE cable

-----------------------------------------------------------------------------
(* m1_live.c: suspend, drain, park, resume.  choice is the transport the   *)
(* user asks for; it is tried once the old host is drained.                *)
MaySuspend == live.state \in {"draining", "parked"} \/ (live.state = "awake" /\ ~live.tried)
Suspended(unplugged) ==
    [live EXCEPT !.state = IF @ = "awake" THEN "draining" ELSE @, !.choice = "none",
                 !.abandoned = @ \/ (unplugged /\ live.mode = "usb")]
MayPark(k, radio) ==
    /\ live.state = "draining" /\ b.lights = "ready"
    /\ IF live.mode = "usb" THEN live.abandoned ELSE SwitchReady(k, radio)
Parked == [live EXCEPT !.state = "parked"]
MayResume(k, x, m, change) ==
    /\ live.state = "parked" /\ x.lights # "stopped"
    /\ m = live.mode \/ (change /\ live.abandoned /\ live.mode = "usb" /\ m # "usb")
    /\ IF m = "usb" THEN change ELSE Selected(k, m)
Resumed(m) == [live EXCEPT !.state = "awake", !.mode = m, !.abandoned = FALSE]

-----------------------------------------------------------------------------
(* m1_main.c's stop_live: every producer stops; without USB the supplies   *)
(* drop and the board waits for external power.  Before the handoff a      *)
(* failure only halts.                                                     *)
SrcOff == [state |-> "off", cand |-> FALSE, sel |-> FALSE, starting |-> FALSE]
LiveOff == [state |-> "off", mode |-> "usb", choice |-> "none", tried |-> FALSE, abandoned |-> FALSE]
Down(x) == [Dark(x) EXCEPT !.radio = "off", !.led = @ /\ x.usb, !.sensor = @ /\ x.usb]
Ends(final, x) ==
    /\ p' = [p EXCEPT !.state = final, !.retained = FALSE, !.scanned = FALSE, !.cmd = "none", !.committed = FALSE]
    /\ hal' = "off" /\ q' = Flushed(q) /\ r' = Unread /\ wl' = NoSession
    /\ b' = Down(x)
    /\ live' = LiveOff /\ src' = SrcOff
    /\ UNCHANGED <<peer>>
FailsWith(x) == Ends("failed", x)
Fails == FailsWith(b)
Goes(state) == p' = [p EXCEPT !.state = state]
Calm == UNCHANGED <<cable, peer>>
Scanning == UNCHANGED scanVars

-----------------------------------------------------------------------------
(* Cold start.                                                             *)
ColdBoard(wired) ==
    [lights |-> "stopped", led |-> FALSE, sensor |-> FALSE, radio |-> "off", usb |-> FALSE,
     reduced |-> ~wired, prepared |-> ~wired, rtc |-> IF wired THEN "off" ELSE "measuring"]
ColdOwner(wired) ==
    [state |-> IF wired THEN "busb" ELSE "brtc", ext |-> wired, retained |-> FALSE, scanned |-> FALSE,
     cmd |-> "none", committed |-> FALSE, last |-> DefaultRadio]

PowerInit ==
    /\ hal = "off" /\ q = Empty /\ r = Unread
    /\ cable \in BOOLEAN /\ peer = "searching"
    /\ p = ColdOwner(cable) /\ b = ColdBoard(cable)
    /\ src = SrcOff /\ live = LiveOff /\ wl = NoSession

BootStates == {"brtc", "bsleep", "brails", "bsettle", "bcapture", "brestore", "busb", "bpower",
               "bstart", "bscan", "blinks", "bradio", "bapp"}
Boot(state) == p.state = state /\ cable = p.ext
BootKeeps == UNCHANGED <<r, src>> /\ Calm

BootFails == \* m1_boot.c's fail: a source change or a dead scan, before the handoff
    /\ p.state \in BootStates
    /\ cable # p.ext \/ (p.state \in {"bcapture", "bscan", "blinks", "bradio", "bapp"} /\ hal = "off")
    /\ LET x == [b EXCEPT !.led = FALSE, !.sensor = FALSE]
       IN  Ends("halted", IF cable # p.ext THEN UsbStopped(x) ELSE x)
    /\ UNCHANGED cable

BootClock ==
    /\ Boot("brtc") /\ Goes("bsleep") /\ b' = [b EXCEPT !.rtc = "ready"]
    /\ UNCHANGED <<hal, q, live, wl>> /\ BootKeeps
BootSleeps == \* one bounded deep sleep with every supply off
    /\ Boot("bsleep") /\ Goes("brails") /\ Dozes(b)
    /\ UNCHANGED <<hal, q, live, wl, b>> /\ BootKeeps
BootRails ==
    /\ Boot("brails") /\ Goes("bsettle")
    /\ hal' = "idle" /\ q' = Empty /\ b' = [b EXCEPT !.sensor = TRUE]
    /\ UNCHANGED <<live, wl>> /\ BootKeeps
BootCaptures ==
    /\ Boot("bsettle") /\ hal = "idle" /\ Goes("bcapture")
    /\ hal' = "single" /\ q' = [q EXCEPT !.busy = TRUE]
    /\ UNCHANGED <<live, wl, b>> /\ BootKeeps
BootCaptured ==
    /\ Boot("bcapture") /\ hal = "done" /\ FrameWaits /\ Goes("brestore")
    /\ hal' = "off" /\ q' = Flushed(q) /\ b' = Unpowered(b)
    /\ UNCHANGED <<live, wl>> /\ BootKeeps
BootRestores ==
    /\ Boot("brestore") /\ Quiet(b) /\ Goes("bpower") /\ b' = [b EXCEPT !.prepared = FALSE]
    /\ UNCHANGED <<hal, q, live, wl>> /\ BootKeeps
BootUsb ==
    /\ Boot("busb") /\ ~b.prepared /\ Quiet(b) /\ Goes("bpower") /\ b' = [b EXCEPT !.usb = TRUE]
    /\ UNCHANGED <<hal, q, live, wl>> /\ BootKeeps
BootPower ==
    /\ Boot("bpower") /\ Goes("bstart")
    /\ hal' = "idle" /\ q' = Empty /\ b' = [Lit(b) EXCEPT !.sensor = TRUE]
    /\ UNCHANGED <<live, wl>> /\ BootKeeps
BootStart ==
    /\ Boot("bstart") /\ hal = "idle" /\ Goes("bscan")
    /\ hal' = "run" /\ b' = [b EXCEPT !.lights = LightServed(@)]
    /\ UNCHANGED <<q, live, wl>> /\ BootKeeps
BootScan == \* the first real frame, then the scan pauses for the profile
    /\ Boot("bscan") /\ FrameWaits /\ Goes("blinks")
    /\ hal' = "paused" /\ q' = Flushed(Taken(q))
    /\ UNCHANGED <<live, wl, b>> /\ BootKeeps
BootLinks ==
    /\ Boot("blinks")
    /\ IF cable THEN Goes("bapp") /\ b' = b ELSE Goes("bradio") /\ b' = [b EXCEPT !.radio = "pulse"]
    /\ UNCHANGED <<hal, q, live, wl>> /\ BootKeeps
BootRadio ==
    /\ Boot("bradio") /\ Goes("bapp") /\ b' = [b EXCEPT !.radio = "ready"] /\ wl' = Session(DefaultRadio)
    /\ UNCHANGED <<hal, q, live>> /\ BootKeeps
BootApp == \* m1_live_init, m1_hal_resume; the first service adopts the USB owner's source
    /\ Boot("bapp") /\ hal = "paused"
    /\ LET m == IF cable THEN "usb" ELSE DefaultRadio
       IN  live' = [LiveOff EXCEPT !.state = "awake", !.mode = m]
    /\ p' = [p EXCEPT !.state = "awake", !.ext = b.usb]
    /\ hal' = "run" /\ r' = Unread
    /\ UNCHANGED <<q, src, wl, b>> /\ Calm

Booting ==
    \/ BootClock \/ BootSleeps \/ BootRails \/ BootCaptures \/ BootCaptured \/ BootRestores \/ BootUsb
    \/ BootPower \/ BootStart \/ BootScan \/ BootLinks \/ BootRadio \/ BootApp

-----------------------------------------------------------------------------
(* Awake: m1_live_service, the user's choice of transport, the idle policy *)
(* and the main loop's health check.                                       *)
Between == p.state = "awake" /\ cable = p.ext /\ ~r.taken
Serves == \E s \in Served(wl, b.radio) : wl' = s[1] /\ b' = [b EXCEPT !.radio = s[2]]

LightTurn == \* the lights are serviced where their owner still runs; awake, a frame is offered
    /\ \/ p.state = "awake" \/ p.state \in {"drain", "blank", "rsettle"}
       \/ p.state = "source" /\ src.state \in {"drain", "link"}
    /\ b' = [b EXCEPT !.lights = IF p.state = "awake" /\ @ = "ready" THEN "transfer" ELSE LightServed(@)]
    /\ Scanning /\ Calm /\ UNCHANGED <<p, src, live, wl>>

RadioTurn ==
    /\ wl.on
    /\ \/ p.state \in {"awake", "drain", "blank", "rlink"}
       \/ p.state \in {"peer", "deepen"} /\ ~(cable /\ MayCancel(wl))
       \/ p.state = "source" /\ src.state \in {"drain", "stable", "phy"}
       \/ p.state = "source" /\ src.state = "link" /\ ~src.starting
    /\ Serves
    /\ Scanning /\ Calm /\ UNCHANGED <<p, src, live>>

Choose == \* Fn and a transport, waiting for the old host's release
    /\ Between /\ live.choice = "none"
    /\ \E m \in Modes \ {live.mode} : (m = "usb" => b.usb) /\ live' = [live EXCEPT !.choice = m]
    /\ Scanning /\ Calm /\ UNCHANGED <<p, src, wl, b>>
Withdraw == \* input cancelled or the drain deadline
    /\ Between /\ live.choice # "none" /\ ~live.tried
    /\ live' = [live EXCEPT !.choice = "none"]
    /\ Scanning /\ Calm /\ UNCHANGED <<p, src, wl, b>>
Try == \* the old host is drained; a radio that is not running gets its start pulse
    /\ Between /\ live.choice # "none" /\ ~live.tried
    /\ live.mode # "usb" => SwitchReady(wl, b.radio)
    /\ live' = [live EXCEPT !.tried = TRUE]
    /\ b' = [b EXCEPT !.radio = IF @ = "off" /\ live.choice # "usb" THEN "pulse" ELSE @]
    /\ Scanning /\ Calm /\ UNCHANGED <<p, src, wl>>
TryRadio ==
    /\ Between /\ live.tried
    /\ \/ b.radio = "pulse" /\ wl' = Session(live.choice) /\ b' = [b EXCEPT !.radio = "ready"]
       \/ SwitchReady(wl, b.radio) /\ wl.mode # live.choice /\ wl' = Session(live.choice) /\ b' = b
    /\ Scanning /\ Calm /\ UNCHANGED <<p, src, live>>
Switches ==
    /\ Between /\ live.tried
    /\ IF wl.on THEN Selected(wl, live.choice) ELSE live.choice = "usb" /\ b.radio = "off"
    /\ live' = [live EXCEPT !.mode = live.choice, !.choice = "none", !.tried = FALSE]
    /\ p' = [p EXCEPT !.last = IF live.choice = "usb" THEN @ ELSE live.choice]
    /\ Scanning /\ Calm /\ UNCHANGED <<src, wl, b>>

SleepRequested == \* m1_power_tick after m1_live_power_activity and the peer's selector
    /\ Between /\ ~cable /\ live.choice = "none" /\ hal = "run" /\ r.seen
    /\ IF b.rtc # "ready" \/ ~MaySuspend THEN Fails /\ UNCHANGED cable
       ELSE /\ \E command \in {"sleep"} \cup (IF wl.link /\ live.mode = "bt" THEN {"retain"} ELSE {}) :
                   p' = [p EXCEPT !.state = "drain", !.cmd = command, !.committed = FALSE]
            /\ live' = Suspended(FALSE) /\ r' = Unread
            /\ UNCHANGED <<hal, q, src, wl, b>> /\ Calm

HealthFails ==
    /\ hal = "off" /\ ~r.taken
    /\ p.state \in {"awake", "drain", "capture"} \/ (p.state = "source" /\ src.state = "drain")
    /\ Fails /\ UNCHANGED cable

(* What silence costs: the mode deadline of a session that was never       *)
(* answered, and the deadline of whoever waits for the answer.             *)
SilenceFails ==
    /\ peer = "silent" /\ wl.on /\ wl.sleep = "none" /\ ~wl.fresh /\ ~r.taken
    /\ \/ ~wl.confirmed /\ p.state \in {"awake", "drain", "blank", "peer", "rlink"}
       \/ p.state = "awake" /\ live.tried
       \/ p.state = "rlink" \/ (p.state = "source" /\ src.state = "link")
    /\ Fails /\ UNCHANGED cable

-----------------------------------------------------------------------------
(* m1_runtime_power.c: a cable edge while the application runs, and the    *)
(* way into sleep.                                                         *)
AwakeEdge ==
    /\ p.state \in {"awake", "drain"} /\ cable # p.ext /\ ~r.taken
    /\ LET x == IF cable THEN b ELSE UsbStopped(b)
       IN  IF ~MaySuspend THEN FailsWith(x)
           ELSE /\ Goes("source") /\ live' = Suspended(~cable)
                /\ src' = [SrcOff EXCEPT !.state = "drain", !.cand = cable]
                /\ b' = x /\ r' = Unread /\ UNCHANGED <<hal, q, wl, peer>>
    /\ UNCHANGED cable

Parks ==
    /\ p.state = "drain" /\ cable = p.ext /\ hal = "run" /\ Goes("blank")
    /\ \E s \in Served(wl, b.radio) :
           /\ MayPark(s[1], s[2]) /\ wl' = s[1]
           /\ b' = [b EXCEPT !.radio = s[2], !.lights = "transfer"]
    /\ live' = Parked /\ hal' = "paused" /\ q' = Flushed(q)
    /\ UNCHANGED <<r, src>> /\ Calm

CancelSleep(k) == \* cancel_sleep and m1_source_begin_parked
    LET x == [Dark(b) EXCEPT !.led = TRUE]
    IN  /\ UNCHANGED cable
        /\ IF hal # "paused" \/ SleepSent(k) # "none" \/ live.state # "parked" THEN FailsWith(x)
           ELSE /\ p' = [p EXCEPT !.state = "source", !.cmd = "none"]
                /\ src' = [SrcOff EXCEPT !.state = "stable", !.cand = TRUE]
                /\ wl' = k /\ b' = x
                /\ UNCHANGED <<hal, q, r, live, peer>>
BlankCancels == p.state = "blank" /\ b.lights = "ready" /\ cable /\ CancelSleep(wl)
BlankAsks ==
    /\ p.state = "blank" /\ b.lights = "ready" /\ ~cable /\ Goes("peer")
    /\ \E s \in Served(wl, b.radio) :
           /\ MayAskSleep(s[1], s[2], p.cmd) /\ wl' = Asked(s[1], p.cmd)
           /\ b' = [Dark(b) EXCEPT !.led = FALSE, !.radio = s[2]]
    /\ Scanning /\ Calm /\ UNCHANGED <<src, live>>
BlankExpires == \* command 5 is refused without a host, and nothing decides again
    /\ p.state = "blank" /\ b.lights = "ready" /\ ~cable /\ p.cmd = "retain" /\ ~wl.link
    /\ Fails /\ UNCHANGED cable

Restore(owner, k, x) ==
    /\ p' = [owner EXCEPT !.state = "rgpio", !.scanned = FALSE]
    /\ hal' = HalStopped(hal) /\ q' = Flushed(q) /\ wl' = k /\ b' = Unpowered(x)
    /\ UNCHANGED <<r, peer, src, live>>

PeerCancels == p.state = "peer" /\ cable /\ MayCancel(wl) /\ CancelSleep(Cancelled(wl))
Descends(k, x, owner) == \* m1_usb_power_down and m1_power_gpio_prepare, PC13 read in between
    \E move \in Moves :
        /\ cable' = MovedTo(move)
        /\ IF Reading(move, 1) THEN Restore(owner, k, x)
           ELSE IF Reading(move, 2) THEN Restore(owner, k, [x EXCEPT !.reduced = FALSE])
           ELSE IF Reading(move, 3) THEN Restore(owner, k, [x EXCEPT !.reduced = TRUE])
           ELSE /\ p' = [owner EXCEPT !.state = "settle", !.scanned = FALSE]
                /\ hal' = "off" /\ q' = Flushed(q) /\ wl' = k
                /\ b' = Prepared([Unpowered(x) EXCEPT !.reduced = TRUE])
                /\ UNCHANGED <<r, peer, src, live>>
PeerSleeps ==
    /\ p.state = "peer" /\ ~(cable /\ MayCancel(wl))
    /\ \E s \in Served(wl, b.radio) :
           /\ SleepSent(s[1]) = p.cmd
           /\ LET keeps == p.cmd = "retain"
                  k == IF keeps THEN s[1] ELSE NoSession
                  x == [b EXCEPT !.radio = s[2]]
                  y == IF keeps THEN x ELSE Quiesced(x)
                  owner == [p EXCEPT !.committed = TRUE, !.retained = keeps]
              IN  IF (~keeps /\ s[2] # "ready") \/ (~cable /\ (b.usb \/ b.prepared \/ y.radio = "busy"))
                  THEN Fails /\ UNCHANGED cable
                  ELSE IF cable
                  THEN Restore(owner, k, y) /\ UNCHANGED cable
                  ELSE Descends(k, y, owner)

-----------------------------------------------------------------------------
(* Asleep: timed deep sleep, one-shot captures, retention and its end.     *)
CableWakes ==
    /\ p.state \in {"settle", "sleep", "stamp", "settling", "capture"} /\ cable
    /\ IF p.state \in {"settling", "capture"} /\ hal = "off" THEN Fails ELSE Restore(p, wl, b)
    /\ UNCHANGED cable
Settles ==
    /\ p.state = "settle" /\ ~cable /\ Goes("sleep")
    /\ Scanning /\ Calm /\ UNCHANGED <<src, live, wl, b>>
BeginsDeepen == \* the retention window is over
    /\ p.state = "sleep" /\ ~cable /\ p.retained
    /\ IF MayAskSleep(wl, b.radio, "sleep")
       THEN /\ wl' = Asked(wl, "sleep")
            /\ p' = [p EXCEPT !.state = "deepen", !.cmd = "sleep", !.committed = FALSE]
            /\ Scanning /\ UNCHANGED <<peer, src, live, b>>
       ELSE Fails
    /\ UNCHANGED cable
CanSleep(wired) == \* m1_power_can_sleep
    /\ p.committed /\ hal \notin {"run", "single"} /\ b.lights = "stopped"
    /\ p.retained => b.radio = "ready" /\ SleepSent(wl) = "retain"
    /\ b.reduced /\ ~wired
Sleeps == \* m1_sleep_timed_wait and its wake-up
    /\ p.state = "sleep" /\ ~cable
    /\ \E move \in Moves :
           LET safe == CanSleep(Reading(move, 1))
           IN  /\ cable' = MovedTo(move)
               /\ IF safe /\ Dozes(Unpowered(b))
                  THEN /\ Goes("stamp") /\ b' = Unpowered(b)
                       /\ Scanning /\ UNCHANGED <<peer, src, live, wl>>
                  ELSE IF ~safe /\ Reading(move, 2) THEN Restore(p, wl, b) ELSE Fails
Stamps ==
    /\ p.state = "stamp" /\ ~cable
    /\ IF p.scanned THEN Goes("settling") /\ UNCHANGED <<hal, q>>
       ELSE p' = [p EXCEPT !.scanned = TRUE] /\ hal' = "idle" /\ q' = Empty
    /\ b' = [b EXCEPT !.sensor = TRUE]
    /\ Calm /\ UNCHANGED <<r, src, live, wl>>
StartsCapture ==
    /\ p.state = "settling" /\ ~cable
    /\ IF hal \notin {"idle", "done"} \/ q.pending > 0 THEN Fails /\ UNCHANGED cable
       ELSE /\ Goes("capture") /\ hal' = "single" /\ q' = [q EXCEPT !.busy = TRUE, !.next = 0]
            /\ Calm /\ UNCHANGED <<r, src, live, wl, b>>
Captured == \* m1_wake_frame: a hole in the sequence is a fault
    /\ p.state = "capture" /\ ~cable /\ hal = "done"
    /\ IF ~FrameWaits \/ (r.seen /\ r.told \notin {Told, Told + 1}) THEN Fails /\ UNCHANGED cable
       ELSE \E woken \in BOOLEAN : \* a key, the knob's switches
                /\ IF woken THEN Restore(p, wl, b)
                   ELSE /\ Goes("sleep") /\ q' = Taken(q)
                        /\ r' = [r EXCEPT !.seen = TRUE, !.told = Told, !.frame = q.ring[q.head]]
                        /\ UNCHANGED <<hal, peer, src, live, wl, b>>
                /\ UNCHANGED cable
DeepenCancels == \* the retained link is kept
    p.state = "deepen" /\ cable /\ MayCancel(wl) /\ Restore(p, Cancelled(wl), b) /\ UNCHANGED cable
Deepens ==
    /\ p.state = "deepen" /\ ~(cable /\ MayCancel(wl))
    /\ \E s \in Served(wl, b.radio) :
           LET owner == [p EXCEPT !.state = "sleep", !.committed = TRUE, !.retained = FALSE]
           IN  /\ SleepSent(s[1]) = "sleep"
               /\ IF s[2] # "ready" THEN Fails
                  ELSE IF cable THEN Restore(owner, NoSession, Quiesced(b))
                  ELSE /\ p' = owner /\ wl' = NoSession /\ b' = Quiesced(b)
                       /\ Scanning /\ UNCHANGED <<peer, src, live>>
    /\ UNCHANGED cable

-----------------------------------------------------------------------------
(* Restoration; a cable that arrives now is left to the awake owner.       *)
RestoresPins ==
    /\ p.state = "rgpio"
    /\ IF Quiet(b) THEN Goes("rrails") /\ b' = [b EXCEPT !.prepared = FALSE] /\ Scanning /\ UNCHANGED <<peer, src, live, wl>>
       ELSE Fails
    /\ UNCHANGED cable
RestoresRails ==
    /\ p.state = "rrails" /\ Goes("rsettle")
    /\ hal' = "idle" /\ q' = Empty /\ b' = [Lit(b) EXCEPT !.sensor = TRUE]
    /\ Calm /\ UNCHANGED <<r, src, live, wl>>
RestoresRadio ==
    /\ p.state = "rsettle" /\ b.lights = "ready"
    /\ IF p.retained
       THEN IF SleepSent(wl) = "retain" /\ b.radio = "ready"
            THEN Goes("rlink") /\ wl' = Session(wl.mode) /\ Scanning /\ UNCHANGED <<peer, src, live, b>>
            ELSE Fails
       ELSE IF b.radio = "off"
            THEN Goes("rradio") /\ b' = [b EXCEPT !.radio = "pulse"] /\ Scanning /\ UNCHANGED <<peer, src, live, wl>>
            ELSE Fails
    /\ UNCHANGED cable
RestoresSession ==
    /\ p.state = "rradio" /\ b.radio = "pulse"
    /\ IF wl.on THEN Fails
       ELSE Goes("rlink") /\ wl' = Session(live.mode) /\ b' = [b EXCEPT !.radio = "ready"]
            /\ Scanning /\ UNCHANGED <<peer, src, live>>
    /\ UNCHANGED cable
BugWoken(owner) == [owner EXCEPT !.ext = cable] \* mutant: the edge is taken for handled
Woken(owner) == owner
Wakes ==
    /\ p.state = "rlink" /\ Selected(wl, live.mode)
    /\ IF hal = "idle" /\ MayResume(wl, b, live.mode, FALSE)
       THEN /\ p' = [Woken(p) EXCEPT !.state = "awake", !.cmd = "none", !.committed = FALSE, !.retained = FALSE]
            /\ live' = Resumed(live.mode) /\ hal' = "run" /\ q' = Flushed(q) /\ r' = Unread
            /\ UNCHANGED <<peer, src, wl, b>>
       ELSE Fails
    /\ UNCHANGED cable

-----------------------------------------------------------------------------
(* m1_source.c: the cable's change, debounced, then made once.             *)
At(state) == p.state = "source" /\ src.state = state /\ cable = src.cand
Onward(state) == src' = [src EXCEPT !.state = state]
Target == IF live.mode = "usb" /\ ~src.sel THEN p.last ELSE live.mode

SourceEdge ==
    /\ p.state = "source" /\ cable # src.cand
    /\ IF src.state \notin {"drain", "stable"} THEN Fails
       ELSE /\ src' = [src EXCEPT !.cand = cable]
            /\ b' = IF cable THEN b ELSE UsbStopped(b)
            /\ live' = IF cable THEN live ELSE Suspended(TRUE)
            /\ Scanning /\ UNCHANGED <<peer, p, wl>>
    /\ UNCHANGED cable
SourceParks ==
    /\ At("drain") /\ hal = "run" /\ Onward("stable")
    /\ \E s \in Served(wl, b.radio) :
           MayPark(s[1], s[2]) /\ wl' = s[1] /\ b' = [Dark(b) EXCEPT !.radio = s[2]]
    /\ live' = Parked /\ hal' = "paused" /\ q' = Flushed(q)
    /\ Calm /\ UNCHANGED <<r, p>>
SourceStable ==
    /\ At("stable") /\ src' = [src EXCEPT !.state = "phy", !.sel = cable]
    /\ Scanning /\ Calm /\ UNCHANGED <<p, live, wl, b>>
SourcePhy == \* m1_usb_hw_start or m1_usb_power_down, PC13 read again inside
    /\ At("phy")
    /\ \E s \in Served(wl, b.radio), move \in Moves :
           LET still == Reading(move, 1) = src.sel /\ Reading(move, 2) = src.sel
               x == [b EXCEPT !.radio = s[2]]
           IN  /\ wl.on => s[2] = "ready"
               /\ cable' = MovedTo(move)
               /\ IF src.sel
                  THEN IF b.usb \/ (still /\ ~b.prepared /\ Quiet(x))
                       THEN Onward("stamp") /\ b' = [x EXCEPT !.usb = TRUE, !.reduced = FALSE] /\ wl' = s[1]
                            /\ Scanning /\ UNCHANGED <<peer, p, live>>
                       ELSE Fails
                  ELSE IF still /\ Quiet(x)
                       THEN Onward("rtc") /\ wl' = s[1]
                            /\ b' = [x EXCEPT !.reduced = TRUE, !.rtc = IF @ = "ready" THEN @ ELSE "measuring"]
                            /\ Scanning /\ UNCHANGED <<peer, p, live>>
                       ELSE Fails
SourceClock ==
    /\ At("rtc") /\ Onward("stamp") /\ b' = [b EXCEPT !.rtc = "ready"]
    /\ Scanning /\ Calm /\ UNCHANGED <<p, live, wl>>
SourceStamp ==
    /\ At("stamp")
    /\ LET cold == Target # "usb" /\ ~wl.on
       IN  IF cold /\ b.radio # "off" THEN Fails
           ELSE /\ src' = [src EXCEPT !.state = "link", !.starting = cold]
                /\ b' = [Lit(b) EXCEPT !.radio = IF cold THEN "pulse" ELSE @]
                /\ Scanning /\ UNCHANGED <<peer, p, live, wl>>
    /\ UNCHANGED cable
SourceRadio ==
    /\ At("link")
    /\ \/ src.starting /\ wl' = Session(Target) /\ b' = [b EXCEPT !.radio = "ready"]
       \/ ~src.starting /\ Target # "usb" /\ wl.mode # Target /\ wl' = Session(Target)
          /\ \E s \in Served(wl, b.radio) : SwitchReady(s[1], s[2]) /\ b' = [b EXCEPT !.radio = s[2]]
    /\ src' = [src EXCEPT !.starting = FALSE]
    /\ Scanning /\ Calm /\ UNCHANGED <<p, live>>
SourceLinked ==
    /\ At("link") /\ ~src.starting /\ b.lights = "ready" /\ Onward("restore")
    /\ Target # "usb" => Selected(wl, Target)
    /\ Scanning /\ Calm /\ UNCHANGED <<p, live, wl, b>>
SourceReady ==
    /\ At("restore")
    /\ IF (src.sel /\ ~b.usb) \/ hal # "paused" \/ ~MayResume(wl, b, Target, TRUE) THEN Fails
       ELSE /\ p' = [p EXCEPT !.state = "awake", !.ext = src.sel, !.cmd = "none"]
            /\ live' = Resumed(Target) /\ src' = SrcOff
            /\ hal' = "run" /\ r' = Unread
            /\ UNCHANGED <<q, peer, wl, b>>
    /\ UNCHANGED cable

-----------------------------------------------------------------------------
(* m1_main.c: a battery fault waits for external power and resets.         *)
Reset ==
    /\ p.state = "failed" /\ ~b.usb /\ cable
    /\ hal' = "off" /\ q' = Empty /\ r' = Unread
    /\ p' = ColdOwner(TRUE) /\ b' = ColdBoard(TRUE)
    /\ UNCHANGED <<cable, peer, src, live, wl>>

-----------------------------------------------------------------------------
(* The environment.                                                        *)
Rest == UNCHANGED <<p, src, live, wl, b>>
CableMoves == cable' = ~cable /\ UNCHANGED peer /\ Scanning /\ Rest
PeerChanges ==
    /\ peer' \in {"linked", "searching", "silent"} \ {peer}
    /\ UNCHANGED cable /\ Scanning /\ Rest
ScanBreaks == ScanFails /\ Calm /\ Rest
Interrupt == (TimerIrq \/ DmaIrq) /\ Calm /\ Rest
Frame ==
    /\ p.state = "awake"
    /\ Judge \/ (hal = "run" /\ cable = p.ext /\ (Take \/ SaveGap))
    /\ Calm /\ Rest
Discard == \* draining: frames are taken and thrown away
    /\ p.state = "drain" \/ (p.state = "source" /\ src.state = "drain")
    /\ hal = "run" /\ FrameWaits /\ q' = Taken(q)
    /\ UNCHANGED <<hal, r>> /\ Calm /\ Rest

-----------------------------------------------------------------------------
Advances == \* every call here takes the owner on
    \/ Booting \/ BootFails \/ Reset \/ HealthFails \/ AwakeEdge \/ BlankCancels \/ PeerCancels \/ PeerSleeps
    \/ CableWakes \/ DeepenCancels \/ Deepens \/ RestoresPins \/ RestoresRails \/ RestoresRadio \/ RestoresSession
    \/ SourceEdge \/ SourceParks \/ SourceStable \/ SourcePhy \/ SourceClock \/ SourceStamp \/ SourceReady
Answered == SourceRadio \/ SourceLinked \/ Wakes \/ SilenceFails \* the wait for the peer ends, one way or the other
Idling ==
    \/ Choose \/ Withdraw \/ Try \/ TryRadio \/ Switches \/ SleepRequested \/ Parks \/ BlankAsks \/ BlankExpires
    \/ Settles \/ BeginsDeepen \/ Sleeps \/ Stamps \/ StartsCapture \/ Captured
Outside == CableMoves \/ PeerChanges \/ ScanBreaks \/ Discard
PowerNext == Advances \/ Answered \/ LightTurn \/ RadioTurn \/ Interrupt \/ Frame \/ Idling \/ Outside

(* The main loop runs forever, so a step that stays possible is taken; the *)
(* deadlines end what a peer could keep half possible for ever (SF).       *)
Fairness ==
    /\ WF_powerVars(Advances) /\ WF_powerVars(LightTurn) /\ WF_powerVars(RadioTurn)
    /\ WF_powerVars(Interrupt) /\ WF_powerVars(Frame)
    /\ SF_powerVars(Answered)
PowerSpec == PowerInit /\ [][PowerNext]_powerVars /\ Fairness

-----------------------------------------------------------------------------
(* The owner gives up only when the scanner broke, the cable moved while   *)
(* the source was being changed or a radio selection tried, the peer fell  *)
(* silent while somebody waited, or the host left before its sleep command *)
(* (docs/VALIDATION.md:98-105; m1_source.c:59-65): no interleaving of its  *)
(* own steps makes a peripheral refuse.                                    *)
ScanBroke == hal = "off" /\ (p.state \in {"awake", "drain", "capture", "settling"} \/ src.state = "drain")
CableCause ==
    \/ p.state = "source" /\ (cable # src.cand \/ cable' # cable)
    \/ cable # p.ext /\ live.tried
HostLeft == p.state = "blank" /\ p.cmd = "retain" /\ ~wl.link
GivesUp == p.state # "failed" /\ p'.state = "failed"
FailsOnlyForCause == [][GivesUp => ScanBroke \/ CableCause \/ peer = "silent" \/ HostLeft]_powerVars

(* A host that merely goes away is no fault (docs/MONSGEEK_M1.md:564-566). *)
LostHostIsNoFault == [][GivesUp => ScanBroke \/ CableCause \/ peer = "silent"]_powerVars

(* Nothing clocks data out of, or into, an unpowered board: the scanner    *)
(* runs only with the sensors on, the lights only with theirs, USB never   *)
(* with sleeping pins or a reduced PHY (m1_sleep.c:91-102, m1_main.c:28).  *)
NoProducerOutlivesItsRail ==
    /\ hal \in {"run", "single"} => b.sensor
    /\ b.lights # "stopped" => b.led
    /\ b.usb => ~b.prepared /\ ~b.reduced

(* A cable that stays in gets a running USB device, or a fault that says   *)
(* so, whatever the owner was doing (docs/M1_TEST_CHECKLIST.md:130).       *)
Attached == p.state = "halted" \/ (b.usb /\ p.state \in {"awake", "failed"})
CableIsServed == <>[]cable => []<>Attached
=============================================================================
