------------------------------- MODULE M1Link -------------------------------
(***************************************************************************)
(* The M1's output path: m1_live.c owns the loop, m1_controls.c the Fn     *)
(* choice of a transport, m1_transport.c the physical selection,           *)
(* keyboard_app.c the report, keyboard_aux.c the knob's consumer control,  *)
(* m1_usb_class.c the USB endpoints and M1Wireless the radio.              *)
(*                                                                         *)
(* One pass of m1_live_service is three steps, `pc`: input, output and     *)
(* controls.  USB interrupts arrive before the first and the second (the   *)
(* third reads nothing of USB's that they could still change); the radio's *)
(* wire, the peer and the fingers matter only where a pass reads them,     *)
(* before its first and second step.                                       *)
(***************************************************************************)
EXTENDS M1Wireless

VARIABLES
    pc,     \* the next step of m1_live_service
    u,      \* m1_usb_class.c: state, stale (generation # epoch), the endpoints
    c,      \* m1_controls_t
    t,      \* the statics of m1_transport.c
    a,      \* the output state of keyboard_app_t, keyboard_raw_t and the MIDI sweep
    x,      \* keyboard_aux_t
    l       \* the statics of m1_live.c

linkVars == <<w, spi, tx, peer, host, pc, u, c, t, a, x, l>>

UsbUp == u.state = "on"
UsbReady == UsbUp /\ ~u.stale
UsbDrained == UsbUp /\ ~u.busy /\ ~u.cbusy
RadioMode(m) == Healthy /\ w.target = m
OutputReady(m) == IF m = "usb" THEN UsbReady ELSE RadioMode(m) /\ Eligible(w)
KnobIdle(k) == ~k.release /\ k.usage = NoUsage /\ k.pending = NoUsage

-----------------------------------------------------------------------------
(* cancel_input: a lost host, a reset or a fault ends all input at once.   *)
Abandoned(k) == [k EXCEPT !.phase = "idle", !.target = "none", !.pairing = FALSE, !.neutral = TRUE]
AuxCancelled(k) == [k EXCEPT !.pending = NoUsage, !.release = TRUE, !.allowed = FALSE]
Disarmed(k) == [k EXCEPT !.armed = FALSE, !.down = {}]
Aborted(k) == [Disarmed(k) EXCEPT !.sentValid = FALSE, !.sent = {}] \* not read until it is valid
Blamed(k) == IF k.attempted THEN [k EXCEPT !.fault = TRUE, !.enabled = FALSE] ELSE k

-----------------------------------------------------------------------------
(* The readiness edge, then system_input and the engine on a scanned frame.*)
Available(m) == m = "usb" => UsbUp
Chosen(k, m) == [k EXCEPT !.phase = "choosing", !.target = m]
Requested(k) == [k EXCEPT !.phase = "switching", !.neutral = TRUE]
Engine(k, keys) ==
    IF k.armed THEN [k EXCEPT !.down = keys] ELSE [k EXCEPT !.armed = keys = {}]

(* What a frame may make of <<controls, application>>.                     *)
Frames(k, b, keys) ==
    LET consumed == Disarmed(b)
        released == Aborted(b)
    IN  IF k.phase = "switching" THEN {<<k, consumed>>}
        ELSE IF k.neutral THEN {<<[k EXCEPT !.neutral = keys # {}], consumed>>, <<k, consumed>>}
        ELSE IF k.phase = "choosing"
        THEN {<<[k EXCEPT !.pairing = p], consumed>> : p \in {k.pairing, k.target # "usb"}}
             \cup {<<Abandoned(k), consumed>>}
             \cup {<<Requested(k), released>> : m \in {k.target} \ {n \in {k.current} : ~k.pairing}}
        ELSE {<<k, Engine(b, keys)>>}
             \cup {<<Chosen(k, m), consumed>> : m \in {n \in Modes : b.armed /\ Available(n)}}

(* The first half of a pass: check_epoch, m1_transport_service,            *)
(* m1_wireless_service, the readiness edge and at most one scanned frame.  *)
RadioServed ==
    IF t.starting THEN PulseEnds \/ UNCHANGED wirelessVars
    ELSE IF w.active /\ ~w.faulted THEN WirelessService ELSE UNCHANGED wirelessVars

LoopInput ==
    /\ pc = "input" /\ pc' = "output"
    /\ u' = [u EXCEPT !.stale = FALSE]
    /\ RadioServed
    /\ \E m \in {c.current}, gap \in {g \in BOOLEAN : g => l.enabled} : \* a scan was lost
         LET reset == u.stale /\ m = "usb" /\ ~l.attempted
             ready == OutputReady(m)'
             lost == gap \/ (ready # l.ready /\ (reset \/ c.phase # "switching"))
             c1 == IF reset \/ lost THEN Abandoned(c) ELSE c
             a1 == IF reset \/ lost THEN Aborted(a) ELSE a
         IN  /\ l' = [IF lost THEN Blamed(l) ELSE l EXCEPT !.ready = ready]
             /\ x' = IF reset \/ lost THEN AuxCancelled(x) ELSE x
             /\ \/ ~gap /\ c' = c1 /\ a' = a1
                \/ /\ l.enabled
                   /\ \E keys \in SUBSET Keys : \E f \in Frames(c1, a1, keys) : c' = f[1] /\ a' = f[2]
    /\ UNCHANGED t

-----------------------------------------------------------------------------
(* keyboard_app_service: the report goes out when it changed, was never    *)
(* accepted, or is due again; a refused one is tried on the next pass.     *)
Report(k) == IF k.armed THEN k.down ELSE {}
TakesReport(report) ==
    IF c.current = "usb" THEN UsbReady /\ ~u.busy
    ELSE RadioMode(c.current) /\ (Absorbed(w, report) \/ Offers(w))
UsbWithReport(k, report) == IF c.current = "usb" THEN [k EXCEPT !.busy = TRUE, !.hid = report] ELSE k
RadioWithReport(s, report) ==
    IF c.current = "usb" \/ Absorbed(w, report) THEN s ELSE WithReport(s, report)

Sent(k, report, sent) == IF sent THEN [k EXCEPT !.sent = report, !.sentValid = TRUE] ELSE k

(* send_consumer, as service_auxiliary uses it.                            *)
TakesConsumer(s, v) ==
    IF c.current = "usb" THEN UsbReady /\ ~u.cbusy
    ELSE RadioMode(c.current) /\ TakesUsage(s) /\ (Eligible(s) \/ UsageDone(s, v))
UsbWithUsage(k, v) == IF c.current = "usb" THEN [k EXCEPT !.cbusy = TRUE, !.cons = v] ELSE k
RadioWithUsage(s, v) ==
    IF c.current = "usb" \/ UsageDone(s, v) THEN s
    ELSE [s EXCEPT !.usageStaged = v, !.usagePending = TRUE]

(* keyboard_aux_service: a release that is due or was refused comes before *)
(* the next press; a press is a pulse; only an idle knob takes a turn.     *)
Watched(k, allowed) ==
    [IF ~allowed /\ k.allowed THEN AuxCancelled(k) ELSE k EXCEPT !.allowed = allowed]
Pulses(k) == IF k.usage = NoUsage THEN {k} ELSE {k, [k EXCEPT !.release = TRUE]}
Wants(k) == k.release \/ (k.allowed /\ k.usage = NoUsage /\ k.pending # NoUsage)
Wanted(k) == IF k.release THEN NoUsage ELSE k.pending
Pulsed(k) == IF k.release THEN [k EXCEPT !.release = FALSE, !.usage = NoUsage]
             ELSE [k EXCEPT !.usage = k.pending, !.pending = NoUsage]
Turned(k) == IF k.allowed /\ KnobIdle(k) THEN {k} \cup {[k EXCEPT !.pending = v] : v \in Usages} ELSE {k}

LoopOut ==
    /\ pc = "output" /\ pc' = "controls"
    /\ \E fresh \in {f \in BOOLEAN : f => l.enabled}, sent \in BOOLEAN :
         LET b == IF fresh THEN a ELSE Disarmed(a)
             report == Report(b)
             u1 == IF sent THEN UsbWithReport(u, report) ELSE u
             w1 == IF sent THEN RadioWithReport(w, report) ELSE w
         IN  /\ IF TakesReport(report) THEN sent \/ (b.sentValid /\ b.sent = report) ELSE ~sent
             /\ l' = [l EXCEPT !.fresh = fresh]
             /\ a' = Sent(b, report, sent)
             /\ \E k \in Pulses(Watched(x, fresh /\ OutputReady(c.current) /\ b.armed /\ c.phase = "idle")) :
                  IF Wants(k) /\ TakesConsumer(w1, Wanted(k))
                  THEN /\ x' \in Turned(Pulsed(k))
                       /\ u' = UsbWithUsage(u1, Wanted(k)) /\ w' = RadioWithUsage(w1, Wanted(k))
                  ELSE x' \in Turned(k) /\ u' = u1 /\ w' = w1
    /\ UNCHANGED <<spi, tx, peer, host, c, t>>

-----------------------------------------------------------------------------
(* m1_controls_service over the drained, select and pair of m1_live.c and  *)
(* m1_transport.c.                                                         *)
BugDrained == c.current = "usb" => UsbReady /\ UsbDrained \* mutant: the radio is not asked
Drained ==
    \/ l.attempted
    \/ KnobIdle(x) /\ IF c.current = "usb" THEN UsbReady /\ UsbDrained
                  ELSE RadioMode(c.current) /\ SwitchReady

MaySwitch ==
    /\ l.fresh /\ c.phase = "switching" /\ a.sentValid /\ a.sent = {}
    /\ Drained

BugForgotten(k) == [k EXCEPT !.fresh = FALSE, !.attempted = FALSE] \* mutant: a late switch is harmless
Forgotten(k) == [Blamed(k) EXCEPT !.fresh = FALSE, !.attempted = FALSE]

SwitchFails == \* stale scans or the switch deadline
    /\ c' = Abandoned(c)
    /\ x' = AuxCancelled(x)
    /\ l' = Forgotten(l)
    /\ a' = IF l.attempted THEN Aborted(a) ELSE a
    /\ UNCHANGED <<wirelessVars, u, t>>

Changes ==
    /\ c' = [Abandoned(c) EXCEPT !.current = c.target]
    /\ a' = [a EXCEPT !.sentValid = FALSE, !.sent = {}]
    /\ x' = AuxCancelled(x) /\ l' = [l EXCEPT !.attempted = FALSE, !.fresh = FALSE]
Attempts == l' = [l EXCEPT !.attempted = TRUE, !.fresh = FALSE] /\ UNCHANGED <<c, a, x>>

(* select_mode: what one call does with the radio.                         *)
RadioDown == spi \in {"off", "fault"}
First == ~t.selecting /\ RadioDown /\ c.target # "usb"
Owner == IF t.selecting THEN t.requested ELSE c.target
Selecting(k) == [k EXCEPT !.selecting = TRUE, !.requested = Owner]
SelectStarts ==
    /\ First /\ t' = [Selecting(t) EXCEPT !.starting = TRUE]
    /\ w' = Stopped(w)
    /\ spi' = "pulse" /\ tx' = Idle
    /\ peer' = [peer EXCEPT !.asleep = "none", !.link = "search"]
    /\ host' = [host EXCEPT ![peer.mode] = Quiet]
SelectWaits ==
    /\ ~First /\ t' = Selecting(t)
    /\ \/ Owner # c.target
       \/ t.starting /\ spi # "ready"
       \/ ~t.starting /\ ~Healthy /\ c.target # "usb"
       \/ ~t.starting /\ Healthy /\ w.target = c.target /\ ~Selected(c.target)
       \/ ~t.starting /\ Healthy /\ w.target # c.target /\ ~SwitchReady
    /\ UNCHANGED wirelessVars
SelectInits ==
    /\ ~First /\ Owner = c.target /\ t.starting /\ WirelessInit(c.target)
    /\ t' = [Selecting(t) EXCEPT !.starting = FALSE]
SelectSwitches ==
    /\ ~First /\ Owner = c.target /\ ~t.starting /\ Healthy
    /\ Select(c.target) /\ t' = Selecting(t)
SelectDone ==
    /\ ~First /\ Owner = c.target /\ ~t.starting
    /\ IF Healthy THEN Selected(c.target) ELSE c.target = "usb"

LoopSelect ==
    /\ MaySwitch /\ ~c.pairing
    /\ \/ ~Available(c.target) /\ Attempts /\ UNCHANGED <<wirelessVars, t>>
       \/ /\ Available(c.target)
          /\ \/ (SelectStarts \/ SelectWaits \/ SelectInits \/ SelectSwitches) /\ Attempts
             \/ /\ SelectDone /\ t' = [t EXCEPT !.selecting = FALSE, !.requested = "none"]
                /\ UNCHANGED wirelessVars
                /\ IF c.target = "usb" => UsbReady THEN Changes ELSE Attempts
    /\ UNCHANGED u

LoopPair ==
    /\ MaySwitch /\ c.pairing
    /\ \/ /\ ~t.pairing
          /\ \/ (SelectStarts \/ SelectWaits \/ SelectInits \/ SelectSwitches)
             \/ /\ SelectDone /\ RequestPair
                /\ t' = [t EXCEPT !.selecting = FALSE, !.pairing = TRUE, !.requested = c.target]
             \/ /\ SelectDone /\ ~SwitchReady /\ UNCHANGED wirelessVars
                /\ t' = [t EXCEPT !.selecting = FALSE, !.requested = "none"]
          /\ Attempts
       \/ /\ t.pairing /\ UNCHANGED wirelessVars
          /\ IF t.requested = c.target /\ PairComplete /\ RadioMode(c.target)
             THEN Changes /\ t' = [t EXCEPT !.pairing = FALSE, !.requested = "none"]
             ELSE Attempts /\ UNCHANGED t
    /\ UNCHANGED u

LoopControls ==
    /\ pc = "controls" /\ pc' = "input"
    /\ \/ c.phase = "switching" /\ SwitchFails
       \/ /\ c.phase = "switching" => l.fresh /\ (MaySwitch => c.current = "usb") \* the MIDI sweep
          /\ c' = IF l.fresh THEN c ELSE Abandoned(c)
          /\ l' = [l EXCEPT !.fresh = FALSE] /\ UNCHANGED <<wirelessVars, u, t, a, x>>
       \/ LoopSelect
       \/ LoopPair

-----------------------------------------------------------------------------
(* The USB host and its interrupts; the radio's peer.                      *)
UsbIn == /\ u.busy /\ UsbUp /\ u' = [u EXCEPT !.busy = FALSE, !.hid = {}]
         /\ host' = [host EXCEPT !["usb"].list = u.hid]
UsbConsumerIn == /\ u.cbusy /\ UsbUp /\ u' = [u EXCEPT !.cbusy = FALSE, !.cons = NoUsage]
                 /\ host' = [host EXCEPT !["usb"].usage = u.cons]
Detached == [state |-> "off", stale |-> TRUE, busy |-> FALSE, hid |-> {},
             cbusy |-> FALSE, cons |-> NoUsage]
UsbReset == /\ u.state # "off" /\ u' = Detached /\ host' = [host EXCEPT !["usb"] = Quiet]
UsbConfigured == u.state = "off" /\ u' = [Detached EXCEPT !.state = "on"] /\ UNCHANGED host
UsbHalt == /\ UsbUp /\ u' = [u EXCEPT !.stale = TRUE, !.busy = FALSE, !.hid = {}]
           /\ UNCHANGED host
UsbInterrupt ==
    /\ pc # "controls"
    /\ UsbIn \/ UsbConsumerIn \/ UsbReset \/ UsbConfigured \/ UsbHalt
    /\ UNCHANGED <<w, spi, tx, peer, pc, c, t, a, x, l>>

Surroundings ==
    /\ pc = "input" /\ UNCHANGED <<pc, u, c, t, a, x, l>>
    /\ PeerStep

-----------------------------------------------------------------------------
LinkInit ==
    /\ WirelessInitial /\ peer.mode = "usb"
    /\ pc = "input"
    /\ u = Detached
    /\ c = [current |-> "usb", target |-> "none", phase |-> "idle", pairing |-> FALSE, neutral |-> FALSE]
    /\ t = [starting |-> FALSE, selecting |-> FALSE, pairing |-> FALSE, requested |-> "none"]
    /\ a = [armed |-> FALSE, down |-> {}, sent |-> {}, sentValid |-> FALSE]
    /\ x = [release |-> TRUE, usage |-> NoUsage, pending |-> NoUsage, allowed |-> FALSE]
    /\ l = [enabled |-> TRUE, attempted |-> FALSE, fault |-> FALSE, ready |-> FALSE, fresh |-> FALSE]

Loop == LoopInput \/ LoopOut \/ LoopControls
LinkNext == Loop \/ UsbInterrupt \/ Surroundings
LinkSpec == LinkInit /\ [][LinkNext]_linkVars

-----------------------------------------------------------------------------
(* A host that the keyboard is not serving holds no key and no consumer    *)
(* control (m1_controls.c:29, m1_live.c drained and select_transport).     *)
NoKeyLeftBehind ==
    \A h \in Modes \ {c.current} :
        /\ host[h].torn = "no" => Held(h) = {}
        /\ ~host[h].stray => host[h].usage = NoUsage
(* Outside a physical selection the radio serves the transport that the    *)
(* controls name; a selection that ends otherwise is a fault               *)
(* (m1_live.c:636 and cancel_input).                                       *)
RadioFollowsControls ==
    Healthy /\ ~l.attempted /\ ~l.fault => w.target = c.current
=============================================================================
