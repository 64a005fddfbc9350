----------------------------- MODULE M1Wireless -----------------------------
(***************************************************************************)
(* m1_wireless.c over m1_radio_hal.c: the scheduler that owns the radio    *)
(* peer.  One packet is on the wire at a time; the peer answers only to    *)
(* polls; a keyboard report travels as two packets, a list of key slots    *)
(* and a bitmap.  Deadlines are nondeterministic: the time between two     *)
(* services is arbitrary, so any running deadline may be found expired.    *)
(*                                                                         *)
(* `w` is the scheduler's static state, `spi` the HAL's, `tx` its transmit *)
(* buffer; the peer and the hosts it serves are environment.               *)
(***************************************************************************)
EXTENDS Integers, FiniteSets

CONSTANTS
    Modes,      \* transports: "usb" and the wireless ones
    RfModes,    \* the 2.4 GHz ones, which cannot keep a link asleep
    Keys,       \* HID usages, numbered
    LowKeys,    \* those the bitmap can carry
    ListSlots,  \* M1_RADIO_KEY_SLOTS (6)
    Usages,     \* consumer usages of the encoder
    NoUsage,    \* the release of a consumer usage
    Glitches    \* what a broken peer may answer: {}, or peer states

ASSUME WirelessConstants ==
    /\ "usb" \in Modes /\ RfModes \subseteq Modes \ {"usb"}
    /\ Keys \subseteq Nat /\ LowKeys \subseteq Keys /\ ListSlots \in Nat
    /\ NoUsage \notin Usages

VARIABLES w, spi, tx, peer, host

wirelessVars == <<w, spi, tx, peer, host>>

Radios == Modes \ {"usb"}
Released == [list |-> {}, map |-> {}, over |-> FALSE]
NoPacket == "none"
Idle == [kind |-> NoPacket, list |-> {}, map |-> {}, over |-> FALSE,
         usage |-> NoUsage, arg |-> "none"]

Carried(k) == k.list \cup k.map
Held(h) == host[h].list \cup host[h].map

-----------------------------------------------------------------------------
(* m1_radio_keyboard_update: a held key keeps its place, extended usages   *)
(* take free slots first, and only what finds no place at all rolls over.  *)
Smallest(S, n) == {x \in S : Cardinality({y \in S : y < x}) < n}

BugKept(k, report) == [list |-> {}, map |-> {}] \* mutant: places are reassigned
Kept(k, report) == [list |-> k.list \cap report, map |-> k.map \cap report]

Placed(k, report) ==
    LET keep == Kept(k, report)
        extended == (report \ LowKeys) \ keep.list
        low == (report \cap LowKeys) \ (keep.list \cup keep.map)
        room == ListSlots - Cardinality(keep.list)
        first == Smallest(extended, room)
        then == Smallest(low, room - Cardinality(first))
    IN  [list |-> keep.list \cup first \cup then,
         map |-> keep.map \cup (low \ then),
         over |-> first # extended]

-----------------------------------------------------------------------------
(* Predicates of the scheduler.                                            *)
Healthy == w.active /\ ~w.faulted /\ spi \notin {"off", "fault"}
StatusFresh == w.confirmed /\ w.have /\ w.fresh
Eligible(s) ==
    /\ s.target # "usb" /\ s.active /\ ~s.faulted /\ spi \notin {"off", "fault"}
    /\ s.sleep = "none" /\ s.pair = "none"
    /\ s.confirmed /\ s.have /\ s.fresh /\ s.state = "reports"
Selected(m) == Healthy /\ w.sleep = "none" /\ w.target = m /\ StatusFresh

SwitchReady ==
    /\ Healthy /\ w.sleep = "none" /\ w.pair = "none"
    /\ w.flight = NoPacket /\ spi = "ready"
    /\ w.committed = Released /\ (w.pending => w.staged = Released)
    /\ w.usage = NoUsage /\ (w.usagePending => w.usageStaged = NoUsage)
PairComplete == w.paired /\ Selected(w.target)
BatteryPending(s) == s.battery \in {"due", "flying"}
LocalIdle ==
    /\ Healthy /\ w.pair = "none" /\ ~w.pending /\ ~w.usagePending /\ ~BatteryPending(w)
    /\ (w.sleep = "none" \/ w.sleepDone) /\ w.flight = NoPacket /\ spi = "ready"
SleepSent == IF Healthy /\ w.sleepDone THEN w.sleep ELSE "none"

(* neutral_baseline: all earlier input is abandoned.                       *)
Baseline(s) ==
    [s EXCEPT !.committed = Released, !.staged = Released, !.reports = FALSE,
              !.pending = TRUE, !.part = "keys",
              !.usage = NoUsage, !.usageStaged = NoUsage,
              !.usagePending = FALSE, !.usageSeen = FALSE]
Dropped(b) == IF b = "sent" THEN "due" ELSE b
Unlinked(s) == Baseline([s EXCEPT !.linked = FALSE, !.paired = FALSE, !.battery = Dropped(@)])

(* begin_session.                                                          *)
Session(m) ==
    [active |-> TRUE, faulted |-> FALSE, target |-> m, confirmed |-> FALSE, have |-> FALSE,
     fresh |-> TRUE, state |-> "search", linked |-> FALSE, modeSent |-> FALSE,
     flight |-> NoPacket, part |-> "keys", pending |-> TRUE, committed |-> Released,
     staged |-> Released, reports |-> FALSE, sleep |-> "none", sleepDone |-> FALSE,
     before |-> "none", pair |-> "none", paired |-> FALSE, battery |-> "none",
     usage |-> NoUsage, usageStaged |-> NoUsage, usagePending |-> FALSE,
     usageSeen |-> FALSE]

(* fail and m1_wireless_stop.  What either leaves of the session is not    *)
(* read again before begin_session replaces it, so the model forgets it.   *)
Ended(s) == [Session(s.target) EXCEPT !.pending = FALSE]
Failed(s) == [Ended(s) EXCEPT !.faulted = TRUE]
Stopped(s) == [Ended(s) EXCEPT !.active = FALSE]

-----------------------------------------------------------------------------
(* receive: what a completed poll brought; "other" is no status at all.    *)
Received(s, reply) ==
    LET confirmed == s.modeSent /\ reply.mode = s.target
        s1 == [s EXCEPT !.state = reply.state, !.have = TRUE, !.fresh = TRUE,
                        !.confirmed = confirmed]
        s2 == IF s1.linked /\ reply.state # "reports" THEN Unlinked(s1) ELSE s1
        s3 == IF confirmed /\ s2.pair = "refresh"
              THEN Baseline([s2 EXCEPT !.pair = "none", !.paired = TRUE]) ELSE s2
        up == confirmed /\ s.target # "usb" /\ reply.state = "reports"
        bad == \/ s.confirmed /\ reply.mode # s.target
               \/ reply.mode = s.target /\ s.target # "usb" /\ reply.state = "unknown"
    IN  IF reply.kind = "other" THEN s
        ELSE IF bad THEN Failed(s) ELSE [s3 EXCEPT !.linked = @ \/ up]

(* The completion of the packet that was in flight.                        *)
Completed(s, reply) ==
    LET d == [s EXCEPT !.flight = NoPacket]
    IN  CASE s.flight = "poll" -> Received(d, reply)
          [] s.flight = "keys" -> [d EXCEPT !.part = "bitmap"]
          [] s.flight = "bitmap" ->
                [d EXCEPT !.committed = s.staged, !.pending = FALSE, !.reports = TRUE]
          [] s.flight = "battery" -> [d EXCEPT !.battery = IF @ = "flying" THEN "sent" ELSE @]
          [] s.flight = "consumer" ->
                [d EXCEPT !.usage = s.usageStaged, !.usagePending = FALSE, !.usageSeen = TRUE]
          [] s.flight = "sleep" -> [d EXCEPT !.sleepDone = TRUE]
          [] s.flight = "pair" -> [d EXCEPT !.pair = "refresh", !.confirmed = FALSE, !.have = FALSE,
                                             !.fresh = TRUE, !.state = "search"]
          [] OTHER -> d \* a mode request or a query says nothing by itself

(* The status deadline: a silent peer is offline, not broken.              *)
Regular(s) == s.pair # "queued" /\ s.sleep = "none"
Aged(s) ==
    LET old == IF s.confirmed /\ s.have THEN [s EXCEPT !.fresh = FALSE] ELSE s
    IN  IF Regular(s) /\ s.confirmed /\ s.have /\ s.linked
        THEN Unlinked(old) ELSE old

-----------------------------------------------------------------------------
(* What the scheduler may hand to an idle HAL, in the code's order: the    *)
(* request that a poll, a mode or a query interval has not elapsed lets    *)
(* the next one through; a first mode request never waits.                 *)
Asking(s) == ~s.confirmed /\ s.pair # "refresh"
BugSendable(s) == \* mutant: sleep does not stop the regular traffic
    {k \in {"sleep"} : s.sleep # "none" /\ ~s.sleepDone} \cup {"poll"}
    \cup {"query"} \cup {k \in {s.part} : s.pending /\ Eligible(s)}
Sendable(s) ==
    LET quiet == ~Asking(s) \/ s.modeSent
        battery == ~s.pending /\ ~s.usagePending /\ BatteryPending(s) /\ Eligible(s)
    IN  {k \in {"pair"} : s.pair = "queued"}
        \cup {k \in {"sleep"} : s.pair # "queued" /\ s.sleep # "none" /\ ~s.sleepDone}
        \cup {k \in {"poll"} : Regular(s)}
        \cup {k \in {"mode"} : Regular(s) /\ Asking(s)}
        \cup {k \in {"query"} : Regular(s) /\ quiet}
        \cup {k \in {"battery"} : Regular(s) /\ quiet /\ battery}
        \cup {k \in {s.part} : Regular(s) /\ quiet /\ s.pending /\ Eligible(s)}
        \cup {k \in {"consumer"} : /\ Regular(s) /\ quiet /\ s.usagePending /\ Eligible(s)
                                   /\ s.pending => s.part = "keys" /\ s.reports}

Packet(s, k) ==
    CASE k = "keys" -> [Idle EXCEPT !.kind = k, !.list = s.staged.list, !.over = s.staged.over]
      [] k = "bitmap" -> [Idle EXCEPT !.kind = k, !.map = s.staged.map]
      [] k = "consumer" -> [Idle EXCEPT !.kind = k, !.usage = s.usageStaged]
      [] k = "sleep" -> [Idle EXCEPT !.kind = k, !.arg = s.sleep]
      [] k = "mode" -> [Idle EXCEPT !.kind = k, !.arg = s.target]
      [] OTHER -> [Idle EXCEPT !.kind = k]
Flying(s, k) ==
    [s EXCEPT !.flight = k, !.modeSent = @ \/ k = "mode",
              !.battery = IF k = "battery" THEN "flying" ELSE @]

-----------------------------------------------------------------------------
(* m1_wireless_service, with the HAL's service inside it.                  *)
Replies ==
    [kind : {"status"}, mode : {peer.mode}, state : {peer.link}]
    \cup [kind : {"other"}, mode : {peer.mode}, state : {"search"}]
    \cup [kind : {"status"}, mode : Modes \ {peer.mode}, state : {"search"} \cap Glitches]
    \cup [kind : {"status"}, mode : {peer.mode}, state : {"unknown"} \cap Glitches]

Answers == IF spi = "done" /\ w.flight = "poll" THEN Replies
           ELSE {CHOOSE reply \in Replies : reply.kind = "other"} \* nothing reads it

Overdue ==
    \/ w.pair # "none"
    \/ w.sleep # "none" /\ ~w.sleepDone
    \/ spi \in {"transfer", "done"} \* the transfer's deadline, a DMA or SPI error
    \/ spi \in {"off", "fault"}
ServiceFails ==
    /\ w.active /\ ~w.faulted /\ Overdue
    /\ w' = Failed(w) /\ spi' = "off" /\ tx' = Idle
    /\ UNCHANGED <<peer, host>>

Settled(reply) == IF spi = "done" /\ w.flight # NoPacket THEN Completed(w, reply) ELSE w
Pin == IF spi \in {"done", "pulse"} THEN "ready" ELSE spi

ServiceRefuses == \* the answer, or a mode the peer never confirmed, is fatal
    /\ Healthy
    /\ \E reply \in Answers :
          LET s == Settled(reply)
          IN  \/ s.faulted /\ w' = s
              \/ ~s.faulted /\ Regular(s) /\ ~s.confirmed /\ w' = Failed(s)
    /\ spi' = "off" /\ tx' = Idle /\ UNCHANGED <<peer, host>>

(* A peer that serves a host answers in time: only one without a host, or  *)
(* asleep, is silent for the status deadline.                              *)
SilentPeer == peer.link # "reports" \/ peer.asleep # "none"
Timed(s) == {s} \cup {t \in {Aged(s)} : SilentPeer}

ServiceWaits ==
    /\ Healthy
    /\ \E reply \in Answers :
          LET s == Settled(reply) IN ~s.faulted /\ w' \in Timed(s)
    /\ spi' \in {spi, Pin} /\ (spi' = spi => spi # "done")
    /\ tx' = IF spi = "done" THEN Idle ELSE tx
    /\ UNCHANGED <<peer, host>>

ServiceSends ==
    /\ Healthy /\ Pin = "ready"
    /\ \E reply \in Answers : \E s \in Timed(Settled(reply)) :
          /\ ~s.faulted /\ s.flight = NoPacket
          /\ \E k \in Sendable(s) : w' = Flying(s, k) /\ tx' = Packet(s, k)
    /\ spi' = "transfer" /\ UNCHANGED <<peer, host>>

ExchangeFaults == \* m1_radio_exchange finds the idle peripheral busy
    /\ Glitches # {} /\ Healthy /\ spi = "ready" /\ w.flight = NoPacket
    /\ spi' = "fault" /\ UNCHANGED <<w, tx, peer, host>>

WirelessService ==
    \/ ServiceFails \/ ServiceRefuses \/ ServiceWaits \/ ServiceSends \/ ExchangeFaults

-----------------------------------------------------------------------------
(* The peer and its hosts: not in src/, known from how the code uses them. *)
(* A host that loses its link releases its keys; one that is merely left   *)
(* for another slot keeps what it was last told until it connects anew.    *)
(* `torn` and `stray` are no state of anyone: a status deadline may give   *)
(* up a packet that is on the wire, and what the host hears of it          *)
(* nevertheless is a part of a report, `torn` until a whole one is told,   *)
(* or a consumer usage that is `stray`.                                    *)
Quiet == [list |-> {}, map |-> {}, usage |-> NoUsage, torn |-> "no", stray |-> FALSE]
GivenUp == ~w.linked \* a packet for a host is sent only to a linked one
Told(h, p, late) ==
    CASE p.kind = "keys" ->
            IF p.over THEN h
            ELSE [h EXCEPT !.list = p.list, !.torn = IF late THEN "torn" ELSE IF @ = "no" THEN @ ELSE "mending"]
      [] p.kind = "bitmap" ->
            [h EXCEPT !.map = p.map, !.torn = IF late THEN "torn" ELSE IF @ = "mending" THEN "no" ELSE @]
      [] p.kind = "consumer" -> [h EXCEPT !.usage = p.usage, !.stray = late]
      [] OTHER -> h
Steered(p) ==
    CASE p.kind = "mode" /\ p.arg # peer.mode -> [peer EXCEPT !.mode = p.arg, !.link = "search"]
      [] p.kind = "sleep" -> [peer EXCEPT !.asleep = p.arg]
      [] p.kind = "pair" -> [peer EXCEPT !.link = "pairing"]
      [] OTHER -> peer

WireDone ==
    /\ spi = "transfer" /\ spi' = "done"
    /\ peer' = Steered(tx)
    /\ host' = CASE tx.kind = "pair" -> [host EXCEPT ![peer.mode] = Quiet]
                 [] tx.kind # "pair" /\ peer.link = "reports" ->
                        [host EXCEPT ![peer.mode] = Told(@, tx, GivenUp)]
                 [] OTHER -> host
    /\ UNCHANGED <<w, tx>>

LinkUp ==
    /\ peer.mode # "usb" /\ peer.asleep = "none" /\ peer.link # "reports"
    /\ peer' = [peer EXCEPT !.link = "reports"]
    /\ host' = [host EXCEPT ![peer.mode] = Quiet] /\ UNCHANGED <<w, spi, tx>>
LinkDown ==
    /\ peer.link # "search" /\ peer' = [peer EXCEPT !.link = "search"]
    /\ host' = [host EXCEPT ![peer.mode] = Quiet] /\ UNCHANGED <<w, spi, tx>>

PeerStep == WireDone \/ LinkUp \/ LinkDown

-----------------------------------------------------------------------------
(* The calls of the owner.                                                 *)
RadioInit == \* the pulse on PA15 restarts the peer, which loses its link
    /\ spi \in {"off", "fault"} /\ spi' = "pulse"
    /\ peer' = [peer EXCEPT !.asleep = "none", !.link = "search"]
    /\ host' = [host EXCEPT ![peer.mode] = Quiet]
    /\ tx' = Idle /\ UNCHANGED w
PulseEnds == \* m1_radio_service, called by the owner of the first pulse
    /\ spi = "pulse" /\ spi' = "ready" /\ UNCHANGED <<w, tx, peer, host>>
WirelessInit(m) ==
    /\ ~w.active /\ m # "usb" /\ spi = "ready"
    /\ w' = Session(m) /\ UNCHANGED <<spi, tx, peer, host>>
Stop ==
    /\ w.active
    /\ w' = Stopped(w)
    /\ spi' = "off" /\ tx' = Idle /\ UNCHANGED <<peer, host>>
ResumeRetained ==
    /\ w.sleep = "retain" /\ w.sleepDone /\ LocalIdle
    /\ w' = Session(w.target)
    /\ peer' = [peer EXCEPT !.asleep = "none"]
    /\ UNCHANGED <<spi, tx, host>>

(* m1_wireless_offer: a neutral report is absorbed while the baseline it   *)
(* repeats is still due; a press needs an eligible peer and a free slot.   *)
Absorbed(s, report) ==
    /\ Healthy /\ s.target # "usb" /\ s.sleep = "none" /\ ~Eligible(s)
    /\ s.pending /\ s.committed = Released /\ s.staged = Released /\ report = {}
BugOffers(s) == Eligible(s) /\ (s.pending => s.part = "keys") \* mutant: overwritten in flight
Offers(s) == Eligible(s) /\ ~s.pending
WithReport(s, report) ==
    [s EXCEPT !.staged = Placed(s.committed, report), !.pending = TRUE, !.part = "keys"]
Offer(report) ==
    /\ Offers(w) /\ w' = WithReport(w, report) /\ UNCHANGED <<spi, tx, peer, host>>

TakesUsage(s) == Healthy /\ s.target # "usb" /\ s.sleep = "none" /\ ~s.usagePending
UsageDone(s, u) ==
    IF Eligible(s) THEN s.usageSeen /\ s.usage = u ELSE u = NoUsage /\ s.usage = NoUsage
Consumer(u) ==
    /\ TakesUsage(w) /\ ~UsageDone(w, u) /\ Eligible(w)
    /\ w' = [w EXCEPT !.usageStaged = u, !.usagePending = TRUE]
    /\ UNCHANGED <<spi, tx, peer, host>>

Battery(valid) == \* a new percentage, or none
    /\ Healthy /\ w.sleep = "none" /\ w.target # "usb"
    /\ w' = [w EXCEPT !.battery = IF valid THEN "due" ELSE "none"]
    /\ UNCHANGED <<spi, tx, peer, host>>

Retargeted(m) ==
    [Baseline(w) EXCEPT !.target = m, !.confirmed = FALSE, !.have = FALSE,
                        !.fresh = TRUE, !.state = "search", \* not read without an answer
                        !.modeSent = FALSE, !.linked = FALSE, !.battery = "none",
                        !.pending = m # "usb", !.paired = FALSE]
Select(m) ==
    /\ SwitchReady /\ m # w.target
    /\ w' = Retargeted(m) /\ UNCHANGED <<spi, tx, peer, host>>

RequestPair ==
    /\ w.target # "usb" /\ Selected(w.target) /\ SwitchReady
    /\ w' = [w EXCEPT !.pair = "queued", !.paired = FALSE, !.linked = FALSE, !.confirmed = FALSE,
                      !.have = FALSE, !.battery = "none", !.pending = FALSE]
    /\ UNCHANGED <<spi, tx, peer, host>>

BugMaySleep(command) == \* mutant: held keys are not asked for
    /\ Healthy /\ w.pair = "none" /\ w.sleep = "none" /\ w.flight = NoPacket /\ spi = "ready"
MaySleep(command) ==
    /\ Healthy /\ w.pair = "none" /\ w.flight = NoPacket /\ spi = "ready"
    /\ w.sleep = "none" \/ (w.sleep = "retain" /\ w.sleepDone /\ command = "sleep")
    /\ w.committed = Released /\ w.usage = NoUsage /\ ~w.usagePending
    /\ w.pending => ~w.reports /\ w.staged = Released
    /\ command = "retain" => w.target \notin RfModes /\ Eligible(w)
RequestSleep(command) ==
    /\ MaySleep(command)
    /\ w' = [w EXCEPT !.before = w.sleep, !.sleep = command, !.sleepDone = FALSE,
                      !.pending = FALSE, !.battery = "none"]
    /\ UNCHANGED <<spi, tx, peer, host>>
CancelSleep ==
    /\ Healthy /\ w.sleep # "none" /\ ~w.sleepDone /\ w.flight # "sleep"
    /\ w' = IF w.before # "none"
            THEN [w EXCEPT !.sleep = w.before, !.sleepDone = TRUE, !.before = "none"]
            ELSE [w EXCEPT !.sleep = "none", !.pending = @ \/ ~w.reports,
                           !.part = IF w.reports THEN @ ELSE "keys"]
    /\ UNCHANGED <<spi, tx, peer, host>>

Calls ==
    \/ RadioInit \/ PulseEnds \/ Stop \/ ResumeRetained \/ RequestPair \/ CancelSleep
    \/ \E m \in Modes : WirelessInit(m) \/ Select(m)
    \/ \E report \in SUBSET Keys : Offer(report)
    \/ \E u \in Usages \cup {NoUsage} : Consumer(u)
    \/ \E valid \in BOOLEAN : Battery(valid)
    \/ \E command \in {"sleep", "retain"} : RequestSleep(command)

-----------------------------------------------------------------------------
WirelessInitial ==
    /\ w = [Session("usb") EXCEPT !.active = FALSE, !.pending = FALSE]
    /\ spi = "off" /\ tx = Idle
    /\ peer \in [mode : Modes, link : {"search"}, asleep : {"none"}]
    /\ host = [h \in Modes |-> Quiet]
WirelessNext == WirelessService \/ PeerStep \/ Calls
WirelessSpec == WirelessInitial /\ [][WirelessNext]_wirelessVars

-----------------------------------------------------------------------------
(* What the scheduler promises.                                            *)

(* The host of a served slot holds no key the scheduler does not know it   *)
(* must release: once a baseline counts as sent, the host's keys are among *)
(* the last report and the one being sent (m1_wireless.c committed,        *)
(* staged, reports).  A rollover list leaves the host's list as it was.    *)
HostIsKnown ==
    Healthy /\ w.reports /\ ~w.committed.over /\ peer.mode = w.target
        => Held(peer.mode) \subseteq Carried(w.committed) \cup Carried(w.staged)
HostIsKnownUnlessTorn == host[peer.mode].torn = "no" => HostIsKnown

(* A peer that was told to sleep hears nothing more until it is woken,     *)
(* except that retention may deepen to sleep (m1_wireless.c:305).          *)
SleepingPeerIsLeftAlone ==
    [][spi' = "transfer" /\ spi # "transfer" /\ peer.asleep # "none" => tx'.kind = "sleep"]_wirelessVars

(* A key that both the last report and the next one hold stays down while  *)
(* their two halves are delivered (m1_radio_keyboard.c:15).                *)
HeldKeysStay ==
    [][WireDone /\ tx.kind \in {"keys", "bitmap"} /\ ~w.staged.over =>
         \A k \in Carried(w.committed) \cap Carried(w.staged) :
            k \in Held(peer.mode) => k \in (host'[peer.mode].list \cup host'[peer.mode].map)]_wirelessVars

(* A peer goes to sleep only with the keys of the host it serves released. *)
AsleepMeansReleased ==
    host[peer.mode].torn = "no" /\ Healthy /\ peer.asleep # "none" /\ peer.link = "reports"
        => Held(peer.mode) = {}
=============================================================================
