---------------------------- MODULE M1PowerProofs ----------------------------
(***************************************************************************)
(* Proofs about the M1's acquisition and power for every number of banks,  *)
(* length of the frame queue and set of radios.  The only assumption is    *)
(* ScanConstants.                                                          *)
(*                                                                         *)
(* The invariant, PowerInv, says phase by phase what the owner may rely on: *)
(* which peripherals are on, what the radio's session is doing, where the  *)
(* application stands and what the frame queue holds.  Every step but the  *)
(* interrupts and the taking of a frame is shown to keep OwnerInv and to   *)
(* leave the queue alone or empty; the others are shown to keep FrameInv.  *)
(***************************************************************************)
EXTENDS M1Power, TLAPS

-----------------------------------------------------------------------------
(* Types: what the fields can hold, once and for all states.               *)
OwnerStates ==
    BootStates \cup
    {"awake", "drain", "blank", "peer", "settle", "sleep", "stamp", "settling", "capture", "deepen",
     "rgpio", "rrails", "rsettle", "rradio", "rlink", "source", "failed", "halted"}
AllModes == Modes \cup {DefaultRadio}
Commands == {"none", "sleep", "retain"}

QueueTypes ==
    [busy : BOOLEAN, next : Nat, pending : 0 .. QueueFrames, head : 0 .. QueueFrames - 1,
     ring : [0 .. QueueFrames - 1 -> 0 .. Old], noise : BOOLEAN]
ReaderTypes ==
    [taken : BOOLEAN, seen : BOOLEAN, told : 0 .. Old, frame : 0 .. Old, gap : BOOLEAN, hole : BOOLEAN]
FrameTypeOK == q \in QueueTypes /\ r \in ReaderTypes

OwnerTypes ==
    [state : OwnerStates, ext : BOOLEAN, retained : BOOLEAN, scanned : BOOLEAN,
     cmd : Commands, committed : BOOLEAN, last : AllModes \ {"usb"}]
SourceTypes ==
    [state : {"off", "drain", "stable", "phy", "rtc", "stamp", "link", "restore"},
     cand : BOOLEAN, sel : BOOLEAN, starting : BOOLEAN]
LiveTypes ==
    [state : {"off", "awake", "draining", "parked"}, mode : AllModes,
     choice : AllModes \cup {"none"}, tried : BOOLEAN, abandoned : BOOLEAN]
WlTypes ==
    [on : BOOLEAN, mode : AllModes, confirmed : BOOLEAN, fresh : BOOLEAN, link : BOOLEAN,
     sleep : Commands, done : BOOLEAN, before : Commands, flying : BOOLEAN]
BoardTypes ==
    [lights : {"stopped", "latch", "ready", "transfer"}, led : BOOLEAN, sensor : BOOLEAN,
     radio : {"off", "pulse", "ready", "busy"}, usb : BOOLEAN, reduced : BOOLEAN,
     prepared : BOOLEAN, rtc : {"off", "measuring", "ready"}]
PowerTypeOK ==
    /\ hal \in {"off", "idle", "run", "paused", "single", "done"}
    /\ cable \in BOOLEAN /\ peer \in {"linked", "searching", "silent"}
    /\ p \in OwnerTypes /\ src \in SourceTypes /\ live \in LiveTypes
    /\ wl \in WlTypes /\ b \in BoardTypes

-----------------------------------------------------------------------------
(* The frame queue: the i-th waiting frame is the i-th oldest, so the      *)
(* number derived from `pending` is the frame's; and a hole the reader has *)
(* not judged yet shows in the numbers it was told.                        *)
InSequence(k) == \A i \in 0 .. k.pending - 1 : k.ring[(k.head + i) % QueueFrames] = k.pending - 1 - i
RingIsItsSequence == InSequence(q)
FrameInv ==
    /\ FrameTypeOK
    /\ RingIsItsSequence
    /\ r.frame = r.told
    /\ r.hole => r.taken
    /\ r.hole /\ r.seen => r.gap

-----------------------------------------------------------------------------
(* Where the sensors are on.  NoProducerOutlivesItsRail alone is not       *)
(* inductive: a scan is started in phases that trust the rails to be up.   *)
Sensing ==
    {"bsettle", "bcapture", "bstart", "bscan", "blinks", "bradio", "bapp", "awake", "drain", "blank",
     "peer", "settling", "capture", "rsettle", "rradio", "rlink", "source"}
RailInv ==
    /\ NoProducerOutlivesItsRail
    /\ p.state \in Sensing => b.sensor
    /\ p.state = "busb" => ~b.reduced

-----------------------------------------------------------------------------
(* The owner's phases, from awake down into sleep and up again.            *)
Asleep == {"settle", "sleep", "stamp", "settling", "capture"}
Restoring == {"rgpio", "rrails", "rsettle"}
Parting == {"drain", "blank", "peer"}
Rising == {"rradio", "rlink"}
OnBattery == Parting \cup Asleep \cup {"deepen"} \cup Restoring \cup Rising
In(state) == p.state = "source" /\ src.state = state
Past(states) == p.state = "source" /\ src.state \in states

(* The radio's bus and its session: no session without its bus, a sleep    *)
(* command only where the owner has asked for it, and asleep either a      *)
(* retained link or a bus that is off.                                     *)
BusOK(k, radio) ==
    /\ k.on <=> radio \in {"ready", "busy"}
    /\ k.sleep = "none" => ~k.done /\ ~k.flying /\ k.before = "none"
    /\ k.sleep # "none" => k.on /\ (radio = "busy" <=> k.flying) /\ ~(k.done /\ k.flying)
    /\ ~k.on => k.sleep = "none"
Retains(k) == k.on /\ k.sleep = "retain" /\ k.done
RadioInv ==
    /\ BusOK(wl, b.radio)
    /\ wl.sleep # "none" => p.state \in {"peer", "deepen"} \cup Asleep \cup Restoring
    /\ p.state = "peer" => wl.sleep = p.cmd /\ wl.before = "none" /\ p.cmd # "none"
    /\ p.state = "deepen" => wl.sleep = "sleep" /\ wl.before = "retain" /\ p.retained /\ p.cmd = "sleep"
    /\ p.state \in Asleep \cup Restoring => IF p.retained THEN Retains(wl) ELSE ~wl.on /\ b.radio = "off"
    /\ p.state = "rradio" => ~wl.on
    /\ p.state \in {"drain", "blank"} => p.cmd # "none"
    /\ b.radio = "pulse" =>
          \/ p.state \in {"bradio", "rradio"} \/ (p.state = "awake" /\ live.tried)
          \/ (In("link") /\ src.starting)
    /\ p.state \in {"failed", "halted"} \cup (BootStates \ {"bapp"}) => ~wl.on

(* The application: it runs awake, drains, and is parked from there until  *)
(* it is resumed; only an awake one has a choice of transport open, and    *)
(* never USB without the cable.                                            *)
LiveInv ==
    /\ live.tried => live.choice # "none" /\ p.state = "awake"
    /\ p.state = "awake" => live.state = "awake"
    /\ p.state = "drain" \/ In("drain") => live.state = "draining"
    /\ p.state \in (OnBattery \ {"drain"}) \/ (p.state = "source" /\ src.state # "drain") => live.state = "parked"
    /\ p.state # "awake" => live.choice = "none"
    /\ p.state = "awake" /\ ~p.ext => live.mode # "usb" /\ live.choice # "usb"
    /\ p.state \in OnBattery => live.mode # "usb" /\ ~p.ext

(* Supplies, lights, USB, pins and clock, phase by phase: what makes       *)
(* Quiet, Dozes and the guards of every HAL call true when they are asked. *)
BoardInv ==
    /\ p.state \in {"brtc", "bsleep", "brails", "bsettle", "bcapture", "brestore"} => ~p.ext
    /\ p.state = "busb" => p.ext
    /\ p.state \in {"awake", "bpower", "bstart", "bscan", "blinks", "bradio", "bapp"} => b.usb = p.ext
    /\ p.state \in OnBattery => ~b.usb
    /\ Past({"drain", "stable", "phy"}) => ~b.usb
    /\ Past({"rtc", "stamp", "link", "restore"}) => b.usb = src.sel
    /\ b.prepared => p.state \in {"brtc", "bsleep", "brails", "bsettle", "bcapture", "brestore", "busb", "deepen",
                                "rgpio", "failed", "halted"}
                       \cup Asleep
    /\ p.state \in {"awake", "bsleep", "brails", "bsettle", "bcapture", "brestore", "bpower", "bstart", "bscan",
                    "blinks", "bradio", "bapp"} \cup OnBattery
          /\ ~p.ext => b.rtc = "ready"
    /\ Past({"stamp", "link", "restore"}) /\ ~src.sel => b.rtc = "ready"
    /\ p.state \in Asleep \cup {"deepen"} => b.reduced
    /\ p.state \in Asleep \cup {"deepen", "peer"} => ~b.led
    /\ p.state \in Asleep \cup {"deepen", "peer", "rgpio"} => b.lights = "stopped"
    /\ p.state = "rlink" => b.lights # "stopped"
    /\ p.state = "rradio" => b.lights # "stopped"
    /\ p.state = "rsettle" => b.lights # "stopped"
    /\ Past({"stable", "phy", "rtc", "stamp"}) => b.lights = "stopped"
    /\ In("restore") => b.lights = "ready"

(* The change of source: what it settled on, and the radio it waits for.   *)
SourceInv ==
    /\ p.state = "source" => src.state # "off"
    /\ src.state # "off" => p.state = "source"
    /\ p.state = "source" /\ ~src.cand /\ live.mode = "usb" => live.abandoned
    /\ Past({"phy", "rtc", "stamp", "link", "restore"}) => src.sel = src.cand
    /\ src.starting => In("link")
    /\ In("link") /\ src.starting => b.radio = "pulse"
    /\ In("restore") /\ Target # "usb" => Selected(wl, Target)

(* The scanner and the capture's queue, phase by phase: a capture leaves   *)
(* exactly one frame, numbered after the one before.                       *)
HalInv ==
    /\ p.state \in {"blank", "peer"} \/ (p.state = "source" /\ src.state # "drain") => hal = "paused"
    /\ p.state \in {"settle", "rgpio", "rrails"} => hal = "off"
    /\ p.state \in {"rsettle", "rradio", "rlink"} => hal = "idle"
    /\ p.state = "sleep" => hal = IF p.scanned THEN "done" ELSE "off"
    /\ p.state = "deepen" => hal = IF p.scanned THEN "done" ELSE "off"
    /\ p.state = "stamp" => hal \in IF p.scanned THEN {"idle", "done"} ELSE {"off"}
    /\ p.state = "settling" => hal \in {"idle", "done"}
    /\ p.state = "capture" => hal \in {"single", "done", "off"}
    /\ p.state \in {"settle", "sleep", "stamp", "settling", "deepen"} => q.pending = 0
    /\ p.state = "settle" => ~p.scanned
    /\ p.state \in {"settling", "capture"} => p.scanned
    /\ p.state = "capture" /\ hal = "single" => q.pending = 0
    /\ p.state = "capture" /\ hal = "done" => q.pending = 1
    /\ p.state \in Parting \cup {"settle"} => ~r.seen
    /\ p.state \in {"sleep", "stamp", "settling", "deepen"} /\ r.seen => r.told = 0
    /\ p.state = "capture" /\ r.seen => (hal = "single" => r.told = 0) /\ (hal = "done" => r.told = 1)
    /\ p.state \in Asleep => p.committed
    /\ r.taken => p.state = "awake"

(* The inductive invariant.                                                *)
OwnerInv == PowerTypeOK /\ RailInv /\ RadioInv /\ LiveInv /\ BoardInv /\ SourceInv /\ HalInv
PowerInv == FrameInv /\ OwnerInv
-----------------------------------------------------------------------------
(* The records the actions build.                                          *)
USE DEF Asleep, Restoring, Parting, Rising, OnBattery, In, Past, Sensing, BootStates, OwnerStates, Commands

LEMMA DefaultIsARadio == DefaultRadio \in AllModes /\ DefaultRadio # "usb"
BY DEF DefaultRadio, AllModes

LEMMA NoSessionIsOff ==
    /\ NoSession \in WlTypes /\ ~NoSession.on /\ ~NoSession.done /\ ~NoSession.flying
    /\ NoSession.sleep = "none" /\ NoSession.before = "none"
BY DEF NoSession, WlTypes, AllModes, Modes

LEMMA SessionIsNew ==
    ASSUME NEW m \in AllModes
    PROVE  /\ Session(m) \in WlTypes /\ Session(m).on /\ Session(m).mode = m
           /\ ~Session(m).done /\ ~Session(m).flying
           /\ Session(m).sleep = "none" /\ Session(m).before = "none"
BY DEF Session, NoSession, WlTypes

LEMMA OwnerMoves ==
    ASSUME NEW owner \in OwnerTypes
    PROVE  [owner EXCEPT !.state = "settling"] \in OwnerTypes /\ [owner EXCEPT !.scanned = TRUE] \in OwnerTypes
BY DEF OwnerTypes

LEMMA UsbStoppedBoard ==
    ASSUME NEW x \in BoardTypes
    PROVE  /\ UsbStopped(x) \in BoardTypes
           /\ ~UsbStopped(x).usb
           /\ ~x.usb => UsbStopped(x) = x
           /\ UsbStopped(x).lights = x.lights /\ UsbStopped(x).led = x.led
           /\ UsbStopped(x).sensor = x.sensor /\ UsbStopped(x).radio = x.radio
           /\ UsbStopped(x).prepared = x.prepared /\ UsbStopped(x).rtc = x.rtc
BY DEF UsbStopped, BoardTypes

LEMMA SuspendedLive ==
    ASSUME live \in LiveTypes, NEW unplugged \in BOOLEAN
    PROVE  /\ Suspended(unplugged) \in LiveTypes
           /\ Suspended(unplugged).state = IF live.state = "awake" THEN "draining" ELSE live.state
           /\ Suspended(unplugged).mode = live.mode /\ Suspended(unplugged).choice = "none"
           /\ Suspended(unplugged).tried = live.tried
           /\ live.abandoned => Suspended(unplugged).abandoned
           /\ unplugged /\ live.mode = "usb" => Suspended(unplugged).abandoned
<1>1. (live.abandoned \/ (unplugged /\ live.mode = "usb")) \in BOOLEAN
  OBVIOUS
<1> QED BY <1>1 DEF Suspended, LiveTypes

LEMMA DownBoard ==
    ASSUME NEW x \in BoardTypes
    PROVE  /\ Down(x) \in BoardTypes
           /\ Down(x).lights = "stopped" /\ Down(x).radio = "off"
           /\ Down(x).usb = x.usb /\ Down(x).reduced = x.reduced /\ Down(x).prepared = x.prepared
<1>1. (x.led /\ x.usb) \in BOOLEAN /\ (x.sensor /\ x.usb) \in BOOLEAN
  BY DEF BoardTypes
<1> QED BY <1>1 DEF Down, Dark, BoardTypes

(* A session between two of the HAL's transfers.                           *)
Landing(k) == k.on /\ ~k.flying /\ (k.sleep = "none" => ~k.done /\ k.before = "none")

LEMMA StartedBus ==
    ASSUME NEW n \in WlTypes, Landing(n), NEW z \in Started(n)
    PROVE  /\ z[1] \in WlTypes /\ z[2] \in {"ready", "busy"} /\ BusOK(z[1], z[2])
           /\ z[1].on /\ z[1].mode = n.mode /\ z[1].sleep = n.sleep /\ z[1].before = n.before
           /\ n.done => z = <<n, "ready">>
<1>1. CASE n.sleep = "none"
  BY <1>1 DEF Started, BusOK, Landing
<1>2. CASE n.sleep # "none" /\ n.done
  BY <1>2 DEF Started, BusOK, Landing
<1>3. CASE n.sleep # "none" /\ ~n.done
  <2>1. z[1] = [n EXCEPT !.flying = TRUE] /\ z[2] = "busy"
    BY <1>3 DEF Started
  <2>2. z[1] \in WlTypes /\ z[1].flying /\ z[1].on /\ ~z[1].done /\ z[1].mode = n.mode /\ z[1].sleep = n.sleep
        /\ z[1].before = n.before
    BY <2>1, <1>3 DEF WlTypes, Landing
  <2> QED BY <1>3, <2>1, <2>2 DEF BusOK
<1> QED BY <1>1, <1>2, <1>3

LEMMA LandedSession ==
    ASSUME NEW k \in WlTypes, BusOK(k, "busy"), NEW n \in Landed(k)
    PROVE  /\ n \in WlTypes /\ Landing(n)
           /\ n.sleep = k.sleep /\ n.before = k.before /\ n.mode = k.mode
<1>1. k.on /\ (k.flying => ~k.done) /\ (k.sleep = "none" => ~k.flying /\ ~k.done)
  BY DEF BusOK
<1>2. CASE k.flying
  BY <1>1, <1>2 DEF Landed, WlTypes, BusOK, Landing
<1>3. CASE ~k.flying
  <2>1. (k.mode # "usb" /\ peer = "linked") \in BOOLEAN
    OBVIOUS
  <2>2. n = [k EXCEPT !.fresh = FALSE, !.link = FALSE] \/ n = k
        \/ n = [k EXCEPT !.confirmed = TRUE, !.fresh = TRUE, !.link = k.mode # "usb" /\ peer = "linked"]
    BY <1>3 DEF Landed, Heard
  <2>3. n \in WlTypes /\ n.on = k.on /\ n.flying = k.flying /\ n.done = k.done /\ n.sleep = k.sleep
        /\ n.before = k.before /\ n.mode = k.mode
    BY <2>1, <2>2 DEF WlTypes
  <2> QED BY <1>1, <1>3, <2>3 DEF BusOK, Landing
<1> QED BY <1>2, <1>3

LEMMA ServedBus ==
    ASSUME NEW k \in WlTypes, NEW radio \in {"off", "pulse", "ready", "busy"}, BusOK(k, radio),
           NEW s \in Served(k, radio)
    PROVE  /\ s[1] \in WlTypes /\ s[2] \in {"off", "pulse", "ready", "busy"}
           /\ BusOK(s[1], s[2])
           /\ s[1].on = k.on /\ s[1].mode = k.mode /\ s[1].sleep = k.sleep /\ s[1].before = k.before
           /\ ~k.on => s[2] = radio
           /\ k.done => s = <<k, radio>>
<1>1. CASE ~k.on
  BY <1>1 DEF Served, BusOK
<1>3. CASE k.on /\ radio # "busy"
  <2>1. ~k.flying /\ radio = "ready" /\ Landing(k)
    BY <1>3 DEF BusOK, Landing, WlTypes
  <2>2. s = <<k, radio>> \/ s \in Started(k)
    BY <1>3 DEF Served
  <2>3. CASE s = <<k, radio>>
    BY <1>3, <2>1, <2>3
  <2>4. CASE s \in Started(k)
    <3>1. /\ s[1] \in WlTypes /\ s[2] \in {"ready", "busy"} /\ BusOK(s[1], s[2])
          /\ s[1].on /\ s[1].mode = k.mode /\ s[1].sleep = k.sleep /\ s[1].before = k.before
          /\ k.done => s = <<k, "ready">>
      BY <2>1, <2>4, StartedBus
    <3>2. s[1].on = k.on
      BY <1>3, <3>1 DEF WlTypes
    <3> QED BY <1>3, <2>1, <3>1, <3>2
  <2> QED BY <2>2, <2>3, <2>4
<1>4. CASE k.on /\ radio = "busy"
  <2>1. ~k.done
    BY <1>4 DEF BusOK
  <2>3. s = <<k, radio>> \/ \E n \in Landed(k) : s \in Started(n)
    BY <1>4 DEF Served
  <2>4. CASE s = <<k, radio>>
    BY <1>4, <2>1, <2>4
  <2>5. ASSUME NEW n \in Landed(k), s \in Started(n)
        PROVE  /\ s[1] \in WlTypes /\ s[2] \in {"off", "pulse", "ready", "busy"}
               /\ BusOK(s[1], s[2])
               /\ s[1].on = k.on /\ s[1].mode = k.mode /\ s[1].sleep = k.sleep /\ s[1].before = k.before
    <3>1. n \in WlTypes /\ Landing(n) /\ n.sleep = k.sleep /\ n.before = k.before /\ n.mode = k.mode
      BY <1>4, LandedSession
    <3>2. /\ s[1] \in WlTypes /\ s[2] \in {"ready", "busy"} /\ BusOK(s[1], s[2])
          /\ s[1].on /\ s[1].mode = n.mode /\ s[1].sleep = n.sleep /\ s[1].before = n.before
      BY <2>5, <3>1, StartedBus
    <3>3. s[1].on = k.on
      BY <1>4, <3>2 DEF WlTypes
    <3> QED BY <3>1, <3>2, <3>3
  <2> QED BY <1>4, <2>1, <2>3, <2>4, <2>5
<1> QED BY <1>1, <1>3, <1>4 DEF BusOK
-----------------------------------------------------------------------------
(* The owner's end, and the start of every restoration.                    *)
LEMMA EndsKeepInv ==
    ASSUME PowerInv, NEW final \in {"failed", "halted"}, NEW x \in BoardTypes,
           x.usb => ~x.prepared /\ ~x.reduced, Ends(final, x), cable' \in BOOLEAN
    PROVE  OwnerInv' /\ p'.state = final
<1>1. /\ p' \in OwnerTypes /\ p'.state = final /\ hal' = "off" /\ wl' = NoSession /\ b' = Down(x)
      /\ live' = LiveOff /\ src' = SrcOff /\ r' = Unread /\ q' = Flushed(q) /\ peer' = peer
  BY DEF Ends, PowerInv, OwnerInv, PowerTypeOK, OwnerTypes
<1>2. live' \in LiveTypes /\ live'.state = "off" /\ ~live'.tried /\ live'.choice = "none"
  BY <1>1 DEF LiveOff, LiveTypes, AllModes, Modes
<1>3. src' \in SourceTypes /\ src'.state = "off" /\ ~src'.starting
  BY <1>1 DEF SrcOff, SourceTypes
<1>4. ~r'.taken /\ ~r'.seen
  BY <1>1 DEF Unread
<1>5. /\ b' \in BoardTypes /\ b'.lights = "stopped" /\ b'.radio = "off"
      /\ b'.usb => ~b'.prepared /\ ~b'.reduced
  BY <1>1, DownBoard
<1>6. PowerTypeOK'
  BY <1>1, <1>2, <1>3, <1>5, NoSessionIsOff DEF PowerInv, OwnerInv, PowerTypeOK
<1>7. RailInv' /\ RadioInv'
  BY <1>1, <1>5, NoSessionIsOff DEF RailInv, NoProducerOutlivesItsRail, RadioInv, BusOK
<1>8. LiveInv' /\ BoardInv'
  BY <1>1, <1>2, <1>5 DEF LiveInv, BoardInv
<1>9. SourceInv' /\ HalInv'
  BY <1>1, <1>3, <1>4 DEF SourceInv, HalInv
<1> QED BY <1>1, <1>6, <1>7, <1>8, <1>9 DEF OwnerInv

LEMMA FailsKeepsInv ==
    ASSUME PowerInv, Fails, cable' \in BOOLEAN
    PROVE  OwnerInv' /\ p'.state = "failed"
<1>1. b \in BoardTypes /\ (b.usb => ~b.prepared /\ ~b.reduced)
  BY DEF PowerInv, OwnerInv, PowerTypeOK, RailInv, NoProducerOutlivesItsRail
<1> QED BY <1>1, EndsKeepInv DEF Fails, FailsWith

(* What a restoration starts from: parked, dark and without USB.           *)
Restorable(owner, k, x) ==
    /\ owner \in OwnerTypes /\ ~owner.ext
    /\ k \in WlTypes /\ BusOK(k, x.radio)
    /\ IF owner.retained THEN Retains(k) ELSE ~k.on /\ x.radio = "off"
    /\ x \in BoardTypes /\ x.lights = "stopped" /\ ~x.usb /\ x.rtc = "ready"
    /\ live.state = "parked" /\ live.mode # "usb" /\ live.choice = "none" /\ ~live.tried
    /\ src.state = "off" /\ ~src.starting /\ ~r.taken

LEMMA RestoreKeepsInv ==
    ASSUME PowerInv, NEW owner, NEW k, NEW x, Restorable(owner, k, x),
           Restore(owner, k, x), cable' \in BOOLEAN
    PROVE  OwnerInv' /\ p'.state = "rgpio"
<1>1. /\ p' \in OwnerTypes /\ p'.state = "rgpio" /\ p'.ext = owner.ext /\ p'.retained = owner.retained
      /\ hal' = "off" /\ wl' = k /\ q' = Flushed(q) /\ r' = r /\ peer' = peer /\ src' = src /\ live' = live
  BY DEF Restore, HalStopped, Restorable, OwnerTypes
<1>2. /\ b' \in BoardTypes /\ b'.lights = x.lights /\ b'.radio = x.radio /\ b'.usb = x.usb /\ b'.rtc = x.rtc
  BY DEF Restore, Restorable, Unpowered, BoardTypes
<1>3. PowerTypeOK'
  BY <1>1, <1>2 DEF PowerInv, OwnerInv, PowerTypeOK, Restorable
<1>4. RailInv' /\ RadioInv'
  BY <1>1, <1>2 DEF RailInv, NoProducerOutlivesItsRail, RadioInv, Retains, Restorable, BusOK
<1>5. LiveInv' /\ BoardInv'
  BY <1>1, <1>2 DEF LiveInv, BoardInv, Restorable
<1>6. SourceInv' /\ HalInv'
  BY <1>1, <1>2 DEF SourceInv, HalInv, Restorable
<1> QED BY <1>1, <1>3, <1>4, <1>5, <1>6 DEF OwnerInv

(* Asleep, the supplies are as Descends left them.                         *)
LEMMA AsleepIsRestorable ==
    ASSUME PowerInv, p.state \in Asleep
    PROVE  Restorable(p, wl, b)
BY DEF PowerInv, OwnerInv, PowerTypeOK, RadioInv, LiveInv, BoardInv, SourceInv, HalInv, Restorable
-----------------------------------------------------------------------------
(* The owner gives up only for cause.                                      *)
Blameless ==
    p.state # "failed" /\ p'.state = "failed"
        => ScanBroke \/ CableCause \/ peer = "silent" \/ HostLeft

LEMMA BootClockKeepsInv ==
    ASSUME PowerInv, BootClock PROVE OwnerInv' /\ Blameless
<1> USE DEF PowerInv, OwnerInv, PowerTypeOK, BootClock, Boot, Goes, BootKeeps, Calm
<1>1. PowerTypeOK'
  BY DEF OwnerTypes, BoardTypes
<1> USE DEF OwnerTypes, SourceTypes, LiveTypes, WlTypes, BoardTypes
<1>2. RailInv'
  BY DEF RailInv, NoProducerOutlivesItsRail
<1>3. RadioInv'
  BY DEF RadioInv, BusOK, Retains, LiveInv
<1>4. LiveInv'
  BY DEF LiveInv
<1>5. BoardInv'
  BY DEF BoardInv
<1>6. SourceInv'
  BY DEF SourceInv, Target, Selected
<1>7. HalInv'
  BY DEF HalInv
<1>8. Blameless
  BY DEF Blameless
<1> QED BY <1>1, <1>2, <1>3, <1>4, <1>5, <1>6, <1>7, <1>8

LEMMA BootSleepsKeepsInv ==
    ASSUME PowerInv, BootSleeps PROVE OwnerInv' /\ Blameless
<1> USE DEF PowerInv, OwnerInv, PowerTypeOK, BootSleeps, Boot, Goes, BootKeeps, Calm
<1>1. PowerTypeOK'
  BY DEF OwnerTypes
<1> USE DEF OwnerTypes, SourceTypes, LiveTypes, WlTypes, BoardTypes
<1>2. RailInv'
  BY DEF RailInv, NoProducerOutlivesItsRail
<1>3. RadioInv'
  BY DEF RadioInv, BusOK, Retains, LiveInv
<1>4. LiveInv'
  BY DEF LiveInv
<1>5. BoardInv'
  BY DEF BoardInv
<1>6. SourceInv'
  BY DEF SourceInv, Target, Selected
<1>7. HalInv'
  BY DEF HalInv
<1>8. Blameless
  BY DEF Blameless
<1> QED BY <1>1, <1>2, <1>3, <1>4, <1>5, <1>6, <1>7, <1>8

LEMMA BootRailsKeepsInv ==
    ASSUME PowerInv, BootRails PROVE OwnerInv' /\ Blameless
<1> USE DEF PowerInv, OwnerInv, PowerTypeOK, BootRails, Boot, Goes, BootKeeps, Calm, Empty
<1>1. PowerTypeOK'
  BY DEF OwnerTypes, BoardTypes
<1> USE DEF OwnerTypes, SourceTypes, LiveTypes, WlTypes, BoardTypes
<1>2. RailInv'
  BY DEF RailInv, NoProducerOutlivesItsRail
<1>3. RadioInv'
  BY DEF RadioInv, BusOK, Retains, LiveInv
<1>4. LiveInv'
  BY DEF LiveInv
<1>5. BoardInv'
  BY DEF BoardInv
<1>6. SourceInv'
  BY DEF SourceInv, Target, Selected
<1>7. HalInv'
  BY DEF HalInv
<1>8. Blameless
  BY DEF Blameless
<1> QED BY <1>1, <1>2, <1>3, <1>4, <1>5, <1>6, <1>7, <1>8

LEMMA BootCapturesKeepsInv ==
    ASSUME PowerInv, BootCaptures PROVE OwnerInv' /\ Blameless
<1> USE DEF PowerInv, OwnerInv, PowerTypeOK, BootCaptures, Boot, Goes, BootKeeps, Calm
<1>1. PowerTypeOK'
  BY DEF OwnerTypes
<1> USE DEF OwnerTypes, SourceTypes, LiveTypes, WlTypes, BoardTypes
<1>2. RailInv'
  BY DEF RailInv, NoProducerOutlivesItsRail
<1>3. RadioInv'
  BY DEF RadioInv, BusOK, Retains, LiveInv
<1>4. LiveInv'
  BY DEF LiveInv
<1>5. BoardInv'
  BY DEF BoardInv
<1>6. SourceInv'
  BY DEF SourceInv, Target, Selected
<1>7. HalInv'
  BY DEF HalInv
<1>8. Blameless
  BY DEF Blameless
<1> QED BY <1>1, <1>2, <1>3, <1>4, <1>5, <1>6, <1>7, <1>8

LEMMA BootCapturedKeepsInv ==
    ASSUME PowerInv, BootCaptured PROVE OwnerInv' /\ Blameless
<1> USE DEF PowerInv, OwnerInv, PowerTypeOK, BootCaptured, Boot, Goes, BootKeeps, Calm, Unpowered, Flushed
<1>1. PowerTypeOK'
  BY DEF OwnerTypes, BoardTypes
<1> USE DEF OwnerTypes, SourceTypes, LiveTypes, WlTypes, BoardTypes
<1>2. RailInv'
  BY DEF RailInv, NoProducerOutlivesItsRail
<1>3. RadioInv'
  BY DEF RadioInv, BusOK, Retains, LiveInv
<1>4. LiveInv'
  BY DEF LiveInv
<1>5. BoardInv'
  BY DEF BoardInv
<1>6. SourceInv'
  BY DEF SourceInv, Target, Selected
<1>7. HalInv'
  BY DEF HalInv
<1>8. Blameless
  BY DEF Blameless
<1> QED BY <1>1, <1>2, <1>3, <1>4, <1>5, <1>6, <1>7, <1>8

LEMMA BootRestoresKeepsInv ==
    ASSUME PowerInv, BootRestores PROVE OwnerInv' /\ Blameless
<1> USE DEF PowerInv, OwnerInv, PowerTypeOK, BootRestores, Boot, Goes, BootKeeps, Calm
<1>1. PowerTypeOK'
  BY DEF OwnerTypes, BoardTypes
<1> USE DEF OwnerTypes, SourceTypes, LiveTypes, WlTypes, BoardTypes
<1>2. RailInv'
  BY DEF RailInv, NoProducerOutlivesItsRail
<1>3. RadioInv'
  BY DEF RadioInv, BusOK, Retains, LiveInv
<1>4. LiveInv'
  BY DEF LiveInv
<1>5. BoardInv'
  BY DEF BoardInv, Quiet
<1>6. SourceInv'
  BY DEF SourceInv, Target, Selected
<1>7. HalInv'
  BY DEF HalInv
<1>8. Blameless
  BY DEF Blameless
<1> QED BY <1>1, <1>2, <1>3, <1>4, <1>5, <1>6, <1>7, <1>8

LEMMA BootUsbKeepsInv ==
    ASSUME PowerInv, BootUsb PROVE OwnerInv' /\ Blameless
<1> USE DEF PowerInv, OwnerInv, PowerTypeOK, BootUsb, Boot, Goes, BootKeeps, Calm
<1>1. PowerTypeOK'
  BY DEF OwnerTypes, BoardTypes
<1> USE DEF OwnerTypes, SourceTypes, LiveTypes, WlTypes, BoardTypes
<1>2. RailInv'
  BY DEF RailInv, NoProducerOutlivesItsRail
<1>3. RadioInv'
  BY DEF RadioInv, BusOK, Retains, LiveInv
<1>4. LiveInv'
  BY DEF LiveInv
<1>5. BoardInv'
  BY DEF BoardInv
<1>6. SourceInv'
  BY DEF SourceInv, Target, Selected
<1>7. HalInv'
  BY DEF HalInv
<1>8. Blameless
  BY DEF Blameless
<1> QED BY <1>1, <1>2, <1>3, <1>4, <1>5, <1>6, <1>7, <1>8

LEMMA BootPowerKeepsInv ==
    ASSUME PowerInv, BootPower PROVE OwnerInv' /\ Blameless
<1> USE DEF PowerInv, OwnerInv, PowerTypeOK, BootPower, Boot, Goes, BootKeeps, Calm, Lit, Empty
<1>1. PowerTypeOK'
  BY DEF OwnerTypes, BoardTypes
<1> USE DEF OwnerTypes, SourceTypes, LiveTypes, WlTypes, BoardTypes
<1>2. RailInv'
  BY DEF RailInv, NoProducerOutlivesItsRail
<1>3. RadioInv'
  BY DEF RadioInv, BusOK, Retains, LiveInv
<1>4. LiveInv'
  BY DEF LiveInv
<1>5. BoardInv'
  BY DEF BoardInv
<1>6. SourceInv'
  BY DEF SourceInv, Target, Selected
<1>7. HalInv'
  BY DEF HalInv
<1>8. Blameless
  BY DEF Blameless
<1> QED BY <1>1, <1>2, <1>3, <1>4, <1>5, <1>6, <1>7, <1>8

LEMMA BootStartKeepsInv ==
    ASSUME PowerInv, BootStart PROVE OwnerInv' /\ Blameless
<1> USE DEF PowerInv, OwnerInv, PowerTypeOK, BootStart, Boot, Goes, BootKeeps, Calm, LightServed
<1>1. PowerTypeOK'
  BY DEF OwnerTypes, BoardTypes
<1> USE DEF OwnerTypes, SourceTypes, LiveTypes, WlTypes, BoardTypes
<1>2. RailInv'
  BY DEF RailInv, NoProducerOutlivesItsRail
<1>3. RadioInv'
  BY DEF RadioInv, BusOK, Retains, LiveInv
<1>4. LiveInv'
  BY DEF LiveInv
<1>5. BoardInv'
  BY DEF BoardInv
<1>6. SourceInv'
  BY DEF SourceInv, Target, Selected
<1>7. HalInv'
  BY DEF HalInv
<1>8. Blameless
  BY DEF Blameless
<1> QED BY <1>1, <1>2, <1>3, <1>4, <1>5, <1>6, <1>7, <1>8

LEMMA BootScanKeepsInv ==
    ASSUME PowerInv, BootScan PROVE OwnerInv' /\ Blameless
<1> USE DEF PowerInv, OwnerInv, PowerTypeOK, BootScan, Boot, Goes, BootKeeps, Calm
<1>1. PowerTypeOK'
  BY DEF OwnerTypes
<1> USE DEF OwnerTypes, SourceTypes, LiveTypes, WlTypes, BoardTypes
<1>2. RailInv'
  BY DEF RailInv, NoProducerOutlivesItsRail
<1>3. RadioInv'
  BY DEF RadioInv, BusOK, Retains, LiveInv
<1>4. LiveInv'
  BY DEF LiveInv
<1>5. BoardInv'
  BY DEF BoardInv
<1>6. SourceInv'
  BY DEF SourceInv, Target, Selected
<1>7. HalInv'
  BY DEF HalInv
<1>8. Blameless
  BY DEF Blameless
<1> QED BY <1>1, <1>2, <1>3, <1>4, <1>5, <1>6, <1>7, <1>8

LEMMA BootLinksKeepsInv ==
    ASSUME PowerInv, BootLinks PROVE OwnerInv' /\ Blameless
<1> USE DEF PowerInv, OwnerInv, PowerTypeOK, BootLinks, Boot, Goes, BootKeeps, Calm
<1>1. PowerTypeOK'
  BY DEF OwnerTypes, BoardTypes
<1> USE DEF OwnerTypes, SourceTypes, LiveTypes, WlTypes, BoardTypes
<1>2. RailInv'
  BY DEF RailInv, NoProducerOutlivesItsRail
<1>3. RadioInv'
  BY DEF RadioInv, BusOK, Retains, LiveInv
<1>4. LiveInv'
  BY DEF LiveInv
<1>5. BoardInv'
  BY DEF BoardInv
<1>6. SourceInv'
  BY DEF SourceInv, Target, Selected
<1>7. HalInv'
  BY DEF HalInv
<1>8. Blameless
  BY DEF Blameless
<1> QED BY <1>1, <1>2, <1>3, <1>4, <1>5, <1>6, <1>7, <1>8

LEMMA BootRadioKeepsInv ==
    ASSUME PowerInv, BootRadio PROVE OwnerInv' /\ Blameless
<1> USE SessionIsNew, DefaultIsARadio DEF PowerInv, OwnerInv, PowerTypeOK, BootRadio, Boot, Goes, BootKeeps, Calm
<1>1. PowerTypeOK'
  BY DEF OwnerTypes, BoardTypes
<1> USE DEF OwnerTypes, SourceTypes, LiveTypes, WlTypes, BoardTypes
<1>2. RailInv'
  BY DEF RailInv, NoProducerOutlivesItsRail
<1>3. RadioInv'
  BY DEF RadioInv, BusOK, Retains, LiveInv
<1>4. LiveInv'
  BY DEF LiveInv
<1>5. BoardInv'
  BY DEF BoardInv
<1>6. SourceInv'
  BY DEF SourceInv, Target, Selected
<1>7. HalInv'
  BY DEF HalInv
<1>8. Blameless
  BY DEF Blameless
<1> QED BY <1>1, <1>2, <1>3, <1>4, <1>5, <1>6, <1>7, <1>8

LEMMA BootAppKeepsInv ==
    ASSUME PowerInv, BootApp PROVE OwnerInv' /\ Blameless
<1> USE DefaultIsARadio DEF PowerInv, OwnerInv, PowerTypeOK, BootApp, Boot, Goes, BootKeeps, Calm, LiveOff, Unread
<1>1. PowerTypeOK'
  <2>1. p' \in OwnerTypes
    BY DEF OwnerTypes, BoardTypes
  <2>2. live' \in LiveTypes
    BY DEF LiveTypes, AllModes, Modes
  <2> QED BY <2>1, <2>2
<1> USE DEF OwnerTypes, SourceTypes, LiveTypes, WlTypes, BoardTypes
<1>2. RailInv'
  BY DEF RailInv, NoProducerOutlivesItsRail
<1>3. RadioInv'
  BY DEF RadioInv, BusOK, Retains, LiveInv
<1>4. LiveInv'
  BY DEF LiveInv, BoardInv
<1>5. BoardInv'
  BY DEF BoardInv
<1>6. SourceInv'
  BY DEF SourceInv, Target, Selected
<1>7. HalInv'
  BY DEF HalInv
<1>8. Blameless
  BY DEF Blameless
<1> QED BY <1>1, <1>2, <1>3, <1>4, <1>5, <1>6, <1>7, <1>8

LEMMA LightTurnKeepsInv ==
    ASSUME PowerInv, LightTurn PROVE OwnerInv' /\ Blameless
<1> USE DEF PowerInv, OwnerInv, PowerTypeOK, LightTurn, Scanning, scanVars, Calm, LightServed
<1>1. PowerTypeOK'
  BY DEF BoardTypes
<1> USE DEF OwnerTypes, SourceTypes, LiveTypes, WlTypes, BoardTypes
<1>2. RailInv'
  BY DEF RailInv, NoProducerOutlivesItsRail
<1>3. RadioInv'
  BY DEF RadioInv, BusOK, Retains, LiveInv
<1>4. LiveInv'
  BY DEF LiveInv
<1>5. BoardInv'
  BY DEF BoardInv
<1>6. SourceInv'
  BY DEF SourceInv, Target, Selected
<1>7. HalInv'
  BY DEF HalInv
<1>8. Blameless
  BY DEF Blameless
<1> QED BY <1>1, <1>2, <1>3, <1>4, <1>5, <1>6, <1>7, <1>8

LEMMA ChooseKeepsInv ==
    ASSUME PowerInv, Choose PROVE OwnerInv' /\ Blameless
<1> USE DEF PowerInv, OwnerInv, PowerTypeOK, Choose, Scanning, scanVars, Calm, Between
<1>1. PowerTypeOK'
  BY DEF LiveTypes, AllModes
<1> USE DEF OwnerTypes, SourceTypes, LiveTypes, WlTypes, BoardTypes
<1>2. RailInv'
  BY DEF RailInv, NoProducerOutlivesItsRail
<1>3. RadioInv'
  BY DEF RadioInv, BusOK, Retains, LiveInv
<1>4. LiveInv'
  BY DEF LiveInv, BoardInv
<1>5. BoardInv'
  BY DEF BoardInv
<1>6. SourceInv'
  BY DEF SourceInv, Target, Selected
<1>7. HalInv'
  BY DEF HalInv
<1>8. Blameless
  BY DEF Blameless
<1> QED BY <1>1, <1>2, <1>3, <1>4, <1>5, <1>6, <1>7, <1>8

LEMMA WithdrawKeepsInv ==
    ASSUME PowerInv, Withdraw PROVE OwnerInv' /\ Blameless
<1> USE DEF PowerInv, OwnerInv, PowerTypeOK, Withdraw, Scanning, scanVars, Calm, Between
<1>1. PowerTypeOK'
  BY DEF LiveTypes
<1> USE DEF OwnerTypes, SourceTypes, LiveTypes, WlTypes, BoardTypes
<1>2. RailInv'
  BY DEF RailInv, NoProducerOutlivesItsRail
<1>3. RadioInv'
  BY DEF RadioInv, BusOK, Retains, LiveInv
<1>4. LiveInv'
  BY DEF LiveInv
<1>5. BoardInv'
  BY DEF BoardInv
<1>6. SourceInv'
  BY DEF SourceInv, Target, Selected
<1>7. HalInv'
  BY DEF HalInv
<1>8. Blameless
  BY DEF Blameless
<1> QED BY <1>1, <1>2, <1>3, <1>4, <1>5, <1>6, <1>7, <1>8

LEMMA TryKeepsInv ==
    ASSUME PowerInv, Try PROVE OwnerInv' /\ Blameless
<1> USE DEF PowerInv, OwnerInv, PowerTypeOK, Try, Scanning, scanVars, Calm, Between, SwitchReady
<1>1. PowerTypeOK'
  BY DEF LiveTypes, BoardTypes
<1> USE DEF OwnerTypes, SourceTypes, LiveTypes, WlTypes, BoardTypes
<1>2. RailInv'
  BY DEF RailInv, NoProducerOutlivesItsRail
<1>3. RadioInv'
  BY DEF RadioInv, BusOK, Retains, LiveInv
<1>4. LiveInv'
  BY DEF LiveInv
<1>5. BoardInv'
  BY DEF BoardInv
<1>6. SourceInv'
  BY DEF SourceInv, Target, Selected
<1>7. HalInv'
  BY DEF HalInv
<1>8. Blameless
  BY DEF Blameless
<1> QED BY <1>1, <1>2, <1>3, <1>4, <1>5, <1>6, <1>7, <1>8

LEMMA TryRadioKeepsInv ==
    ASSUME PowerInv, TryRadio PROVE OwnerInv' /\ Blameless
<1> USE SessionIsNew DEF PowerInv, OwnerInv, PowerTypeOK, TryRadio, Scanning, scanVars, Calm, Between, SwitchReady
<1>1. PowerTypeOK'
  BY DEF BoardTypes, LiveTypes, LiveInv
<1> USE DEF OwnerTypes, SourceTypes, LiveTypes, WlTypes, BoardTypes
<1>2. RailInv'
  BY DEF RailInv, NoProducerOutlivesItsRail
<1>3. RadioInv'
  BY DEF RadioInv, BusOK, Retains, LiveInv
<1>4. LiveInv'
  BY DEF LiveInv
<1>5. BoardInv'
  BY DEF BoardInv
<1>6. SourceInv'
  BY DEF SourceInv, Target, Selected
<1>7. HalInv'
  BY DEF HalInv
<1>8. Blameless
  BY DEF Blameless
<1> QED BY <1>1, <1>2, <1>3, <1>4, <1>5, <1>6, <1>7, <1>8

LEMMA SwitchesKeepsInv ==
    ASSUME PowerInv, Switches PROVE OwnerInv' /\ Blameless
<1> USE DEF PowerInv, OwnerInv, PowerTypeOK, Switches, Scanning, scanVars, Calm, Between, Selected
<1>1. PowerTypeOK'
  <2>1. p' \in OwnerTypes
    BY DEF OwnerTypes, LiveTypes, LiveInv
  <2>2. live' \in LiveTypes
    BY DEF LiveTypes, LiveInv
  <2> QED BY <2>1, <2>2
<1> USE DEF OwnerTypes, SourceTypes, LiveTypes, WlTypes, BoardTypes
<1>2. RailInv'
  BY DEF RailInv, NoProducerOutlivesItsRail
<1>3. RadioInv'
  BY DEF RadioInv, BusOK, Retains, LiveInv
<1>4. LiveInv'
  BY DEF LiveInv
<1>5. BoardInv'
  BY DEF BoardInv
<1>6. SourceInv'
  BY DEF SourceInv, Target, Selected
<1>7. HalInv'
  BY DEF HalInv
<1>8. Blameless
  BY DEF Blameless
<1> QED BY <1>1, <1>2, <1>3, <1>4, <1>5, <1>6, <1>7, <1>8

LEMMA SettlesKeepsInv ==
    ASSUME PowerInv, Settles PROVE OwnerInv' /\ Blameless
<1> USE DEF PowerInv, OwnerInv, PowerTypeOK, Settles, Scanning, scanVars, Calm, Goes
<1>1. PowerTypeOK'
  BY DEF OwnerTypes
<1> USE DEF OwnerTypes, SourceTypes, LiveTypes, WlTypes, BoardTypes
<1>2. RailInv'
  BY DEF RailInv, NoProducerOutlivesItsRail
<1>3. RadioInv'
  BY DEF RadioInv, BusOK, Retains, LiveInv
<1>4. LiveInv'
  BY DEF LiveInv
<1>5. BoardInv'
  BY DEF BoardInv
<1>6. SourceInv'
  BY DEF SourceInv, Target, Selected
<1>7. HalInv'
  BY DEF HalInv
<1>8. Blameless
  BY DEF Blameless
<1> QED BY <1>1, <1>2, <1>3, <1>4, <1>5, <1>6, <1>7, <1>8

LEMMA StampsKeepsInv ==
    ASSUME PowerInv, Stamps PROVE OwnerInv' /\ Blameless
<1> USE DEF PowerInv, OwnerInv, PowerTypeOK, Stamps, Calm, Goes, Empty
<1>1. PowerTypeOK'
  <2>1. p' \in OwnerTypes
    <3>1. p' \in {[p EXCEPT !.state = "settling"], [p EXCEPT !.scanned = TRUE]}
      OBVIOUS
    <3>2. p \in OwnerTypes
      OBVIOUS
    <3> QED BY <3>1, <3>2, OwnerMoves
  <2>2. b' \in BoardTypes
    BY DEF BoardTypes
  <2> QED BY <2>1, <2>2
<1> USE DEF OwnerTypes, SourceTypes, LiveTypes, WlTypes, BoardTypes
<1>2. RailInv'
  BY DEF RailInv, NoProducerOutlivesItsRail
<1>3. RadioInv'
  BY DEF RadioInv, BusOK, Retains, LiveInv
<1>4. LiveInv'
  BY DEF LiveInv
<1>5. BoardInv'
  BY DEF BoardInv
<1>6. SourceInv'
  BY DEF SourceInv, Target, Selected
<1>7. HalInv'
  BY DEF HalInv
<1>8. Blameless
  BY DEF Blameless
<1> QED BY <1>1, <1>2, <1>3, <1>4, <1>5, <1>6, <1>7, <1>8

LEMMA RestoresRailsKeepsInv ==
    ASSUME PowerInv, RestoresRails PROVE OwnerInv' /\ Blameless
<1> USE DEF PowerInv, OwnerInv, PowerTypeOK, RestoresRails, Calm, Goes, Lit, Empty
<1>1. PowerTypeOK'
  BY DEF OwnerTypes, BoardTypes
<1> USE DEF OwnerTypes, SourceTypes, LiveTypes, WlTypes, BoardTypes
<1>2. RailInv'
  BY DEF RailInv, NoProducerOutlivesItsRail
<1>3. RadioInv'
  BY DEF RadioInv, BusOK, Retains, LiveInv
<1>4. LiveInv'
  BY DEF LiveInv
<1>5. BoardInv'
  BY DEF BoardInv
<1>6. SourceInv'
  BY DEF SourceInv, Target, Selected
<1>7. HalInv'
  BY DEF HalInv
<1>8. Blameless
  BY DEF Blameless
<1> QED BY <1>1, <1>2, <1>3, <1>4, <1>5, <1>6, <1>7, <1>8

LEMMA SourceStableKeepsInv ==
    ASSUME PowerInv, SourceStable PROVE OwnerInv' /\ Blameless
<1> USE DEF PowerInv, OwnerInv, PowerTypeOK, SourceStable, Scanning, scanVars, Calm, At, Onward
<1>1. PowerTypeOK'
  BY DEF SourceTypes
<1> USE DEF OwnerTypes, SourceTypes, LiveTypes, WlTypes, BoardTypes
<1>2. RailInv'
  BY DEF RailInv, NoProducerOutlivesItsRail
<1>3. RadioInv'
  BY DEF RadioInv, BusOK, Retains, LiveInv
<1>4. LiveInv'
  BY DEF LiveInv
<1>5. BoardInv'
  BY DEF BoardInv
<1>6. SourceInv'
  BY DEF SourceInv, Target, Selected
<1>7. HalInv'
  BY DEF HalInv
<1>8. Blameless
  BY DEF Blameless
<1> QED BY <1>1, <1>2, <1>3, <1>4, <1>5, <1>6, <1>7, <1>8

LEMMA SourceClockKeepsInv ==
    ASSUME PowerInv, SourceClock PROVE OwnerInv' /\ Blameless
<1> USE DEF PowerInv, OwnerInv, PowerTypeOK, SourceClock, Scanning, scanVars, Calm, At, Onward
<1>1. PowerTypeOK'
  BY DEF SourceTypes, BoardTypes
<1> USE DEF OwnerTypes, SourceTypes, LiveTypes, WlTypes, BoardTypes
<1>2. RailInv'
  BY DEF RailInv, NoProducerOutlivesItsRail
<1>3. RadioInv'
  BY DEF RadioInv, BusOK, Retains, LiveInv
<1>4. LiveInv'
  BY DEF LiveInv
<1>5. BoardInv'
  BY DEF BoardInv
<1>6. SourceInv'
  BY DEF SourceInv, Target, Selected
<1>7. HalInv'
  BY DEF HalInv
<1>8. Blameless
  BY DEF Blameless
<1> QED BY <1>1, <1>2, <1>3, <1>4, <1>5, <1>6, <1>7, <1>8

LEMMA SourceLinkedKeepsInv ==
    ASSUME PowerInv, SourceLinked PROVE OwnerInv' /\ Blameless
<1> USE DEF PowerInv, OwnerInv, PowerTypeOK, SourceLinked, Scanning, scanVars, Calm, At, Onward
<1>1. PowerTypeOK'
  BY DEF SourceTypes
<1> USE DEF OwnerTypes, SourceTypes, LiveTypes, WlTypes, BoardTypes
<1>2. RailInv'
  BY DEF RailInv, NoProducerOutlivesItsRail
<1>3. RadioInv'
  BY DEF RadioInv, BusOK, Retains, LiveInv
<1>4. LiveInv'
  BY DEF LiveInv
<1>5. BoardInv'
  BY DEF BoardInv
<1>6. SourceInv'
  BY DEF SourceInv, Target, Selected
<1>7. HalInv'
  BY DEF HalInv
<1>8. Blameless
  BY DEF Blameless
<1> QED BY <1>1, <1>2, <1>3, <1>4, <1>5, <1>6, <1>7, <1>8

LEMMA ResetKeepsInv ==
    ASSUME PowerInv, Reset PROVE OwnerInv' /\ Blameless
<1> USE DefaultIsARadio DEF PowerInv, OwnerInv, PowerTypeOK, Reset, ColdOwner, ColdBoard, Unread, Empty
<1>1. PowerTypeOK'
  BY DEF OwnerTypes, BoardTypes
<1> USE DEF OwnerTypes, SourceTypes, LiveTypes, WlTypes, BoardTypes
<1>2. RailInv'
  BY DEF RailInv, NoProducerOutlivesItsRail
<1>3. RadioInv'
  BY DEF RadioInv, BusOK, Retains, LiveInv
<1>4. LiveInv'
  BY DEF LiveInv
<1>5. BoardInv'
  BY DEF BoardInv
<1>6. SourceInv'
  BY DEF SourceInv, Target, Selected
<1>7. HalInv'
  BY DEF HalInv
<1>8. Blameless
  BY DEF Blameless
<1> QED BY <1>1, <1>2, <1>3, <1>4, <1>5, <1>6, <1>7, <1>8

LEMMA CableMovesKeepsInv ==
    ASSUME PowerInv, CableMoves PROVE OwnerInv' /\ Blameless
<1> USE DEF PowerInv, OwnerInv, PowerTypeOK, CableMoves, Scanning, scanVars, Calm, Rest
<1>1. PowerTypeOK'
  BY DEF OwnerTypes
<1> USE DEF OwnerTypes, SourceTypes, LiveTypes, WlTypes, BoardTypes
<1>2. RailInv'
  BY DEF RailInv, NoProducerOutlivesItsRail
<1>3. RadioInv'
  BY DEF RadioInv, BusOK, Retains, LiveInv
<1>4. LiveInv'
  BY DEF LiveInv
<1>5. BoardInv'
  BY DEF BoardInv
<1>6. SourceInv'
  BY DEF SourceInv, Target, Selected
<1>7. HalInv'
  BY DEF HalInv
<1>8. Blameless
  BY DEF Blameless
<1> QED BY <1>1, <1>2, <1>3, <1>4, <1>5, <1>6, <1>7, <1>8

LEMMA PeerChangesKeepsInv ==
    ASSUME PowerInv, PeerChanges PROVE OwnerInv' /\ Blameless
<1> USE DEF PowerInv, OwnerInv, PowerTypeOK, PeerChanges, Scanning, scanVars, Calm, Rest
<1>1. PowerTypeOK'
  BY DEF OwnerTypes
<1> USE DEF OwnerTypes, SourceTypes, LiveTypes, WlTypes, BoardTypes
<1>2. RailInv'
  BY DEF RailInv, NoProducerOutlivesItsRail
<1>3. RadioInv'
  BY DEF RadioInv, BusOK, Retains, LiveInv
<1>4. LiveInv'
  BY DEF LiveInv
<1>5. BoardInv'
  BY DEF BoardInv
<1>6. SourceInv'
  BY DEF SourceInv, Target, Selected
<1>7. HalInv'
  BY DEF HalInv
<1>8. Blameless
  BY DEF Blameless
<1> QED BY <1>1, <1>2, <1>3, <1>4, <1>5, <1>6, <1>7, <1>8
-----------------------------------------------------------------------------
(* Awake.                                                                  *)
LEMMA BusIsOK == ASSUME PowerInv PROVE wl \in WlTypes /\ BusOK(wl, b.radio) /\ b.radio \in {"off", "pulse", "ready", "busy"}
BY DEF PowerInv, OwnerInv, PowerTypeOK, RadioInv, BoardTypes

LEMMA RadioTurnKeepsInv ==
    ASSUME PowerInv, RadioTurn PROVE OwnerInv' /\ Blameless
<1> USE DEF PowerInv, OwnerInv, PowerTypeOK
<1>1. /\ wl.on /\ UNCHANGED <<hal, q, r, cable, peer, p, src, live>>
      /\ \/ p.state \in {"awake", "drain", "blank", "rlink", "peer", "deepen"}
         \/ Past({"drain", "stable", "phy"}) \/ (In("link") /\ ~src.starting)
  BY DEF RadioTurn, Scanning, scanVars, Calm
<1>2. PICK s \in Served(wl, b.radio) : wl' = s[1] /\ b' = [b EXCEPT !.radio = s[2]]
  BY DEF RadioTurn, Serves
<1>3. /\ s[1] \in WlTypes /\ s[2] \in {"ready", "busy"}
      /\ BusOK(s[1], s[2])
      /\ s[1].on /\ s[1].mode = wl.mode /\ s[1].sleep = wl.sleep /\ s[1].before = wl.before
      /\ wl.done => s[1] = wl
  BY <1>1, BusIsOK, ServedBus DEF BusOK
<1>4. PowerTypeOK'
  BY <1>1, <1>2, <1>3 DEF BoardTypes
<1> USE DEF BoardTypes, SourceTypes, OwnerTypes
<1>5. RailInv' /\ RadioInv'
  BY <1>1, <1>2, <1>3 DEF RailInv, NoProducerOutlivesItsRail, RadioInv, Retains
<1>6. LiveInv' /\ BoardInv' /\ HalInv'
  BY <1>1, <1>2, <1>3 DEF LiveInv, BoardInv, HalInv
<1>7. SourceInv' /\ Blameless
  BY <1>1, <1>2, <1>3 DEF SourceInv, Blameless
<1> QED BY <1>4, <1>5, <1>6, <1>7

LEMMA SleepRequestedKeepsInv ==
    ASSUME PowerInv, SleepRequested PROVE OwnerInv' /\ Blameless
<1> USE DEF PowerInv, OwnerInv, PowerTypeOK
<1>1. p.state = "awake" /\ cable = p.ext /\ ~cable /\ live.choice = "none" /\ ~r.taken
  BY DEF SleepRequested, Between
<1>2. b.rtc = "ready" /\ MaySuspend
  BY <1>1 DEF BoardInv, LiveInv, MaySuspend
<1>3. PICK command \in {"sleep", "retain"} : p' = [p EXCEPT !.state = "drain", !.cmd = command, !.committed = FALSE]
  BY <1>2 DEF SleepRequested
<1>4. live' = Suspended(FALSE) /\ r' = Unread /\ UNCHANGED <<hal, q, src, wl, b, cable, peer>>
  BY <1>2 DEF SleepRequested, Calm
<1>5. p' \in OwnerTypes /\ p'.state = "drain" /\ p'.cmd # "none" /\ p'.ext = p.ext
  BY <1>3 DEF OwnerTypes
<1>6. /\ live' \in LiveTypes /\ live'.state = "draining" /\ live'.mode = live.mode
      /\ live'.choice = "none" /\ ~live'.tried
  BY <1>1, <1>4, SuspendedLive DEF LiveInv
<1>7. PowerTypeOK' /\ RailInv' /\ RadioInv'
  BY <1>1, <1>4, <1>5, <1>6 DEF RailInv, NoProducerOutlivesItsRail, RadioInv, LiveInv
<1>8. LiveInv' /\ BoardInv' /\ SourceInv'
  BY <1>1, <1>2, <1>4, <1>5, <1>6 DEF LiveInv, BoardInv, SourceInv
<1>9. HalInv' /\ Blameless
  BY <1>1, <1>4, <1>5 DEF HalInv, Unread, Blameless
<1> QED BY <1>7, <1>8, <1>9

LEMMA ScanFailureKeepsInv ==
    ASSUME PowerInv, HealthFails \/ SilenceFails PROVE OwnerInv' /\ Blameless
<1>1. Fails /\ cable' = cable /\ cable \in BOOLEAN
  BY DEF HealthFails, SilenceFails, PowerInv, OwnerInv, PowerTypeOK
<1>2. Blameless
  BY DEF HealthFails, SilenceFails, Blameless, ScanBroke
<1> QED BY <1>1, <1>2, FailsKeepsInv

LEMMA AwakeEdgeKeepsInv ==
    ASSUME PowerInv, AwakeEdge PROVE OwnerInv' /\ Blameless
<1> USE DEF PowerInv, OwnerInv, PowerTypeOK
<1> DEFINE x == IF cable THEN b ELSE UsbStopped(b)
<1>1. /\ p.state \in {"awake", "drain"} /\ cable # p.ext /\ ~r.taken /\ cable' = cable
      /\ cable \in BOOLEAN /\ (~cable) \in BOOLEAN
  BY DEF AwakeEdge
<1>2. /\ x \in BoardTypes /\ ~x.usb
      /\ x.lights = b.lights /\ x.led = b.led /\ x.sensor = b.sensor /\ x.radio = b.radio
      /\ x.prepared = b.prepared /\ x.rtc = b.rtc
  BY <1>1, UsbStoppedBoard DEF BoardInv, BoardTypes, OwnerTypes
<1> HIDE DEF x
<1>3. CASE ~MaySuspend
  <2>1. Ends("failed", x)
    BY <1>3 DEF AwakeEdge, FailsWith, x
  <2>2. Blameless
    BY <1>1, <1>3 DEF MaySuspend, LiveInv, Blameless, CableCause
  <2> QED BY <1>1, <1>2, <2>1, <2>2, EndsKeepInv
<1>4. CASE MaySuspend
  <2>1. /\ p' = [p EXCEPT !.state = "source"] /\ live' = Suspended(~cable)
        /\ src' = [SrcOff EXCEPT !.state = "drain", !.cand = cable]
        /\ b' = x /\ r' = Unread /\ UNCHANGED <<hal, q, wl, peer>>
    BY <1>4 DEF AwakeEdge, Goes, x
  <2>2. p' \in OwnerTypes /\ p'.state = "source" /\ src' \in SourceTypes /\ src'.state = "drain" /\ src'.cand = cable
        /\ ~src'.starting
    BY <1>1, <2>1 DEF SrcOff, OwnerTypes, SourceTypes
  <2>3. /\ live' \in LiveTypes /\ live'.state = "draining" /\ live'.mode = live.mode
        /\ live'.choice = "none" /\ ~live'.tried
        /\ ~cable /\ live.mode = "usb" => live'.abandoned
    BY <1>1, <1>4, <2>1, SuspendedLive DEF LiveInv, MaySuspend, LiveTypes
  <2>4. PowerTypeOK' /\ RailInv'
    BY <1>1, <1>2, <2>1, <2>2, <2>3 DEF RailInv, NoProducerOutlivesItsRail
  <2>5. RadioInv'
    BY <1>1, <1>2, <1>4, <2>1, <2>2 DEF RadioInv, LiveInv, MaySuspend
  <2>6. LiveInv' /\ BoardInv' /\ SourceInv'
    BY <1>1, <1>2, <2>1, <2>2, <2>3 DEF LiveInv, BoardInv, SourceInv
  <2>7. HalInv' /\ Blameless
    BY <1>1, <2>1, <2>2 DEF HalInv, Unread, Blameless
  <2> QED BY <2>4, <2>5, <2>6, <2>7
<1> QED BY <1>3, <1>4
-----------------------------------------------------------------------------
(* The way into sleep.                                                     *)
LEMMA ParksKeepsInv ==
    ASSUME PowerInv, Parks PROVE OwnerInv' /\ Blameless
<1> USE DEF PowerInv, OwnerInv, PowerTypeOK
<1>1. /\ p.state = "drain" /\ p' = [p EXCEPT !.state = "blank"] /\ live' = Parked
      /\ hal' = "paused" /\ q' = Flushed(q) /\ UNCHANGED <<r, src, cable, peer>>
  BY DEF Parks, Goes, Calm
<1>2. PICK s \in Served(wl, b.radio) :
         MayPark(s[1], s[2]) /\ wl' = s[1] /\ b' = [b EXCEPT !.radio = s[2], !.lights = "transfer"]
  BY DEF Parks
<1>3. /\ s[1] \in WlTypes /\ s[2] \in {"off", "pulse", "ready", "busy"} /\ BusOK(s[1], s[2])
      /\ s[1].on = wl.on /\ s[1].sleep = wl.sleep /\ (~wl.on => s[2] = b.radio)
  BY BusIsOK, ServedBus
<1>4. b.lights = "ready" /\ live.state = "draining"
  BY <1>2 DEF MayPark
<1>5. PowerTypeOK'
  BY <1>1, <1>2, <1>3 DEF OwnerTypes, LiveTypes, BoardTypes, Parked
<1> USE DEF OwnerTypes, LiveTypes, BoardTypes, SourceTypes, Parked
<1>6. RailInv' /\ RadioInv'
  BY <1>1, <1>2, <1>3, <1>4 DEF RailInv, NoProducerOutlivesItsRail, RadioInv, BusOK
<1>7. LiveInv' /\ BoardInv' /\ SourceInv'
  BY <1>1, <1>2, <1>3, <1>4 DEF LiveInv, BoardInv, SourceInv
<1>8. HalInv' /\ Blameless
  BY <1>1, <1>2 DEF HalInv, Blameless
<1> QED BY <1>5, <1>6, <1>7, <1>8

LEMMA CancelSleepKeepsInv ==
    ASSUME PowerInv, p.state \in {"blank", "peer"}, cable,
           NEW k \in WlTypes, BusOK(k, b.radio), k.sleep = "none", CancelSleep(k)
    PROVE  OwnerInv' /\ Blameless
<1> USE DEF PowerInv, OwnerInv, PowerTypeOK
<1>1. hal = "paused" /\ live.state = "parked" /\ SleepSent(k) = "none"
  BY DEF HalInv, LiveInv, SleepSent, BusOK
<1>2. /\ p' = [p EXCEPT !.state = "source", !.cmd = "none"]
      /\ src' = [SrcOff EXCEPT !.state = "stable", !.cand = TRUE]
      /\ wl' = k /\ b' = [Dark(b) EXCEPT !.led = TRUE]
      /\ UNCHANGED <<hal, q, r, live, peer, cable>>
  BY <1>1 DEF CancelSleep
<1>3. /\ b' \in BoardTypes /\ b'.lights = "stopped" /\ b'.radio = b.radio /\ b'.sensor = b.sensor
      /\ b'.usb = b.usb /\ b'.reduced = b.reduced /\ b'.prepared = b.prepared
  BY <1>2 DEF BoardTypes, Dark
<1>4. src' \in SourceTypes /\ src'.state = "stable" /\ src'.cand /\ ~src'.starting
  BY <1>2 DEF SrcOff, SourceTypes
<1>5. p' \in OwnerTypes /\ p'.state = "source"
  BY <1>2 DEF OwnerTypes
<1>6. PowerTypeOK' /\ RailInv' /\ RadioInv'
  BY <1>2, <1>3, <1>4, <1>5 DEF RailInv, NoProducerOutlivesItsRail, RadioInv
<1>7. LiveInv' /\ BoardInv' /\ SourceInv'
  BY <1>1, <1>2, <1>3, <1>4, <1>5 DEF LiveInv, BoardInv, SourceInv
<1>8. HalInv' /\ Blameless
  BY <1>1, <1>2, <1>4, <1>5 DEF HalInv, Blameless
<1> QED BY <1>6, <1>7, <1>8

LEMMA BlankCancelsKeepsInv ==
    ASSUME PowerInv, BlankCancels PROVE OwnerInv' /\ Blameless
<1>1. p.state = "blank" /\ cable /\ CancelSleep(wl) /\ wl.sleep = "none"
  BY DEF BlankCancels, PowerInv, OwnerInv, RadioInv
<1> QED BY <1>1, BusIsOK, CancelSleepKeepsInv

LEMMA CancelledBus ==
    ASSUME NEW k \in WlTypes, NEW radio, BusOK(k, radio), MayCancel(k)
    PROVE  /\ Cancelled(k) \in WlTypes /\ Cancelled(k).on /\ radio = "ready"
           /\ Cancelled(k).sleep = k.before
           /\ Cancelled(k).done = (k.before # "none")
           /\ BusOK(Cancelled(k), radio)
<1>1. k.on /\ radio = "ready" /\ ~k.flying
  BY DEF BusOK, MayCancel
<1>2. (k.before # "none") \in BOOLEAN
  OBVIOUS
<1>3. /\ Cancelled(k) \in WlTypes /\ Cancelled(k).on /\ ~Cancelled(k).flying
      /\ Cancelled(k).sleep = k.before /\ Cancelled(k).before = "none"
      /\ Cancelled(k).done = (k.before # "none")
  BY <1>1, <1>2 DEF Cancelled, WlTypes
<1> QED BY <1>1, <1>3 DEF BusOK

LEMMA PeerCancelsKeepsInv ==
    ASSUME PowerInv, PeerCancels PROVE OwnerInv' /\ Blameless
<1>1. p.state = "peer" /\ cable /\ MayCancel(wl) /\ CancelSleep(Cancelled(wl)) /\ wl.before = "none"
  BY DEF PeerCancels, PowerInv, OwnerInv, RadioInv
<1>2. Cancelled(wl) \in WlTypes /\ BusOK(Cancelled(wl), b.radio) /\ Cancelled(wl).sleep = "none"
  BY <1>1, BusIsOK, CancelledBus
<1> QED BY <1>1, <1>2, CancelSleepKeepsInv

LEMMA BlankAsksKeepsInv ==
    ASSUME PowerInv, BlankAsks PROVE OwnerInv' /\ Blameless
<1> USE DEF PowerInv, OwnerInv, PowerTypeOK
<1>1. /\ p.state = "blank" /\ p' = [p EXCEPT !.state = "peer"]
      /\ UNCHANGED <<hal, q, r, cable, peer, src, live>>
  BY DEF BlankAsks, Goes, Scanning, scanVars, Calm
<1>2. PICK s \in Served(wl, b.radio) :
         /\ MayAskSleep(s[1], s[2], p.cmd) /\ wl' = Asked(s[1], p.cmd)
         /\ b' = [Dark(b) EXCEPT !.led = FALSE, !.radio = s[2]]
  BY DEF BlankAsks
<1>3. /\ s[1] \in WlTypes /\ BusOK(s[1], s[2]) /\ s[1].on /\ s[1].sleep = "none" /\ s[2] = "ready"
      /\ p.cmd \in {"sleep", "retain"}
  BY <1>1, <1>2, BusIsOK, ServedBus DEF RadioInv, MayAskSleep, OwnerTypes
<1>4. ~s[1].done /\ ~s[1].flying
  BY <1>3 DEF BusOK
<1>5. /\ wl' \in WlTypes /\ wl'.on /\ wl'.sleep = p.cmd /\ wl'.before = "none"
      /\ ~wl'.done /\ ~wl'.flying
  BY <1>2, <1>3, <1>4 DEF Asked, WlTypes
<1>6. /\ b' \in BoardTypes /\ b'.lights = "stopped" /\ b'.radio = "ready" /\ b'.sensor = b.sensor /\ ~b'.led
      /\ b'.usb = b.usb /\ b'.reduced = b.reduced /\ b'.prepared = b.prepared /\ b'.rtc = b.rtc
  BY <1>2, <1>3 DEF BoardTypes, Dark
<1>7. p' \in OwnerTypes /\ p'.state = "peer" /\ p'.cmd = p.cmd /\ p'.ext = p.ext
  BY <1>1 DEF OwnerTypes
<1>8. PowerTypeOK' /\ RailInv' /\ RadioInv'
  BY <1>1, <1>3, <1>5, <1>6, <1>7 DEF RailInv, NoProducerOutlivesItsRail, RadioInv, BusOK
<1>9. LiveInv' /\ BoardInv' /\ SourceInv' /\ HalInv' /\ Blameless
  BY <1>1, <1>6, <1>7 DEF LiveInv, BoardInv, SourceInv, HalInv, Blameless
<1> QED BY <1>8, <1>9

LEMMA BlankExpiresKeepsInv ==
    ASSUME PowerInv, BlankExpires PROVE OwnerInv' /\ Blameless
<1>1. Fails /\ cable' = cable /\ cable \in BOOLEAN /\ HostLeft
  BY DEF BlankExpires, HostLeft, PowerInv, OwnerInv, PowerTypeOK
<1> QED BY <1>1, FailsKeepsInv DEF Blameless

LEMMA DescendsKeepsInv ==
    ASSUME PowerInv, NEW owner, NEW k, NEW x, Restorable(owner, k, x),
           owner.committed, ~x.led, ~x.prepared, ~r.seen, Descends(k, x, owner)
    PROVE  OwnerInv' /\ Blameless
<1> USE DEF PowerInv, OwnerInv, PowerTypeOK
<1>1. PICK move \in Moves :
        /\ cable' = MovedTo(move)
        /\ IF Reading(move, 1) THEN Restore(owner, k, x)
           ELSE IF Reading(move, 2) THEN Restore(owner, k, [x EXCEPT !.reduced = FALSE])
           ELSE IF Reading(move, 3) THEN Restore(owner, k, [x EXCEPT !.reduced = TRUE])
           ELSE /\ p' = [owner EXCEPT !.state = "settle", !.scanned = FALSE]
                /\ hal' = "off" /\ q' = Flushed(q) /\ wl' = k
                /\ b' = Prepared([Unpowered(x) EXCEPT !.reduced = TRUE])
                /\ UNCHANGED <<r, peer, src, live>>
  BY DEF Descends
<1>2. cable' \in BOOLEAN
  BY <1>1 DEF MovedTo
<1>3. ASSUME NEW reduced \in BOOLEAN PROVE Restorable(owner, k, [x EXCEPT !.reduced = reduced])
  BY DEF Restorable, BoardTypes
<1>4. CASE Restore(owner, k, x) \/ \E reduced \in BOOLEAN : Restore(owner, k, [x EXCEPT !.reduced = reduced])
  BY <1>2, <1>3, <1>4, RestoreKeepsInv DEF Blameless
<1>5. CASE /\ p' = [owner EXCEPT !.state = "settle", !.scanned = FALSE]
           /\ hal' = "off" /\ q' = Flushed(q) /\ wl' = k
           /\ b' = Prepared([Unpowered(x) EXCEPT !.reduced = TRUE])
           /\ UNCHANGED <<r, peer, src, live>>
  <2>1. /\ p' \in OwnerTypes /\ p'.state = "settle" /\ p'.ext = owner.ext /\ p'.committed /\ ~p'.scanned
        /\ p'.retained = owner.retained
    BY <1>5 DEF Restorable, OwnerTypes
  <2>2. /\ b' \in BoardTypes /\ b'.lights = "stopped" /\ b'.radio = x.radio /\ ~b'.led /\ ~b'.usb /\ b'.reduced
        /\ b'.rtc = "ready"
    BY <1>5 DEF Restorable, BoardTypes, Prepared, Unpowered
  <2>3. q'.pending = 0
    BY <1>5 DEF Flushed, FrameInv, FrameTypeOK
  <2>4. PowerTypeOK' /\ RailInv' /\ RadioInv'
    BY <1>2, <1>5, <2>1, <2>2 DEF Restorable, RailInv, NoProducerOutlivesItsRail, RadioInv, BusOK, Retains
  <2>5. LiveInv' /\ BoardInv' /\ SourceInv' /\ HalInv' /\ Blameless
    BY <1>5, <2>1, <2>2, <2>3 DEF Restorable, LiveInv, BoardInv, SourceInv, HalInv, Blameless
  <2> QED BY <2>4, <2>5
<1> QED BY <1>1, <1>4, <1>5

LEMMA PeerSleepsKeepsInv ==
    ASSUME PowerInv, PeerSleeps PROVE OwnerInv' /\ Blameless
<1> USE DEF PowerInv, OwnerInv, PowerTypeOK
<1> DEFINE keeps == p.cmd = "retain"
           K(s) == IF keeps THEN s[1] ELSE NoSession
           X(s) == [b EXCEPT !.radio = s[2]]
           Y(s) == IF keeps THEN X(s) ELSE Quiesced(X(s))
           owner == [p EXCEPT !.committed = TRUE, !.retained = keeps]
<1>1. p.state = "peer"
  BY DEF PeerSleeps
<1>2. PICK s \in Served(wl, b.radio) :
         /\ SleepSent(s[1]) = p.cmd
         /\ IF (~keeps /\ s[2] # "ready") \/ (~cable /\ (b.usb \/ b.prepared \/ Y(s).radio = "busy"))
            THEN Fails /\ UNCHANGED cable
            ELSE IF cable
            THEN Restore(owner, K(s), Y(s)) /\ UNCHANGED cable
            ELSE Descends(K(s), Y(s), owner)
  BY <1>1 DEF PeerSleeps
<1>3. s[1] \in WlTypes /\ BusOK(s[1], s[2]) /\ p.cmd # "none" /\ s[1].sleep = p.cmd
  BY <1>1, BusIsOK, ServedBus DEF RadioInv
<1>4. s[1].on /\ s[1].done /\ s[2] = "ready"
  BY <1>2, <1>3 DEF SleepSent, BusOK
<1>5. ~b.usb /\ ~b.prepared /\ ~b.led /\ b.lights = "stopped" /\ b.rtc = "ready" /\ ~p.ext /\ ~r.seen
  BY <1>1 DEF BoardInv, LiveInv, HalInv
<1>6. /\ X(s) \in BoardTypes /\ X(s).radio = "ready" /\ X(s).lights = "stopped" /\ ~X(s).usb /\ X(s).rtc = "ready"
      /\ ~X(s).led /\ ~X(s).prepared
  BY <1>4, <1>5 DEF BoardTypes
<1>7. /\ Y(s) \in BoardTypes /\ Y(s).lights = "stopped" /\ ~Y(s).usb /\ Y(s).rtc = "ready"
      /\ ~Y(s).led /\ ~Y(s).prepared
      /\ Y(s).radio = IF keeps THEN "ready" ELSE "off"
  <2> HIDE DEF X
  <2> QED BY <1>6 DEF Quiesced, BoardTypes
<1>8. owner \in OwnerTypes /\ ~owner.ext /\ owner.committed /\ (owner.retained <=> keeps)
  <2>1. keeps \in BOOLEAN
    OBVIOUS
  <2> QED BY <2>1, <1>5 DEF OwnerTypes
<1>9. K(s) \in WlTypes /\ (keeps => K(s) = s[1] /\ Retains(K(s))) /\ (~keeps => K(s) = NoSession)
  BY <1>3, <1>4, NoSessionIsOff DEF Retains
<1>10. Restorable(owner, K(s), Y(s))
  <2>1. BusOK(K(s), Y(s).radio)
    <3> HIDE DEF K, Y
    <3>1. CASE keeps
      BY <1>3, <1>4, <1>7, <1>9, <3>1
    <3>2. CASE ~keeps
      BY <1>7, <1>9, <3>2, NoSessionIsOff DEF BusOK
    <3> QED BY <3>1, <3>2
  <2>2. IF owner.retained THEN Retains(K(s)) ELSE ~K(s).on /\ Y(s).radio = "off"
    <3> HIDE DEF K, Y, owner
    <3> QED BY <1>7, <1>8, <1>9, NoSessionIsOff
  <2>3. live.state = "parked" /\ live.mode # "usb" /\ live.choice = "none" /\ ~live.tried
        /\ src.state = "off" /\ ~src.starting /\ ~r.taken
    BY <1>1 DEF LiveInv, SourceInv, HalInv, SourceTypes
  <2> HIDE DEF K, Y, owner
  <2> QED BY <1>7, <1>8, <1>9, <2>1, <2>2, <2>3 DEF Restorable
<1>11. Y(s).radio # "busy" /\ cable \in BOOLEAN
  <2> HIDE DEF Y
  <2> QED BY <1>7
<1> HIDE DEF K, Y, X, owner
<1>12. CASE cable
  BY <1>2, <1>4, <1>5, <1>10, <1>11, <1>12, RestoreKeepsInv DEF Blameless
<1>13. CASE ~cable
  BY <1>2, <1>4, <1>5, <1>7, <1>8, <1>10, <1>11, <1>13, DescendsKeepsInv
<1> QED BY <1>12, <1>13
-----------------------------------------------------------------------------
(* Asleep.                                                                 *)
LEMMA CableWakesKeepsInv ==
    ASSUME PowerInv, CableWakes PROVE OwnerInv' /\ Blameless
<1>1. p.state \in Asleep /\ cable' = cable /\ cable \in BOOLEAN
  BY DEF CableWakes, PowerInv, OwnerInv, PowerTypeOK
<1>2. CASE p.state \in {"settling", "capture"} /\ hal = "off" /\ Fails
  BY <1>1, <1>2, FailsKeepsInv DEF Blameless, ScanBroke
<1>3. CASE Restore(p, wl, b)
  BY <1>1, <1>3, AsleepIsRestorable, RestoreKeepsInv DEF Blameless
<1> QED BY <1>2, <1>3 DEF CableWakes

LEMMA BeginsDeepenKeepsInv ==
    ASSUME PowerInv, BeginsDeepen PROVE OwnerInv' /\ Blameless
<1> USE DEF PowerInv, OwnerInv, PowerTypeOK
<1>1. p.state = "sleep" /\ p.retained /\ cable' = cable
  BY DEF BeginsDeepen
<1>2. Retains(wl) /\ BusOK(wl, b.radio) /\ b.radio = "ready" /\ ~wl.flying
  BY <1>1 DEF RadioInv, BusOK, Retains, BoardTypes
<1>3. MayAskSleep(wl, b.radio, "sleep")
  BY <1>2 DEF MayAskSleep, Retains
<1>4. /\ wl' = Asked(wl, "sleep")
      /\ p' = [p EXCEPT !.state = "deepen", !.cmd = "sleep", !.committed = FALSE]
      /\ UNCHANGED <<hal, q, r, peer, src, live, b>>
  BY <1>3 DEF BeginsDeepen, Scanning, scanVars
<1>5. /\ wl' \in WlTypes /\ wl'.on /\ wl'.sleep = "sleep" /\ wl'.before = "retain" /\ ~wl'.done /\ ~wl'.flying
  BY <1>2, <1>4 DEF Asked, WlTypes, Retains
<1>6. /\ p' \in OwnerTypes /\ p'.state = "deepen" /\ p'.cmd = "sleep" /\ p'.retained /\ p'.ext = p.ext
      /\ p'.scanned = p.scanned
  BY <1>1, <1>4 DEF OwnerTypes
<1>7. PowerTypeOK' /\ RailInv' /\ RadioInv'
  BY <1>1, <1>2, <1>4, <1>5, <1>6 DEF RailInv, NoProducerOutlivesItsRail, RadioInv, BusOK
<1>8. LiveInv' /\ BoardInv' /\ SourceInv' /\ HalInv' /\ Blameless
  BY <1>1, <1>4, <1>6 DEF LiveInv, BoardInv, SourceInv, HalInv, Blameless
<1> QED BY <1>7, <1>8

LEMMA SleepsKeepsInv ==
    ASSUME PowerInv, Sleeps PROVE OwnerInv' /\ Blameless
<1> USE DEF PowerInv, OwnerInv, PowerTypeOK
<1>1. p.state = "sleep" /\ ~cable
  BY DEF Sleeps
<1>2. PICK move \in Moves :
           LET safe == CanSleep(Reading(move, 1))
           IN  /\ cable' = MovedTo(move)
               /\ IF safe /\ Dozes(Unpowered(b))
                  THEN /\ Goes("stamp") /\ b' = Unpowered(b)
                       /\ Scanning /\ UNCHANGED <<peer, src, live, wl>>
                  ELSE IF ~safe /\ Reading(move, 2) THEN Restore(p, wl, b) ELSE Fails
  BY DEF Sleeps
<1>3. cable' \in BOOLEAN
  BY <1>2 DEF MovedTo
<1>4. /\ Unpowered(b) \in BoardTypes /\ Unpowered(b).lights = "stopped" /\ Unpowered(b).radio = b.radio
      /\ ~Unpowered(b).usb /\ ~Unpowered(b).led /\ Unpowered(b).reduced /\ ~Unpowered(b).sensor
      /\ Unpowered(b).rtc = b.rtc
  BY <1>1 DEF Unpowered, BoardInv, BoardTypes
<1>5. Dozes(Unpowered(b))
  BY <1>1, <1>4 DEF Dozes, Quiet, HalInv, RadioInv, BusOK, Retains, BoardTypes
<1>6. CanSleep(FALSE)
  BY <1>1 DEF CanSleep, HalInv, BoardInv, RadioInv, Retains, BusOK, SleepSent, BoardTypes
<1>7. CASE CanSleep(Reading(move, 1)) /\ Dozes(Unpowered(b))
  <2>1. p' = [p EXCEPT !.state = "stamp"] /\ b' = Unpowered(b) /\ UNCHANGED <<hal, q, r, peer, src, live, wl>>
    BY <1>2, <1>7 DEF Goes, Scanning, scanVars
  <2>2. /\ p' \in OwnerTypes /\ p'.state = "stamp" /\ p'.retained = p.retained /\ p'.ext = p.ext
        /\ p'.scanned = p.scanned /\ p'.committed = p.committed
    BY <2>1 DEF OwnerTypes
  <2>3. PowerTypeOK' /\ RailInv' /\ RadioInv'
    BY <1>1, <1>3, <1>4, <2>1, <2>2 DEF RailInv, NoProducerOutlivesItsRail, RadioInv, HalInv
  <2>4. LiveInv' /\ BoardInv' /\ SourceInv' /\ HalInv' /\ Blameless
    BY <1>1, <1>4, <2>1, <2>2 DEF LiveInv, BoardInv, SourceInv, HalInv, Blameless
  <2> QED BY <2>3, <2>4
<1>8. CASE ~CanSleep(Reading(move, 1))
  <2>1. ~(1 < move)
    <3> SUFFICES ASSUME 1 < move PROVE FALSE
      OBVIOUS
    <3>1. Reading(move, 1) = FALSE
      BY <1>1 DEF Reading
    <3> QED BY <1>6, <1>8, <3>1
  <2>2. Reading(move, 2)
    BY <1>1, <2>1 DEF Reading, Moves, LastRead
  <2>3. Restore(p, wl, b)
    BY <1>2, <1>8, <2>2
  <2> QED BY <1>1, <1>3, <2>3, AsleepIsRestorable, RestoreKeepsInv DEF Blameless
<1> QED BY <1>5, <1>7, <1>8

LEMMA StartsCaptureKeepsInv ==
    ASSUME PowerInv, StartsCapture PROVE OwnerInv' /\ Blameless
<1> USE DEF PowerInv, OwnerInv, PowerTypeOK
<1>1. p.state = "settling" /\ hal \in {"idle", "done"} /\ q.pending = 0
  BY DEF StartsCapture, HalInv
<1>2. /\ p' = [p EXCEPT !.state = "capture"] /\ hal' = "single" /\ q' = [q EXCEPT !.busy = TRUE, !.next = 0]
      /\ UNCHANGED <<cable, peer, r, src, live, wl, b>>
  BY <1>1 DEF StartsCapture, Goes, Calm
<1>3. /\ p' \in OwnerTypes /\ p'.state = "capture" /\ p'.retained = p.retained /\ p'.ext = p.ext
      /\ p'.committed = p.committed /\ p'.scanned = p.scanned
  BY <1>2 DEF OwnerTypes
<1>4. q'.pending = 0
  BY <1>1, <1>2 DEF FrameInv, FrameTypeOK
<1>5. PowerTypeOK' /\ RailInv' /\ RadioInv'
  BY <1>1, <1>2, <1>3 DEF RailInv, NoProducerOutlivesItsRail, RadioInv
<1>6. LiveInv' /\ BoardInv' /\ SourceInv' /\ HalInv' /\ Blameless
  BY <1>1, <1>2, <1>3, <1>4 DEF LiveInv, BoardInv, SourceInv, HalInv, Blameless
<1> QED BY <1>5, <1>6

LEMMA CapturedKeepsInv ==
    ASSUME PowerInv, Captured PROVE OwnerInv' /\ Blameless
<1> USE DEF PowerInv, OwnerInv, PowerTypeOK
<1>1. p.state = "capture" /\ hal = "done" /\ cable' = cable /\ q.pending = 1
  BY DEF Captured, HalInv
<1>2. FrameWaits /\ Told = 0 /\ (r.seen => r.told = 1) /\ ~r.taken
  BY <1>1 DEF FrameWaits, Told, HalInv
<1>3. \/ Restore(p, wl, b)
      \/ /\ Goes("sleep") /\ q' = Taken(q)
         /\ r' = [r EXCEPT !.seen = TRUE, !.told = Told, !.frame = q.ring[q.head]]
         /\ UNCHANGED <<hal, peer, src, live, wl, b>>
  BY <1>1, <1>2 DEF Captured
<1>4. CASE Restore(p, wl, b)
  BY <1>1, <1>4, AsleepIsRestorable, RestoreKeepsInv DEF Blameless
<1>5. CASE /\ Goes("sleep") /\ q' = Taken(q)
           /\ r' = [r EXCEPT !.seen = TRUE, !.told = Told, !.frame = q.ring[q.head]]
           /\ UNCHANGED <<hal, peer, src, live, wl, b>>
  <2>1. /\ p' \in OwnerTypes /\ p'.state = "sleep" /\ p'.retained = p.retained /\ p'.ext = p.ext
        /\ p'.committed = p.committed /\ p'.scanned = p.scanned
    BY <1>5 DEF OwnerTypes, Goes
  <2>2. q'.pending = 0 /\ r'.told = 0 /\ ~r'.taken
    BY <1>1, <1>2, <1>5 DEF FrameInv, FrameTypeOK, Taken
  <2>3. PowerTypeOK' /\ RailInv' /\ RadioInv'
    BY <1>1, <1>5, <2>1 DEF RailInv, NoProducerOutlivesItsRail, RadioInv
  <2>4. LiveInv' /\ BoardInv' /\ SourceInv' /\ HalInv' /\ Blameless
    BY <1>1, <1>5, <2>1, <2>2 DEF LiveInv, BoardInv, SourceInv, HalInv, Blameless
  <2> QED BY <2>3, <2>4
<1> QED BY <1>3, <1>4, <1>5

LEMMA DeepenIsRestorable ==
    ASSUME PowerInv, p.state = "deepen", NEW owner \in OwnerTypes, ~owner.ext, NEW k \in WlTypes,
           NEW x \in BoardTypes, BusOK(k, x.radio), x.lights = b.lights, x.usb = b.usb, x.rtc = b.rtc,
           IF owner.retained THEN Retains(k) ELSE ~k.on /\ x.radio = "off"
    PROVE  Restorable(owner, k, x)
BY DEF PowerInv, OwnerInv, PowerTypeOK, LiveInv, BoardInv, SourceInv, HalInv, Restorable, SourceTypes

LEMMA DeepenCancelsKeepsInv ==
    ASSUME PowerInv, DeepenCancels PROVE OwnerInv' /\ Blameless
<1> USE DEF PowerInv, OwnerInv, PowerTypeOK
<1>1. /\ p.state = "deepen" /\ MayCancel(wl) /\ Restore(p, Cancelled(wl), b) /\ cable' = cable
      /\ wl.before = "retain" /\ p.retained /\ ~p.ext
  BY DEF DeepenCancels, RadioInv, LiveInv
<1>2. Cancelled(wl) \in WlTypes /\ BusOK(Cancelled(wl), b.radio) /\ Retains(Cancelled(wl))
  BY <1>1, BusIsOK, CancelledBus DEF Retains
<1>3. Restorable(p, Cancelled(wl), b)
  BY <1>1, <1>2, DeepenIsRestorable
<1> QED BY <1>1, <1>3, RestoreKeepsInv DEF Blameless

LEMMA DeepensKeepsInv ==
    ASSUME PowerInv, Deepens PROVE OwnerInv' /\ Blameless
<1> USE DEF PowerInv, OwnerInv, PowerTypeOK
<1> DEFINE owner == [p EXCEPT !.state = "sleep", !.committed = TRUE, !.retained = FALSE]
<1>1. p.state = "deepen" /\ cable' = cable /\ ~p.ext
  BY DEF Deepens, LiveInv
<1>2. PICK s \in Served(wl, b.radio) :
         /\ SleepSent(s[1]) = "sleep"
         /\ IF s[2] # "ready" THEN Fails
            ELSE IF cable THEN Restore(owner, NoSession, Quiesced(b))
            ELSE /\ p' = owner /\ wl' = NoSession /\ b' = Quiesced(b)
                 /\ Scanning /\ UNCHANGED <<peer, src, live>>
  BY DEF Deepens
<1>3. s[2] = "ready"
  <2>1. BusOK(s[1], s[2]) /\ s[1].sleep = "sleep"
    BY <1>1, BusIsOK, ServedBus DEF RadioInv
  <2> QED BY <1>2, <2>1 DEF SleepSent, BusOK
<1>4. /\ owner \in OwnerTypes /\ owner.state = "sleep" /\ ~owner.ext /\ ~owner.retained /\ owner.committed
      /\ owner.scanned = p.scanned
  BY <1>1 DEF OwnerTypes
<1>5. /\ Quiesced(b) \in BoardTypes /\ Quiesced(b).radio = "off" /\ Quiesced(b).lights = b.lights
      /\ Quiesced(b).usb = b.usb /\ Quiesced(b).rtc = b.rtc /\ Quiesced(b).reduced = b.reduced
      /\ Quiesced(b).led = b.led /\ Quiesced(b).prepared = b.prepared /\ Quiesced(b).sensor = b.sensor
  BY DEF Quiesced, BoardTypes
<1>6. BusOK(NoSession, Quiesced(b).radio)
  BY <1>5, NoSessionIsOff DEF BusOK
<1> HIDE DEF owner
<1>7. CASE cable
  <2>1. Restorable(owner, NoSession, Quiesced(b))
    BY <1>1, <1>4, <1>5, <1>6, NoSessionIsOff, DeepenIsRestorable
  <2> QED BY <1>1, <1>2, <1>3, <1>7, <2>1, RestoreKeepsInv DEF Blameless
<1>8. CASE ~cable
  <2>1. p' = owner /\ wl' = NoSession /\ b' = Quiesced(b) /\ UNCHANGED <<hal, q, r, peer, src, live>>
    BY <1>2, <1>3, <1>8 DEF Scanning, scanVars
  <2>2. PowerTypeOK' /\ RailInv' /\ RadioInv'
    BY <1>1, <1>4, <1>5, <1>6, <2>1, NoSessionIsOff DEF RailInv, NoProducerOutlivesItsRail, RadioInv
  <2>3. LiveInv' /\ BoardInv' /\ SourceInv' /\ HalInv' /\ Blameless
    BY <1>1, <1>4, <1>5, <2>1 DEF LiveInv, BoardInv, SourceInv, HalInv, Blameless
  <2> QED BY <2>2, <2>3
<1> QED BY <1>7, <1>8
-----------------------------------------------------------------------------
(* Restoration.                                                            *)
LEMMA RestoresPinsKeepsInv ==
    ASSUME PowerInv, RestoresPins PROVE OwnerInv' /\ Blameless
<1> USE DEF PowerInv, OwnerInv, PowerTypeOK
<1>1. p.state = "rgpio" /\ cable' = cable
  BY DEF RestoresPins
<1>2. Quiet(b)
  BY <1>1 DEF Quiet, BoardInv, HalInv, RadioInv, BusOK, Retains
<1>3. /\ p' = [p EXCEPT !.state = "rrails"] /\ b' = [b EXCEPT !.prepared = FALSE]
      /\ UNCHANGED <<hal, q, r, peer, src, live, wl>>
  BY <1>2 DEF RestoresPins, Goes, Scanning, scanVars
<1>4. p' \in OwnerTypes /\ b' \in BoardTypes
  BY <1>3 DEF OwnerTypes, BoardTypes
<1> USE DEF OwnerTypes, BoardTypes
<1>5. PowerTypeOK' /\ RailInv' /\ RadioInv'
  BY <1>1, <1>3, <1>4 DEF RailInv, NoProducerOutlivesItsRail, RadioInv
<1>6. LiveInv' /\ BoardInv' /\ SourceInv' /\ HalInv' /\ Blameless
  BY <1>1, <1>3 DEF LiveInv, BoardInv, SourceInv, HalInv, Blameless
<1> QED BY <1>5, <1>6

LEMMA RestoresRadioKeepsInv ==
    ASSUME PowerInv, RestoresRadio PROVE OwnerInv' /\ Blameless
<1> USE DEF PowerInv, OwnerInv, PowerTypeOK
<1>1. p.state = "rsettle" /\ cable' = cable
  BY DEF RestoresRadio
<1>2. CASE p.retained
  <2>1. Retains(wl) /\ b.radio = "ready" /\ wl.mode \in AllModes
    BY <1>1, <1>2 DEF RadioInv, BusOK, Retains, BoardTypes, WlTypes
  <2>2. /\ p' = [p EXCEPT !.state = "rlink"] /\ wl' = Session(wl.mode)
        /\ UNCHANGED <<hal, q, r, peer, src, live, b>>
    BY <1>1, <1>2, <2>1 DEF RestoresRadio, SleepSent, Retains, Goes, Scanning, scanVars
  <2>3. p' \in OwnerTypes /\ p'.state = "rlink" /\ p'.ext = p.ext
    BY <2>2 DEF OwnerTypes
  <2>4. PowerTypeOK' /\ RailInv' /\ RadioInv'
    BY <1>1, <2>1, <2>2, <2>3, SessionIsNew DEF RailInv, NoProducerOutlivesItsRail, RadioInv, BusOK
  <2>5. LiveInv' /\ BoardInv' /\ SourceInv' /\ HalInv' /\ Blameless
    BY <1>1, <2>2, <2>3 DEF LiveInv, BoardInv, SourceInv, HalInv, Blameless
  <2> QED BY <2>4, <2>5
<1>3. CASE ~p.retained
  <2>1. b.radio = "off" /\ ~wl.on
    BY <1>1, <1>3 DEF RadioInv
  <2>2. /\ p' = [p EXCEPT !.state = "rradio"] /\ b' = [b EXCEPT !.radio = "pulse"]
        /\ UNCHANGED <<hal, q, r, peer, src, live, wl>>
    BY <1>1, <1>3, <2>1 DEF RestoresRadio, Goes, Scanning, scanVars
  <2>3. p' \in OwnerTypes /\ b' \in BoardTypes
    BY <2>2 DEF OwnerTypes, BoardTypes
  <2> USE DEF OwnerTypes, BoardTypes
  <2>4. PowerTypeOK' /\ RailInv' /\ RadioInv'
    BY <1>1, <2>1, <2>2, <2>3 DEF RailInv, NoProducerOutlivesItsRail, RadioInv, BusOK
  <2>5. LiveInv' /\ BoardInv' /\ SourceInv' /\ HalInv' /\ Blameless
    BY <1>1, <2>2 DEF LiveInv, BoardInv, SourceInv, HalInv, Blameless
  <2> QED BY <2>4, <2>5
<1> QED BY <1>2, <1>3

LEMMA RestoresSessionKeepsInv ==
    ASSUME PowerInv, RestoresSession PROVE OwnerInv' /\ Blameless
<1> USE DEF PowerInv, OwnerInv, PowerTypeOK
<1>1. p.state = "rradio" /\ cable' = cable /\ ~wl.on /\ live.mode \in AllModes
  BY DEF RestoresSession, RadioInv, LiveTypes
<1>2. /\ p' = [p EXCEPT !.state = "rlink"] /\ wl' = Session(live.mode) /\ b' = [b EXCEPT !.radio = "ready"]
      /\ UNCHANGED <<hal, q, r, peer, src, live>>
  BY <1>1 DEF RestoresSession, Goes, Scanning, scanVars
<1>3. p' \in OwnerTypes /\ b' \in BoardTypes
  BY <1>2 DEF OwnerTypes, BoardTypes
<1> USE DEF OwnerTypes, BoardTypes
<1>4. PowerTypeOK' /\ RailInv' /\ RadioInv'
  BY <1>1, <1>2, <1>3, SessionIsNew DEF RailInv, NoProducerOutlivesItsRail, RadioInv, BusOK
<1>5. LiveInv' /\ BoardInv' /\ SourceInv' /\ HalInv' /\ Blameless
  BY <1>1, <1>2 DEF LiveInv, BoardInv, SourceInv, HalInv, Blameless
<1> QED BY <1>4, <1>5

LEMMA WakesKeepsInv ==
    ASSUME PowerInv, Wakes PROVE OwnerInv' /\ Blameless
<1> USE DEF PowerInv, OwnerInv, PowerTypeOK
<1>1. p.state = "rlink" /\ Selected(wl, live.mode) /\ cable' = cable
  BY DEF Wakes
<1>2. hal = "idle" /\ MayResume(wl, b, live.mode, FALSE) /\ live.choice = "none" /\ ~live.tried /\ ~p.ext
      /\ live.mode # "usb"
  BY <1>1 DEF HalInv, MayResume, LiveInv, BoardInv
<1>3. /\ p' = [Woken(p) EXCEPT !.state = "awake", !.cmd = "none", !.committed = FALSE, !.retained = FALSE]
      /\ live' = Resumed(live.mode) /\ hal' = "run" /\ q' = Flushed(q) /\ r' = Unread
      /\ UNCHANGED <<peer, src, wl, b>>
  BY <1>2 DEF Wakes
<1>4. p' \in OwnerTypes /\ p'.state = "awake" /\ p'.ext = p.ext
  BY <1>3 DEF OwnerTypes, Woken
<1>5. /\ live' \in LiveTypes /\ live'.state = "awake" /\ live'.mode = live.mode
      /\ live'.choice = "none" /\ ~live'.tried
  BY <1>2, <1>3 DEF LiveTypes, Resumed
<1>6. ~r'.taken
  BY <1>3 DEF Unread
<1>7. PowerTypeOK' /\ RailInv' /\ RadioInv'
  BY <1>1, <1>2, <1>3, <1>4, <1>5 DEF RailInv, NoProducerOutlivesItsRail, RadioInv
<1>8. b.usb = p.ext
  BY <1>1, <1>2 DEF BoardInv, BoardTypes, OwnerTypes
<1>9. LiveInv' /\ BoardInv'
  BY <1>1, <1>2, <1>3, <1>4, <1>5, <1>8 DEF LiveInv, BoardInv
<1>10. SourceInv' /\ HalInv' /\ Blameless
  BY <1>1, <1>3, <1>4, <1>6 DEF SourceInv, HalInv, Blameless
<1> QED BY <1>7, <1>8, <1>9, <1>10

-----------------------------------------------------------------------------
(* The change of the source.                                               *)
LEMMA SourceEdgeKeepsInv ==
    ASSUME PowerInv, SourceEdge PROVE OwnerInv' /\ Blameless
<1> USE DEF PowerInv, OwnerInv, PowerTypeOK
<1>1. /\ p.state = "source" /\ cable # src.cand /\ cable' = cable
      /\ cable \in BOOLEAN /\ (~cable) \in BOOLEAN
  BY DEF SourceEdge
<1>2. CASE src.state \notin {"drain", "stable"}
  BY <1>1, <1>2, FailsKeepsInv DEF SourceEdge, Blameless, CableCause
<1>3. CASE src.state \in {"drain", "stable"}
  <2>1. /\ src' = [src EXCEPT !.cand = cable] /\ b' = (IF cable THEN b ELSE UsbStopped(b))
        /\ live' = (IF cable THEN live ELSE Suspended(TRUE))
        /\ UNCHANGED <<hal, q, r, peer, p, wl>>
    BY <1>1, <1>3 DEF SourceEdge, Scanning, scanVars
  <2>2. b' = b
    BY <1>1, <1>3, <2>1, UsbStoppedBoard DEF BoardInv
  <2>3. src' \in SourceTypes /\ src'.state = src.state /\ src'.cand = cable /\ src'.starting = src.starting
    BY <1>1, <2>1 DEF SourceTypes
  <2>4. live.state \in {"draining", "parked"} /\ live.choice = "none" /\ ~live.tried
    BY <1>1, <1>3 DEF LiveInv, SourceTypes
  <2>5. /\ live' \in LiveTypes /\ live'.state = live.state /\ live'.mode = live.mode
        /\ live'.choice = "none" /\ ~live'.tried
        /\ ~cable /\ live.mode = "usb" => live'.abandoned
    <3>1. CASE cable
      BY <2>1, <2>4, <3>1
    <3>2. CASE ~cable
      BY <2>1, <2>4, <3>2, SuspendedLive
    <3> QED BY <3>1, <3>2
  <2>6. PowerTypeOK' /\ RailInv' /\ RadioInv'
    BY <1>1, <1>3, <2>1, <2>2, <2>3, <2>5 DEF RailInv, NoProducerOutlivesItsRail, RadioInv
  <2>7. LiveInv' /\ BoardInv'
    BY <1>1, <1>3, <2>1, <2>2, <2>3, <2>5 DEF LiveInv, BoardInv
  <2>8. SourceInv' /\ HalInv' /\ Blameless
    BY <1>1, <1>3, <2>1, <2>2, <2>3, <2>5 DEF SourceInv, HalInv, Blameless
  <2> QED BY <2>6, <2>7, <2>8
<1> QED BY <1>2, <1>3

LEMMA SourceParksKeepsInv ==
    ASSUME PowerInv, SourceParks PROVE OwnerInv' /\ Blameless
<1> USE DEF PowerInv, OwnerInv, PowerTypeOK
<1>1. /\ In("drain") /\ src' = [src EXCEPT !.state = "stable"] /\ live' = Parked
      /\ hal' = "paused" /\ q' = Flushed(q) /\ UNCHANGED <<r, p, cable, peer>>
  BY DEF SourceParks, At, Onward, Calm
<1>2. PICK s \in Served(wl, b.radio) :
         MayPark(s[1], s[2]) /\ wl' = s[1] /\ b' = [Dark(b) EXCEPT !.radio = s[2]]
  BY DEF SourceParks
<1>3. /\ s[1] \in WlTypes /\ s[2] \in {"off", "pulse", "ready", "busy"} /\ BusOK(s[1], s[2])
      /\ s[1].on = wl.on /\ s[1].sleep = wl.sleep /\ (~wl.on => s[2] = b.radio)
  BY BusIsOK, ServedBus
<1>4. /\ b' \in BoardTypes /\ b'.radio = s[2] /\ b'.lights = "stopped" /\ b'.sensor = b.sensor
      /\ b'.usb = b.usb /\ b'.reduced = b.reduced /\ b'.prepared = b.prepared
  BY <1>2, <1>3 DEF BoardTypes, Dark
<1>5. live' \in LiveTypes /\ src' \in SourceTypes /\ src'.state = "stable" /\ src'.starting = src.starting
      /\ src'.cand = src.cand
  BY <1>1 DEF LiveTypes, SourceTypes, Parked
<1>6. /\ live'.state = "parked" /\ live'.mode = live.mode /\ live'.choice = live.choice
      /\ live'.tried = live.tried /\ live'.abandoned = live.abandoned
  BY <1>1 DEF LiveTypes, Parked
<1>7. PowerTypeOK' /\ RailInv' /\ RadioInv'
  BY <1>1, <1>2, <1>3, <1>4, <1>5 DEF RailInv, NoProducerOutlivesItsRail, RadioInv, BusOK
<1>8. LiveInv' /\ BoardInv' /\ SourceInv'
  BY <1>1, <1>2, <1>3, <1>4, <1>5, <1>6 DEF LiveInv, BoardInv, SourceInv
<1>9. HalInv' /\ Blameless
  BY <1>1, <1>5 DEF HalInv, Blameless
<1> QED BY <1>7, <1>8, <1>9

LEMMA SourcePhyKeepsInv ==
    ASSUME PowerInv, SourcePhy PROVE OwnerInv' /\ Blameless
<1> USE DEF PowerInv, OwnerInv, PowerTypeOK
<1> DEFINE X(s) == [b EXCEPT !.radio = s[2]]
           still(move) == Reading(move, 1) = src.sel /\ Reading(move, 2) = src.sel
           up(s) == [X(s) EXCEPT !.usb = TRUE, !.reduced = FALSE]
           down(s) == [X(s) EXCEPT !.reduced = TRUE, !.rtc = IF @ = "ready" THEN @ ELSE "measuring"]
<1>1. In("phy") /\ cable = src.cand /\ src.sel = src.cand
  <2>1. In("phy") /\ cable = src.cand
    BY Zenon DEF SourcePhy, At
  <2> QED BY <2>1 DEF SourceInv
<1>2. PICK s \in Served(wl, b.radio), move \in Moves :
           /\ wl.on => s[2] = "ready"
           /\ cable' = MovedTo(move)
           /\ IF src.sel
              THEN IF b.usb \/ (still(move) /\ ~b.prepared /\ Quiet(X(s)))
                   THEN Onward("stamp") /\ b' = up(s) /\ wl' = s[1]
                        /\ Scanning /\ UNCHANGED <<peer, p, live>>
                   ELSE Fails
              ELSE IF still(move) /\ Quiet(X(s))
                   THEN Onward("rtc") /\ wl' = s[1] /\ b' = down(s)
                        /\ Scanning /\ UNCHANGED <<peer, p, live>>
                   ELSE Fails
  BY DEF SourcePhy
<1>3. /\ s[1] \in WlTypes /\ s[2] \in {"off", "pulse", "ready"} /\ BusOK(s[1], s[2])
      /\ s[1].sleep = wl.sleep /\ s[2] # "pulse"
  <2>1. /\ s[1] \in WlTypes /\ s[2] \in {"off", "pulse", "ready", "busy"} /\ BusOK(s[1], s[2])
        /\ s[1].sleep = wl.sleep /\ s[1].on = wl.on /\ (~wl.on => s[2] = b.radio)
    BY BusIsOK, ServedBus
  <2>2. b.radio # "pulse"
    BY <1>1 DEF RadioInv
  <2> QED BY <1>2, <2>1, <2>2, BusIsOK DEF BusOK
<1>4. /\ X(s) \in BoardTypes /\ X(s).radio = s[2] /\ X(s).lights = "stopped" /\ X(s).sensor = b.sensor
      /\ ~X(s).usb /\ ~X(s).prepared /\ ~b.usb /\ ~b.prepared /\ X(s).led = b.led
  BY <1>1, <1>3 DEF BoardInv, BoardTypes
<1>5. Quiet(X(s))
  <2> HIDE DEF X
  <2> QED BY <1>1, <1>3, <1>4 DEF Quiet, HalInv
<1>6. cable' \in BOOLEAN /\ cable \in BOOLEAN
  BY <1>2 DEF MovedTo
<1>7. ~still(move) => cable' # cable
  BY <1>1, <1>2, <1>6 DEF Reading, MovedTo, Moves, LastRead
<1>8. CASE ~still(move)
  <2>1. Fails
    BY <1>2, <1>4, <1>8
  <2> QED BY <1>1, <1>6, <1>7, <1>8, <2>1, FailsKeepsInv DEF Blameless, CableCause
<1>9. /\ up(s) \in BoardTypes /\ up(s).radio = s[2] /\ up(s).lights = "stopped" /\ up(s).sensor = b.sensor
      /\ up(s).usb /\ ~up(s).prepared /\ ~up(s).reduced
  <2> HIDE DEF X
  <2> QED BY <1>4 DEF BoardTypes
<1>10. /\ down(s) \in BoardTypes /\ down(s).radio = s[2] /\ down(s).lights = "stopped"
       /\ down(s).sensor = b.sensor /\ ~down(s).usb /\ ~down(s).prepared
  <2> HIDE DEF X
  <2> QED BY <1>4 DEF BoardTypes
<1>11. CASE still(move)
  <2>1. PICK next \in {"stamp", "rtc"} :
          /\ src' = [src EXCEPT !.state = next] /\ wl' = s[1]
          /\ b' = (IF src.sel THEN up(s) ELSE down(s)) /\ next = (IF src.sel THEN "stamp" ELSE "rtc")
          /\ UNCHANGED <<hal, q, r, peer, p, live>>
    <3> HIDE DEF up, down, X
    <3> QED BY <1>2, <1>4, <1>5, <1>11 DEF Onward, Scanning, scanVars
  <2>2. /\ src' \in SourceTypes /\ src'.state = next /\ src'.sel = src.sel /\ src'.cand = src.cand
        /\ src'.starting = src.starting
    BY <2>1 DEF SourceTypes
  <2>3. /\ b' \in BoardTypes /\ b'.radio = s[2] /\ b'.lights = "stopped" /\ b'.sensor = b.sensor
        /\ ~b'.prepared /\ b'.usb = src.sel /\ (b'.usb => ~b'.reduced)
    <3> HIDE DEF up, down
    <3> QED BY <1>9, <1>10, <2>1 DEF SourceTypes, BoardTypes
  <2> HIDE DEF up, down, X
  <2>4. PowerTypeOK' /\ RailInv' /\ RadioInv'
    BY <1>1, <1>3, <1>6, <2>1, <2>2, <2>3 DEF RailInv, NoProducerOutlivesItsRail, RadioInv
  <2>5. LiveInv' /\ BoardInv' /\ SourceInv'
    BY <1>1, <1>3, <2>1, <2>2, <2>3 DEF LiveInv, BoardInv, SourceInv
  <2>6. HalInv' /\ Blameless
    BY <1>1, <2>1, <2>2 DEF HalInv, Blameless
  <2> QED BY <2>4, <2>5, <2>6
<1> QED BY <1>8, <1>11

LEMMA SourceStampKeepsInv ==
    ASSUME PowerInv, SourceStamp PROVE OwnerInv' /\ Blameless
<1> USE DEF PowerInv, OwnerInv, PowerTypeOK
<1> DEFINE cold == Target # "usb" /\ ~wl.on
<1>1. In("stamp") /\ cable' = cable
  BY DEF SourceStamp, At
<1>2. ~(cold /\ b.radio # "off")
  BY <1>1 DEF RadioInv, BusOK, BoardTypes
<1>3. cold \in BOOLEAN
  OBVIOUS
<1> HIDE DEF cold
<1>4. /\ src' = [src EXCEPT !.state = "link", !.starting = cold]
      /\ b' = [Lit(b) EXCEPT !.radio = IF cold THEN "pulse" ELSE @]
      /\ UNCHANGED <<hal, q, r, peer, p, live, wl>>
  BY <1>2 DEF SourceStamp, Scanning, scanVars, cold
<1>5. /\ b' \in BoardTypes /\ b'.radio = (IF cold THEN "pulse" ELSE b.radio) /\ b'.lights # "stopped" /\ b'.led
      /\ b'.sensor = b.sensor /\ b'.usb = b.usb /\ b'.reduced = b.reduced /\ b'.prepared = b.prepared
      /\ b'.rtc = b.rtc
  BY <1>4 DEF BoardTypes, Lit
<1>6. /\ src' \in SourceTypes /\ src'.state = "link" /\ src'.sel = src.sel /\ src'.cand = src.cand
      /\ src'.starting = cold
  BY <1>3, <1>4 DEF SourceTypes
<1>7. PowerTypeOK' /\ RailInv'
  BY <1>1, <1>4, <1>5, <1>6 DEF RailInv, NoProducerOutlivesItsRail
<1>8. RadioInv'
  <2>1. CASE cold
    <3>1. ~wl.on /\ wl.sleep = "none"
      BY <2>1 DEF RadioInv, BusOK, cold
    <3>2. BusOK(wl', b'.radio)
      BY <1>4, <1>5, <2>1, <3>1, BusIsOK DEF BusOK
    <3> QED BY <1>1, <1>4, <1>5, <1>6, <2>1, <3>1, <3>2 DEF RadioInv
  <2>2. CASE ~cold
    BY <1>1, <1>4, <1>5, <1>6, <2>2 DEF RadioInv, SourceInv
  <2> QED BY <2>1, <2>2
<1>9. LiveInv' /\ BoardInv' /\ SourceInv'
  BY <1>1, <1>4, <1>5, <1>6 DEF LiveInv, BoardInv, SourceInv
<1>10. HalInv' /\ Blameless
  BY <1>1, <1>4, <1>6 DEF HalInv, Blameless
<1> QED BY <1>7, <1>8, <1>9, <1>10

LEMMA SourceRadioKeepsInv ==
    ASSUME PowerInv, SourceRadio PROVE OwnerInv' /\ Blameless
<1> USE DEF PowerInv, OwnerInv, PowerTypeOK
<1>1. /\ In("link") /\ src' = [src EXCEPT !.starting = FALSE]
      /\ UNCHANGED <<hal, q, r, cable, peer, p, live>>
  BY DEF SourceRadio, At, Scanning, scanVars, Calm
<1>2. Target \in AllModes
  BY DEF Target, OwnerTypes, LiveTypes
<1>3. wl' = Session(Target) /\ b' = [b EXCEPT !.radio = "ready"]
  <2>1. CASE src.starting
    BY <2>1 DEF SourceRadio
  <2>2. CASE ~src.starting
    BY <2>2 DEF SourceRadio, SwitchReady
  <2> QED BY <2>1, <2>2
<1>4. b' \in BoardTypes /\ b'.radio = "ready"
  BY <1>3 DEF BoardTypes
<1>5. /\ src' \in SourceTypes /\ src'.state = "link" /\ src'.sel = src.sel /\ src'.cand = src.cand
      /\ ~src'.starting
  BY <1>1 DEF SourceTypes
<1>6. PowerTypeOK' /\ RailInv'
  BY <1>1, <1>2, <1>3, <1>4, <1>5, SessionIsNew DEF RailInv, NoProducerOutlivesItsRail, BoardTypes
<1>7. RadioInv'
  BY <1>1, <1>2, <1>3, <1>4, <1>5, SessionIsNew DEF RadioInv, BusOK
<1>8. LiveInv' /\ BoardInv' /\ SourceInv'
  BY <1>1, <1>3, <1>4, <1>5 DEF LiveInv, BoardInv, SourceInv, BoardTypes
<1>9. HalInv' /\ Blameless
  BY <1>1, <1>5 DEF HalInv, Blameless
<1> QED BY <1>6, <1>7, <1>8, <1>9

LEMMA SourceReadyKeepsInv ==
    ASSUME PowerInv, SourceReady PROVE OwnerInv' /\ Blameless
<1> USE DEF PowerInv, OwnerInv, PowerTypeOK
<1>1. In("restore") /\ cable' = cable /\ src.sel = src.cand /\ b.usb = src.sel
  BY DEF SourceReady, At, SourceInv, BoardInv
<1>2. hal = "paused" /\ live.state = "parked" /\ b.lights = "ready" /\ live.choice = "none" /\ ~live.tried
  BY <1>1 DEF HalInv, LiveInv, BoardInv
<1>3. /\ Target = live.mode \/ (live.abandoned /\ live.mode = "usb" /\ Target # "usb")
      /\ Target # "usb" => Selected(wl, Target)
      /\ Target \in AllModes
      /\ ~src.sel => Target # "usb"
  BY <1>1 DEF SourceInv, Target, OwnerTypes, LiveTypes
<1>4. MayResume(wl, b, Target, TRUE)
  BY <1>2, <1>3 DEF MayResume
<1>5. /\ p' = [p EXCEPT !.state = "awake", !.ext = src.sel, !.cmd = "none"]
      /\ live' = Resumed(Target) /\ src' = SrcOff /\ hal' = "run" /\ r' = Unread
      /\ UNCHANGED <<q, peer, wl, b>>
  BY <1>1, <1>2, <1>4 DEF SourceReady
<1>6. p' \in OwnerTypes /\ p'.state = "awake" /\ p'.ext = src.sel
  BY <1>5 DEF OwnerTypes, SourceTypes
<1>7. /\ live' \in LiveTypes /\ live'.state = "awake" /\ live'.mode = Target
      /\ live'.choice = "none" /\ ~live'.tried
  BY <1>2, <1>3, <1>5 DEF LiveTypes, Resumed
<1>8. src' \in SourceTypes /\ src'.state = "off" /\ ~src'.starting /\ ~r'.taken
  BY <1>5 DEF SrcOff, SourceTypes, Unread
<1>9. PowerTypeOK' /\ RailInv' /\ RadioInv'
  BY <1>1, <1>5, <1>6, <1>7, <1>8 DEF RailInv, NoProducerOutlivesItsRail, RadioInv, SourceInv
<1>10. LiveInv' /\ BoardInv' /\ SourceInv' /\ HalInv' /\ Blameless
  BY <1>1, <1>2, <1>3, <1>5, <1>6, <1>7, <1>8 DEF LiveInv, BoardInv, SourceInv, HalInv, Blameless
<1> QED BY <1>9, <1>10
-----------------------------------------------------------------------------
(* A failed start, the interrupts and the foreground's frames.             *)
LEMMA BootFailsKeepsInv ==
    ASSUME PowerInv, BootFails PROVE OwnerInv' /\ Blameless
<1> DEFINE x == [b EXCEPT !.led = FALSE, !.sensor = FALSE]
<1> DEFINE y == IF cable # p.ext THEN UsbStopped(x) ELSE x
<1>1. Ends("halted", y) /\ cable' = cable
  BY DEF BootFails
<1>2. b \in BoardTypes /\ (b.usb => ~b.prepared /\ ~b.reduced) /\ cable \in BOOLEAN
  BY DEF PowerInv, OwnerInv, PowerTypeOK, RailInv, NoProducerOutlivesItsRail
<1>3. x \in BoardTypes /\ x.usb = b.usb /\ x.prepared = b.prepared /\ x.reduced = b.reduced
  BY <1>2 DEF BoardTypes
<1> HIDE DEF x
<1>4. y \in BoardTypes /\ (y.usb => ~y.prepared /\ ~y.reduced)
  BY <1>2, <1>3, UsbStoppedBoard
<1> HIDE DEF y
<1> QED BY <1>1, <1>2, <1>4, EndsKeepInv DEF Blameless

LEMMA ScanBreaksKeepsInv ==
    ASSUME PowerInv, ScanBreaks PROVE OwnerInv' /\ Blameless
<1> USE DEF PowerInv, OwnerInv
<1>1. hal \in {"run", "single"} /\ hal' = "off" /\ UNCHANGED <<r, cable, peer, p, src, live, wl, b>>
  BY DEF ScanBreaks, ScanFails, Calm, Rest
<1>2. q'.pending = 0
  BY DEF ScanBreaks, ScanFails, Faulted, Flushed, FrameInv, FrameTypeOK, QueueTypes, ReaderTypes
<1>3. PowerTypeOK' /\ RailInv' /\ RadioInv' /\ LiveInv' /\ BoardInv'
  BY <1>1 DEF PowerTypeOK, RailInv, NoProducerOutlivesItsRail, RadioInv, LiveInv, BoardInv
<1>4. SourceInv' /\ HalInv' /\ Blameless
  BY <1>1, <1>2 DEF SourceInv, HalInv, Target, Blameless
<1> QED BY <1>3, <1>4

LEMMA InterruptKeepsInv ==
    ASSUME PowerInv, Interrupt PROVE OwnerInv' /\ Blameless
<1> USE DEF PowerInv, OwnerInv
<1>1. /\ hal \in {"run", "single"} /\ hal' \in {hal, "done"} /\ (hal = "run" => hal' = hal)
      /\ r'.taken = r.taken /\ r'.seen = r.seen
      /\ UNCHANGED <<cable, peer, p, src, live, wl, b>>
  BY DEF Interrupt, TimerIrq, DmaIrq, Calm, Rest, Aged, FrameInv, FrameTypeOK, QueueTypes, ReaderTypes
<1>2. hal = "single" /\ hal' = "single" => q'.pending = q.pending /\ r'.told = r.told
  BY DEF Interrupt, TimerIrq, DmaIrq, FrameInv, FrameTypeOK, QueueTypes, ReaderTypes
<1>3. hal = "single" /\ hal' = "done" /\ q.pending = 0 => q'.pending = 1 /\ (r.told = 0 => r'.told = 1)
  <2>1. HAVE hal = "single" /\ hal' = "done" /\ q.pending = 0
  <2>2. q' = Queued(MadeRoom(q)) /\ r' = Aged(r)
    BY <2>1 DEF Interrupt, TimerIrq, DmaIrq
  <2>3. MadeRoom(q) = q
    BY <2>1, ScanConstants DEF MadeRoom
  <2> QED BY <2>1, <2>2, <2>3, ScanConstants DEF Queued, Aged, Older, Old, FrameInv, FrameTypeOK, QueueTypes, ReaderTypes
<1>4. PowerTypeOK' /\ RailInv' /\ RadioInv' /\ LiveInv' /\ BoardInv'
  BY <1>1 DEF PowerTypeOK, RailInv, NoProducerOutlivesItsRail, RadioInv, LiveInv, BoardInv
<1>5. SourceInv' /\ Blameless
  BY <1>1 DEF SourceInv, Target, Blameless
<1>6. HalInv'
  <2>1. p.state = "capture" => hal = "single"
    BY <1>1 DEF HalInv
  <2> QED BY <1>1, <1>2, <1>3, <2>1 DEF HalInv
<1> QED BY <1>4, <1>5, <1>6

LEMMA FrameKeepsInv ==
    ASSUME PowerInv, Frame PROVE OwnerInv' /\ Blameless
<1> USE DEF PowerInv, OwnerInv
<1>1. p.state = "awake" /\ hal' = hal /\ UNCHANGED <<cable, peer, p, src, live, wl, b>>
  BY DEF Frame, Judge, Take, SaveGap, Calm, Rest
<1>2. PowerTypeOK' /\ RailInv' /\ RadioInv' /\ LiveInv' /\ BoardInv'
  BY <1>1 DEF PowerTypeOK, RailInv, NoProducerOutlivesItsRail, RadioInv, LiveInv, BoardInv
<1>3. SourceInv' /\ HalInv' /\ Blameless
  BY <1>1 DEF SourceInv, HalInv, Target, Blameless
<1> QED BY <1>2, <1>3

LEMMA DiscardKeepsInv ==
    ASSUME PowerInv, Discard PROVE OwnerInv' /\ Blameless
<1> USE DEF PowerInv, OwnerInv
<1>1. /\ p.state = "drain" \/ In("drain")
      /\ UNCHANGED <<hal, r, cable, peer, p, src, live, wl, b>>
  BY DEF Discard, Calm, Rest
<1>2. PowerTypeOK' /\ RailInv' /\ RadioInv' /\ LiveInv' /\ BoardInv'
  BY <1>1 DEF PowerTypeOK, RailInv, NoProducerOutlivesItsRail, RadioInv, LiveInv, BoardInv
<1>3. SourceInv' /\ HalInv' /\ Blameless
  BY <1>1 DEF SourceInv, HalInv, Target, Blameless
<1> QED BY <1>2, <1>3
-----------------------------------------------------------------------------
(* The frame queue.                                                        *)
LEMMA SpentRing == Spent \in [0 .. QueueFrames - 1 -> 0 .. Old]
BY ScanConstants DEF Spent, Old

LEMMA EmptyQueue == Empty \in QueueTypes /\ Empty.pending = 0
BY ScanConstants, SpentRing DEF Empty, QueueTypes

LEMMA FlushedQueue ==
    ASSUME NEW k \in QueueTypes PROVE Flushed(k) \in QueueTypes /\ Flushed(k).pending = 0
<1>1. 0 \in 0 .. QueueFrames
  BY ScanConstants
<1> QED BY <1>1, SpentRing DEF Flushed, QueueTypes

LEMMA SlotOf ==
    ASSUME NEW x \in 0 .. 2 * QueueFrames - 1
    PROVE  x % QueueFrames = IF x < QueueFrames THEN x ELSE x - QueueFrames
BY ScanConstants

LEMMA TakenQueue ==
    ASSUME NEW k \in QueueTypes, k.pending > 0
    PROVE  /\ Taken(k) \in QueueTypes /\ Taken(k).pending = k.pending - 1
           /\ Taken(k).head = (k.head + 1) % QueueFrames /\ Taken(k).ring = [k.ring EXCEPT ![k.head] = Old]
           /\ Taken(k).noise = k.noise
<1>1. (k.head + 1) % QueueFrames \in 0 .. QueueFrames - 1
  BY ScanConstants, SlotOf DEF QueueTypes
<1>2. Old \in 0 .. Old
  BY ScanConstants DEF Old
<1>3. [k.ring EXCEPT ![k.head] = Old] \in [0 .. QueueFrames - 1 -> 0 .. Old]
  BY <1>2 DEF QueueTypes
<1>4. k.pending - 1 \in 0 .. QueueFrames
  BY ScanConstants DEF QueueTypes
<1> HIDE DEF Old
<1>5. Taken(k) \in QueueTypes
  BY <1>1, <1>3, <1>4 DEF Taken, QueueTypes
<1> QED BY <1>5 DEF Taken, QueueTypes

(* What every step but a frame's own does to the queue: it leaves it, or   *)
(* empties it; the reader keeps what it had or has had nothing.            *)
Unqueued(k) ==
    /\ k \in QueueTypes
    /\ k.pending = 0 \/ (k.pending = q.pending /\ k.head = q.head /\ k.ring = q.ring)
Undisturbed == Unqueued(q') /\ r' \in {r, Unread}

LEMMA UndisturbedKeepsFrames ==
    ASSUME FrameInv, Undisturbed PROVE FrameInv'
<1> USE DEF FrameInv, Undisturbed, Unqueued
<1>1. FrameTypeOK'
  <2>1. Unread \in ReaderTypes
    BY ScanConstants DEF Unread, ReaderTypes, Old
  <2> QED BY <2>1 DEF FrameTypeOK
<1>2. RingIsItsSequence'
  BY DEF RingIsItsSequence, InSequence
<1>3. r'.frame = r'.told /\ (r'.hole => r'.taken) /\ (r'.hole /\ r'.seen => r'.gap)
  BY DEF Unread
<1> QED BY <1>1, <1>2, <1>3

(* ... and nearly always this way.                                         *)
LeftAlone == q' \in {q, Empty, Flushed(q)} /\ r' \in {r, Unread}

LEMMA LeftAloneIsUndisturbed == ASSUME FrameInv, LeftAlone PROVE Undisturbed
BY FlushedQueue, EmptyQueue DEF LeftAlone, Undisturbed, Unqueued, FrameInv, FrameTypeOK

LEMMA FailsFlush == Fails => q' = Flushed(q) /\ r' = Unread
BY DEF Fails, FailsWith, Ends

(* The steps that neither complete nor take a frame.                       *)
OwnerActs ==
    \/ BootClock \/ BootSleeps \/ BootRails \/ BootCaptures \/ BootCaptured \/ BootRestores
    \/ BootUsb \/ BootPower \/ BootStart \/ BootScan \/ BootLinks \/ BootRadio
    \/ BootApp \/ BootFails \/ Reset \/ HealthFails \/ AwakeEdge \/ BlankCancels
    \/ PeerCancels \/ PeerSleeps \/ CableWakes \/ DeepenCancels \/ Deepens \/ RestoresPins
    \/ RestoresRails \/ RestoresRadio \/ RestoresSession \/ SourceEdge \/ SourceParks \/ SourceStable
    \/ SourcePhy \/ SourceClock \/ SourceStamp \/ SourceReady \/ SourceRadio \/ SourceLinked
    \/ Wakes \/ SilenceFails \/ Choose \/ Withdraw \/ Try \/ TryRadio
    \/ Switches \/ SleepRequested \/ Parks \/ BlankAsks \/ BlankExpires \/ Settles
    \/ BeginsDeepen \/ Sleeps \/ Stamps \/ StartsCapture \/ LightTurn \/ RadioTurn
    \/ CableMoves \/ PeerChanges

LEMMA OwnerLeavesFrames ==
    ASSUME FrameInv, OwnerActs PROVE Undisturbed
<1>1. CASE BootCaptures
  <2>1. Unqueued(q') /\ r' = r
    BY <1>1 DEF BootCaptures, BootKeeps, Unqueued, FrameInv, FrameTypeOK, QueueTypes
  <2> QED BY <2>1 DEF Undisturbed
<1>2. CASE BootScan
  <2>1. Taken(q) \in QueueTypes /\ q' = Flushed(Taken(q)) /\ r' = r
    BY <1>2, TakenQueue DEF BootScan, BootKeeps, FrameWaits, FrameInv, FrameTypeOK
  <2> QED BY <2>1, FlushedQueue DEF Undisturbed, Unqueued
<1>3. CASE StartsCapture
  <2>1. CASE Fails
    BY <2>1, FailsFlush, LeftAloneIsUndisturbed DEF LeftAlone
  <2>2. CASE q' = [q EXCEPT !.busy = TRUE, !.next = 0] /\ r' = r
    <3>1. Unqueued(q')
      BY <2>2 DEF Unqueued, FrameInv, FrameTypeOK, QueueTypes
    <3> QED BY <2>2, <3>1 DEF Undisturbed
  <2> QED BY <1>3, <2>1, <2>2 DEF StartsCapture
<1>4. ASSUME ~BootCaptures, ~BootScan, ~StartsCapture PROVE LeftAlone
  <2> USE DEF LeftAlone
  <2>1. CASE BootClock
    BY <2>1 DEF BootClock, BootKeeps
  <2>2. CASE BootSleeps
    BY <2>2 DEF BootSleeps, BootKeeps
  <2>3. CASE BootRails
    BY <2>3 DEF BootRails, BootKeeps
  <2>4. CASE BootCaptured
    BY <2>4 DEF BootCaptured, BootKeeps
  <2>5. CASE BootRestores
    BY <2>5 DEF BootRestores, BootKeeps
  <2>6. CASE BootUsb
    BY <2>6 DEF BootUsb, BootKeeps
  <2>7. CASE BootPower
    BY <2>7 DEF BootPower, BootKeeps
  <2>8. CASE BootStart
    BY <2>8 DEF BootStart, BootKeeps
  <2>9. CASE BootLinks
    BY <2>9 DEF BootLinks, BootKeeps
  <2>10. CASE BootRadio
    BY <2>10 DEF BootRadio, BootKeeps
  <2>11. CASE BootApp
    BY <2>11 DEF BootApp, BootKeeps
  <2>12. CASE BootFails
    BY <2>12 DEF BootFails, Ends
  <2>13. CASE Reset
    BY <2>13 DEF Reset
  <2>14. CASE HealthFails
    BY <2>14, FailsFlush DEF HealthFails
  <2>15. CASE AwakeEdge
    BY <2>15 DEF AwakeEdge, FailsWith, Ends
  <2>16. CASE BlankCancels
    BY <2>16 DEF BlankCancels, CancelSleep, FailsWith, Ends
  <2>17. CASE PeerCancels
    BY <2>17 DEF PeerCancels, CancelSleep, FailsWith, Ends
  <2>18. CASE PeerSleeps
    BY <2>18, FailsFlush DEF PeerSleeps, Descends, Restore
  <2>19. CASE CableWakes
    BY <2>19, FailsFlush DEF CableWakes, Restore
  <2>20. CASE DeepenCancels
    BY <2>20 DEF DeepenCancels, Restore
  <2>21. CASE Deepens
    BY <2>21, FailsFlush DEF Deepens, Restore, Scanning, scanVars
  <2>22. CASE RestoresPins
    BY <2>22, FailsFlush DEF RestoresPins, Scanning, scanVars
  <2>23. CASE RestoresRails
    BY <2>23 DEF RestoresRails
  <2>24. CASE RestoresRadio
    BY <2>24, FailsFlush DEF RestoresRadio, Scanning, scanVars
  <2>25. CASE RestoresSession
    BY <2>25, FailsFlush DEF RestoresSession, Scanning, scanVars
  <2>26. CASE SourceEdge
    BY <2>26, FailsFlush DEF SourceEdge, Scanning, scanVars
  <2>27. CASE SourceParks
    BY <2>27 DEF SourceParks
  <2>28. CASE SourceStable
    BY <2>28 DEF SourceStable, Scanning, scanVars
  <2>29. CASE SourcePhy
    BY <2>29, FailsFlush DEF SourcePhy, Scanning, scanVars
  <2>30. CASE SourceClock
    BY <2>30 DEF SourceClock, Scanning, scanVars
  <2>31. CASE SourceStamp
    BY <2>31, FailsFlush DEF SourceStamp, Scanning, scanVars
  <2>32. CASE SourceReady
    BY <2>32, FailsFlush DEF SourceReady
  <2>33. CASE SourceRadio
    BY <2>33 DEF SourceRadio, Scanning, scanVars
  <2>34. CASE SourceLinked
    BY <2>34 DEF SourceLinked, Scanning, scanVars
  <2>35. CASE Wakes
    BY <2>35, FailsFlush DEF Wakes
  <2>36. CASE SilenceFails
    BY <2>36, FailsFlush DEF SilenceFails
  <2>37. CASE Choose
    BY <2>37 DEF Choose, Scanning, scanVars
  <2>38. CASE Withdraw
    BY <2>38 DEF Withdraw, Scanning, scanVars
  <2>39. CASE Try
    BY <2>39 DEF Try, Scanning, scanVars
  <2>40. CASE TryRadio
    BY <2>40 DEF TryRadio, Scanning, scanVars
  <2>41. CASE Switches
    BY <2>41 DEF Switches, Scanning, scanVars
  <2>42. CASE SleepRequested
    BY <2>42, FailsFlush DEF SleepRequested
  <2>43. CASE Parks
    BY <2>43 DEF Parks
  <2>44. CASE BlankAsks
    BY <2>44 DEF BlankAsks, Scanning, scanVars
  <2>45. CASE BlankExpires
    BY <2>45, FailsFlush DEF BlankExpires
  <2>46. CASE Settles
    BY <2>46 DEF Settles, Scanning, scanVars
  <2>47. CASE BeginsDeepen
    BY <2>47, FailsFlush DEF BeginsDeepen, Scanning, scanVars
  <2>48. CASE Sleeps
    BY <2>48, FailsFlush DEF Sleeps, Restore, Scanning, scanVars
  <2>49. CASE Stamps
    BY <2>49 DEF Stamps
  <2>50. CASE LightTurn
    BY <2>50 DEF LightTurn, Scanning, scanVars
  <2>51. CASE RadioTurn
    BY <2>51 DEF RadioTurn, Scanning, scanVars
  <2>52. CASE CableMoves
    BY <2>52 DEF CableMoves, Scanning, scanVars
  <2>53. CASE PeerChanges
    BY <2>53 DEF PeerChanges, Scanning, scanVars
  <2> QED BY <2>1, <2>2, <2>3, <2>4, <2>5, <2>6, <2>7, <2>8, <2>9, <2>10, <2>11, <2>12, <2>13, <2>14,
           <2>15, <2>16, <2>17, <2>18, <2>19, <2>20, <2>21, <2>22, <2>23, <2>24, <2>25,
           <2>26, <2>27, <2>28, <2>29, <2>30, <2>31, <2>32, <2>33, <2>34, <2>35, <2>36,
           <2>37, <2>38, <2>39, <2>40, <2>41, <2>42, <2>43, <2>44, <2>45, <2>46, <2>47,
           <2>48, <2>49, <2>50, <2>51, <2>52, <2>53,
             <1>4 DEF OwnerActs
<1> QED BY <1>1, <1>2, <1>3, <1>4, LeftAloneIsUndisturbed
-----------------------------------------------------------------------------
(* A frame enters the queue, and leaves it.                                *)
LEMMA SlotsDiffer ==
    ASSUME NEW h \in 0 .. QueueFrames - 1, NEW i \in 0 .. QueueFrames - 1, NEW j \in 0 .. QueueFrames - 1,
           i # j
    PROVE  (h + i) % QueueFrames # (h + j) % QueueFrames
<1>0. h + i \in 0 .. 2 * QueueFrames - 1 /\ h + j \in 0 .. 2 * QueueFrames - 1
  BY ScanConstants
<1>1. (h + i) % QueueFrames = IF h + i < QueueFrames THEN h + i ELSE h + i - QueueFrames
  BY <1>0, SlotOf, ScanConstants
<1>2. (h + j) % QueueFrames = IF h + j < QueueFrames THEN h + j ELSE h + j - QueueFrames
  BY <1>0, SlotOf, ScanConstants
<1> QED BY <1>1, <1>2, ScanConstants

LEMMA NextSlot ==
    ASSUME NEW h \in 0 .. QueueFrames - 1, NEW i \in 0 .. QueueFrames - 2
    PROVE  (((h + 1) % QueueFrames) + i) % QueueFrames = (h + (i + 1)) % QueueFrames
<1>1. (h + 1) % QueueFrames = IF h + 1 < QueueFrames THEN h + 1 ELSE 0
  BY ScanConstants, SlotOf
<1>2. /\ ((h + 1) % QueueFrames) + i \in 0 .. 2 * QueueFrames - 1
      /\ h + (i + 1) \in 0 .. 2 * QueueFrames - 1
  BY <1>1, ScanConstants
<1>3. CASE h + 1 < QueueFrames
  BY <1>1, <1>3, ScanConstants
<1>4. CASE ~(h + 1 < QueueFrames)
  <2>1. h = QueueFrames - 1 /\ (h + 1) % QueueFrames = 0
    BY <1>1, <1>4, ScanConstants
  <2>2. (h + (i + 1)) % QueueFrames = i /\ i % QueueFrames = i
    BY <1>2, <2>1, ScanConstants, SlotOf
  <2> QED BY <2>1, <2>2, ScanConstants
<1> QED BY <1>3, <1>4

LEMMA FirstSlot == ASSUME NEW h \in 0 .. QueueFrames - 1 PROVE (h + 0) % QueueFrames = h
BY ScanConstants, SlotOf

LEMMA TakenInSequence ==
    ASSUME NEW k \in QueueTypes, InSequence(k), k.pending > 0
    PROVE  InSequence(Taken(k)) /\ k.ring[k.head] = k.pending - 1
<1> DEFINE t == Taken(k)
<1>1. /\ k.head \in 0 .. QueueFrames - 1 /\ k.pending \in 1 .. QueueFrames
      /\ k.ring \in [0 .. QueueFrames - 1 -> 0 .. Old]
  BY ScanConstants DEF QueueTypes
<1>2. /\ t.pending = k.pending - 1 /\ t.head = (k.head + 1) % QueueFrames
      /\ t.ring = [k.ring EXCEPT ![k.head] = Old]
  BY TakenQueue
<1> HIDE DEF t
<1>3. ASSUME NEW i \in 0 .. k.pending - 2
      PROVE  t.ring[(t.head + i) % QueueFrames] = k.pending - 2 - i
  <2> DEFINE slot == (k.head + (i + 1)) % QueueFrames
  <2>0. i \in 0 .. QueueFrames - 2 /\ k.head + (i + 1) \in 0 .. 2 * QueueFrames - 1
    <3>1. QueueFrames \in Int /\ k.pending \in Int /\ k.pending <= QueueFrames /\ i \in Int /\ 0 <= i
          /\ i <= k.pending - 2 /\ k.head \in Int /\ 0 <= k.head /\ k.head <= QueueFrames - 1
      BY <1>1, ScanConstants
    <3> QED BY <3>1
  <2>1. (t.head + i) % QueueFrames = slot
    BY <1>1, <1>2, <2>0, NextSlot
  <2>2. i + 1 \in 0 .. QueueFrames - 1 /\ 0 \in 0 .. QueueFrames - 1 /\ i + 1 # 0
    BY <1>1, ScanConstants
  <2>3. slot # k.head
    BY <1>1, <2>2, SlotsDiffer, FirstSlot
  <2>4. slot \in 0 .. QueueFrames - 1
    BY <2>0, SlotOf, ScanConstants
  <2>5. k.ring[slot] = k.pending - 1 - (i + 1)
    BY <1>1 DEF InSequence
  <2> HIDE DEF slot
  <2> QED BY <1>1, <1>2, <2>1, <2>3, <2>4, <2>5
<1>4. k.ring[k.head] = k.pending - 1
  <2>1. 0 \in 0 .. k.pending - 1
    BY <1>1
  <2>2. k.ring[(k.head + 0) % QueueFrames] = k.pending - 1 - 0
    BY <2>1 DEF InSequence
  <2> QED BY <1>1, <2>2, FirstSlot
<1>5. InSequence(t)
  BY <1>1, <1>2, <1>3 DEF InSequence
<1> QED BY <1>4, <1>5 DEF t

LEMMA RoomInSequence ==
    ASSUME NEW k \in QueueTypes, InSequence(k)
    PROVE  /\ MadeRoom(k) \in QueueTypes /\ InSequence(MadeRoom(k))
           /\ MadeRoom(k).pending < QueueFrames
<1> DEFINE t == MadeRoom(k)
<1>1. CASE k.pending < QueueFrames
  BY <1>1 DEF MadeRoom
<1>2. CASE ~(k.pending < QueueFrames)
  <2>1. k.pending = QueueFrames /\ QueueFrames > 0 /\ QueueFrames \in Nat /\ k.head \in 0 .. QueueFrames - 1
    BY <1>2, ScanConstants DEF QueueTypes
  <2>2. (k.head + 1) % QueueFrames \in 0 .. QueueFrames - 1
    BY <2>1, SlotOf
  <2>3. k.pending - 1 \in 0 .. QueueFrames
    BY <2>1
  <2>4. /\ t \in QueueTypes /\ t.pending = k.pending - 1 /\ t.head = (k.head + 1) % QueueFrames
        /\ t.ring = k.ring
    BY <1>2, <2>2, <2>3 DEF MadeRoom, QueueTypes
  <2> HIDE DEF t
  <2>5. ASSUME NEW i \in 0 .. t.pending - 1
        PROVE  t.ring[(t.head + i) % QueueFrames] = t.pending - 1 - i
    <3>0. i \in 0 .. QueueFrames - 2
      BY <2>1, <2>4
    <3>1. (t.head + i) % QueueFrames = (k.head + (i + 1)) % QueueFrames
      BY <2>1, <2>4, <3>0, NextSlot
    <3>2. k.ring[(k.head + (i + 1)) % QueueFrames] = k.pending - 1 - (i + 1)
      BY <2>1, <2>4 DEF InSequence
    <3> QED BY <2>1, <2>4, <3>1, <3>2
  <2>6. InSequence(t)
    BY <2>5 DEF InSequence
  <2> QED BY <2>1, <2>4, <2>6 DEF t
<1> QED BY <1>1, <1>2

LEMMA QueuedInSequence ==
    ASSUME NEW k \in QueueTypes, InSequence(k), k.pending < QueueFrames
    PROVE  Queued(k) \in QueueTypes /\ InSequence(Queued(k))
<1> DEFINE t == Queued(k)
           slot == (k.head + k.pending) % QueueFrames
           aged == [i \in 0 .. QueueFrames - 1 |-> IF i = slot THEN 0 ELSE Older(k.ring[i])]
<1>1. /\ k.head \in 0 .. QueueFrames - 1 /\ k.pending \in 0 .. QueueFrames - 1
      /\ k.ring \in [0 .. QueueFrames - 1 -> 0 .. Old] /\ QueueFrames \in Nat /\ Old = QueueFrames + 1
  BY ScanConstants DEF QueueTypes, Old
<1>2. slot \in 0 .. QueueFrames - 1
  BY <1>1, SlotOf
<1>3. \A age \in 0 .. Old : Older(age) \in 0 .. Old
  BY <1>1 DEF Older
<1>4. aged \in [0 .. QueueFrames - 1 -> 0 .. Old]
  <2>1. ASSUME NEW i \in 0 .. QueueFrames - 1
        PROVE  (IF i = slot THEN 0 ELSE Older(k.ring[i])) \in 0 .. Old
    <3>1. k.ring[i] \in 0 .. Old /\ 0 \in 0 .. Old
      BY <1>1
    <3> QED BY <1>3, <3>1
  <2> HIDE DEF slot
  <2> QED BY <2>1
<1>5. t = [k EXCEPT !.busy = FALSE, !.next = 0, !.pending = k.pending + 1, !.ring = aged]
  BY <1>1 DEF Queued
<1>6. k.pending + 1 \in 0 .. QueueFrames
  BY <1>1
<1> HIDE DEF t, aged
<1>7. t \in QueueTypes /\ t.pending = k.pending + 1 /\ t.head = k.head /\ t.ring = aged
  BY <1>4, <1>5, <1>6 DEF QueueTypes
<1>8. ASSUME NEW i \in 0 .. k.pending
      PROVE  aged[(k.head + i) % QueueFrames] = k.pending - i
  <2>1. (k.head + i) % QueueFrames \in 0 .. QueueFrames - 1
    BY <1>1, SlotOf
  <2>2. CASE i = k.pending
    BY <1>1, <2>1, <2>2 DEF aged
  <2>3. CASE i # k.pending
    <3>1. i \in 0 .. k.pending - 1 /\ i \in 0 .. QueueFrames - 1
      BY <1>1, <2>3
    <3>2. (k.head + i) % QueueFrames # slot
      BY <1>1, <2>3, <3>1, SlotsDiffer
    <3>3. k.ring[(k.head + i) % QueueFrames] = k.pending - 1 - i
      BY <3>1 DEF InSequence
    <3>4. Older(k.pending - 1 - i) = k.pending - i
      <4>1. k.pending \in Int /\ i \in Int /\ k.pending - 1 - i < Old
        BY <1>1, <3>1
      <4> QED BY <4>1 DEF Older
    <3> HIDE DEF slot
    <3>5. aged[(k.head + i) % QueueFrames] = Older(k.ring[(k.head + i) % QueueFrames])
      BY <2>1, <3>2 DEF aged
    <3> QED BY <3>3, <3>4, <3>5
  <2> QED BY <2>2, <2>3
<1>9. InSequence(t)
  BY <1>1, <1>7, <1>8 DEF InSequence
<1> QED BY <1>7, <1>9 DEF t

LEMMA InterruptKeepsFrames == ASSUME FrameInv, Interrupt PROVE FrameInv'
<1> USE DEF FrameInv, FrameTypeOK, RingIsItsSequence
<1>1. CASE Undisturbed
  BY <1>1, UndisturbedKeepsFrames
<1>2. CASE q' = Queued(MadeRoom(q)) /\ r' = Aged(r)
  <2>1. q' \in QueueTypes /\ InSequence(q')
    BY <1>2, RoomInSequence, QueuedInSequence
  <2>2. \A age \in 0 .. Old : Older(age) \in 0 .. Old
    BY ScanConstants DEF Older, Old
  <2>3. r' \in ReaderTypes /\ r'.told = Older(r.told) /\ r'.frame = Older(r.frame)
        /\ r'.hole = r.hole /\ r'.taken = r.taken /\ r'.seen = r.seen /\ r'.gap = r.gap
    BY <1>2, <2>2 DEF Aged, ReaderTypes
  <2> QED BY <2>1, <2>3
<1>3. CASE q' = [q EXCEPT !.busy = TRUE] /\ r' = r
  <2>1. Unqueued(q')
    BY <1>3 DEF Unqueued, QueueTypes
  <2> QED BY <1>1, <1>3, <2>1 DEF Undisturbed
<1>4. CASE q' = [q EXCEPT !.next = @ + 1] /\ r' = r
  <2>1. Unqueued(q')
    BY <1>4 DEF Unqueued, QueueTypes
  <2> QED BY <1>1, <1>4, <2>1 DEF Undisturbed
<1> QED BY <1>2, <1>3, <1>4 DEF Interrupt, TimerIrq, DmaIrq

LEMMA FrameKeepsFrames == ASSUME FrameInv, Frame PROVE FrameInv'
<1> USE DEF FrameInv, FrameTypeOK, RingIsItsSequence
<1>1. CASE Judge
  <2>1. q' \in QueueTypes /\ q'.pending = q.pending /\ q'.head = q.head /\ q'.ring = q.ring
    BY <1>1 DEF Judge, QueueTypes
  <2>2. /\ r' \in ReaderTypes /\ r'.told = r.told /\ r'.frame = r.frame /\ ~r'.hole
    BY <1>1 DEF Judge, ReaderTypes
  <2> QED BY <2>1, <2>2 DEF InSequence
<1>2. CASE SaveGap
  <2>1. Undisturbed
    BY <1>2, FlushedQueue DEF SaveGap, Undisturbed, Unqueued
  <2> QED BY <2>1, UndisturbedKeepsFrames
<1>3. CASE Take
  <2>1. q.pending > 0 /\ q' = Taken(q)
    BY <1>3 DEF Take, FrameWaits
  <2>2. q' \in QueueTypes /\ InSequence(q') /\ q.ring[q.head] = Told
    BY <2>1, TakenQueue, TakenInSequence DEF Told
  <2>3. Told \in 0 .. Old
    BY <2>1, ScanConstants DEF Told, Old, QueueTypes
  <2> DEFINE gap == r.seen /\ r.told # Told + 1
             hole == r.frame # Told + 1
  <2>4. gap \in BOOLEAN /\ hole \in BOOLEAN
    BY DEF ReaderTypes
  <2>5. r' = [r EXCEPT !.taken = TRUE, !.told = Told, !.frame = Told, !.gap = gap, !.hole = hole]
    BY <1>3, <2>2 DEF Take
  <2>6. hole /\ r.seen => gap
    OBVIOUS
  <2> HIDE DEF gap, hole
  <2>7. /\ r' \in ReaderTypes /\ r'.told = Told /\ r'.frame = Told /\ r'.taken /\ r'.seen = r.seen
        /\ r'.gap = gap /\ r'.hole = hole
    BY <2>3, <2>4, <2>5 DEF ReaderTypes
  <2> QED BY <2>2, <2>6, <2>7
<1> QED BY <1>1, <1>2, <1>3 DEF Frame

LEMMA DiscardKeepsFrames == ASSUME FrameInv, Discard PROVE FrameInv'
BY TakenQueue, TakenInSequence DEF Discard, FrameWaits, FrameInv, FrameTypeOK, RingIsItsSequence

LEMMA ScanBreaksKeepsFrames == ASSUME FrameInv, ScanBreaks PROVE FrameInv'
<1>1. Flushed(q) \in QueueTypes /\ Flushed(q).pending = 0 /\ q' = [Flushed(q) EXCEPT !.noise = TRUE] /\ r' = r
  BY FlushedQueue DEF ScanBreaks, ScanFails, Faulted, FrameInv, FrameTypeOK
<1>2. Unqueued(q')
  BY <1>1 DEF Unqueued, QueueTypes
<1> QED BY <1>1, <1>2, UndisturbedKeepsFrames DEF Undisturbed

LEMMA CapturedKeepsFrames == ASSUME PowerInv, Captured PROVE FrameInv'
<1> USE DEF PowerInv, FrameInv, FrameTypeOK, RingIsItsSequence
<1>1. CASE Fails
  BY <1>1, FailsFlush, FlushedQueue, UndisturbedKeepsFrames DEF Undisturbed, Unqueued
<1>2. CASE Restore(p, wl, b)
  BY <1>2, FlushedQueue, UndisturbedKeepsFrames DEF Undisturbed, Unqueued, Restore
<1>3. CASE /\ q.pending > 0 /\ q' = Taken(q)
           /\ r' = [r EXCEPT !.seen = TRUE, !.told = Told, !.frame = q.ring[q.head]]
  <2>1. q' \in QueueTypes /\ InSequence(q') /\ q.ring[q.head] = Told
    BY <1>3, TakenQueue, TakenInSequence DEF Told
  <2>2. Told \in 0 .. Old
    BY <1>3, ScanConstants DEF Told, Old, QueueTypes
  <2>3. ~r.taken
    BY DEF Captured, OwnerInv, HalInv
  <2>4. r' \in ReaderTypes /\ r'.told = Told /\ r'.frame = Told /\ r'.hole = r.hole
    BY <1>3, <2>1, <2>2 DEF ReaderTypes
  <2> QED BY <2>1, <2>3, <2>4
<1> QED BY <1>1, <1>2, <1>3 DEF Captured, FrameWaits
-----------------------------------------------------------------------------
(* The whole.                                                              *)
LEMMA InitEstablishesInv == PowerInit => PowerInv
<1> HAVE PowerInit
<1>1. FrameInv
  <2>1. q \in QueueTypes /\ q.pending = 0
    BY EmptyQueue DEF PowerInit
  <2>2. r \in ReaderTypes /\ r.frame = r.told /\ ~r.hole
    BY ScanConstants DEF PowerInit, Unread, ReaderTypes, Old
  <2> QED BY <2>1, <2>2 DEF FrameInv, FrameTypeOK, RingIsItsSequence, InSequence
<1>2. /\ p \in OwnerTypes /\ p.state = (IF cable THEN "busb" ELSE "brtc") /\ p.ext = cable /\ cable \in BOOLEAN
      /\ p.cmd = "none" /\ ~p.committed
  BY DefaultIsARadio DEF PowerInit, ColdOwner, OwnerTypes
<1>3. /\ b \in BoardTypes /\ b.lights = "stopped" /\ ~b.sensor /\ ~b.led /\ b.radio = "off" /\ ~b.usb
      /\ (cable => ~b.reduced)
  BY DEF PowerInit, ColdBoard, BoardTypes
<1>4. /\ src \in SourceTypes /\ src.state = "off" /\ ~src.starting
      /\ live \in LiveTypes /\ live.state = "off" /\ live.choice = "none" /\ ~live.tried
  BY DEF PowerInit, SrcOff, LiveOff, SourceTypes, LiveTypes, AllModes, Modes
<1>5. wl = NoSession /\ hal = "off" /\ peer = "searching" /\ ~r.taken
  BY DEF PowerInit, Unread
<1>6. PowerTypeOK /\ RailInv /\ RadioInv
  BY <1>2, <1>3, <1>4, <1>5, NoSessionIsOff
     DEF PowerTypeOK, RailInv, NoProducerOutlivesItsRail, RadioInv, BusOK
<1>7. LiveInv /\ BoardInv /\ SourceInv /\ HalInv
  BY <1>2, <1>3, <1>4, <1>5 DEF LiveInv, BoardInv, SourceInv, HalInv
<1> QED BY <1>1, <1>6, <1>7 DEF PowerInv, OwnerInv

LEMMA OwnerActsKeepInv == ASSUME PowerInv, OwnerActs PROVE OwnerInv' /\ Blameless
BY BootClockKeepsInv, BootSleepsKeepsInv, BootRailsKeepsInv, BootCapturesKeepsInv,
   BootCapturedKeepsInv, BootRestoresKeepsInv, BootUsbKeepsInv, BootPowerKeepsInv,
   BootStartKeepsInv, BootScanKeepsInv, BootLinksKeepsInv, BootRadioKeepsInv,
   BootAppKeepsInv, BootFailsKeepsInv, ResetKeepsInv, ScanFailureKeepsInv,
   AwakeEdgeKeepsInv, BlankCancelsKeepsInv, PeerCancelsKeepsInv, PeerSleepsKeepsInv,
   CableWakesKeepsInv, DeepenCancelsKeepsInv, DeepensKeepsInv, RestoresPinsKeepsInv,
   RestoresRailsKeepsInv, RestoresRadioKeepsInv, RestoresSessionKeepsInv, SourceEdgeKeepsInv,
   SourceParksKeepsInv, SourceStableKeepsInv, SourcePhyKeepsInv, SourceClockKeepsInv,
   SourceStampKeepsInv, SourceReadyKeepsInv, SourceRadioKeepsInv, SourceLinkedKeepsInv,
   WakesKeepsInv, ChooseKeepsInv, WithdrawKeepsInv, TryKeepsInv,
   TryRadioKeepsInv, SwitchesKeepsInv, SleepRequestedKeepsInv, ParksKeepsInv,
   BlankAsksKeepsInv, BlankExpiresKeepsInv, SettlesKeepsInv, BeginsDeepenKeepsInv,
   SleepsKeepsInv, StampsKeepsInv, StartsCaptureKeepsInv, LightTurnKeepsInv,
   RadioTurnKeepsInv, CableMovesKeepsInv, PeerChangesKeepsInv
   DEF OwnerActs

LEMMA NextKeepsInv == ASSUME PowerInv, PowerNext PROVE PowerInv' /\ Blameless
<1>1. FrameInv
  BY DEF PowerInv
<1>2. CASE OwnerActs
  BY <1>1, <1>2, OwnerActsKeepInv, OwnerLeavesFrames, UndisturbedKeepsFrames DEF PowerInv
<1>3. CASE Captured
  BY <1>3, CapturedKeepsInv, CapturedKeepsFrames DEF PowerInv
<1>4. CASE Interrupt
  BY <1>1, <1>4, InterruptKeepsInv, InterruptKeepsFrames DEF PowerInv
<1>5. CASE Frame
  BY <1>1, <1>5, FrameKeepsInv, FrameKeepsFrames DEF PowerInv
<1>6. CASE Discard
  BY <1>1, <1>6, DiscardKeepsInv, DiscardKeepsFrames DEF PowerInv
<1>7. CASE ScanBreaks
  BY <1>1, <1>7, ScanBreaksKeepsInv, ScanBreaksKeepsFrames DEF PowerInv
<1> QED
  BY <1>2, <1>3, <1>4, <1>5, <1>6, <1>7
     DEF PowerNext, Advances, Booting, Answered, Idling, Outside, OwnerActs

LEMMA StutterKeepsInv == ASSUME PowerInv, UNCHANGED powerVars PROVE PowerInv'
<1> USE DEF powerVars
<1>1. FrameInv'
  BY DEF PowerInv, FrameInv, FrameTypeOK, RingIsItsSequence, InSequence
<1>2. PowerTypeOK' /\ RailInv' /\ RadioInv'
  BY DEF PowerInv, OwnerInv, PowerTypeOK, RailInv, NoProducerOutlivesItsRail, RadioInv, BusOK, Retains
<1>3. LiveInv' /\ BoardInv' /\ SourceInv' /\ HalInv'
  BY DEF PowerInv, OwnerInv, LiveInv, BoardInv, SourceInv, HalInv, Target, Selected
<1> QED BY <1>1, <1>2, <1>3 DEF PowerInv, OwnerInv

(* In every state the M1's owner reaches, what it believes of its phase    *)
(* agrees with the peripherals, the radio's session and the frame queue:   *)
(* each interleaving of m1_startup.c, m1_runtime_power.c, m1_source.c, the *)
(* interrupts and the cable keeps PowerInv.                                *)
THEOREM PowerInvariant == PowerSpec => []PowerInv
<1>1. PowerInv /\ [PowerNext]_powerVars => PowerInv'
  BY NextKeepsInv, StutterKeepsInv
<1> QED BY InitEstablishesInv, <1>1, PTL DEF PowerSpec

(* The frame the foreground takes is the one whose number m1_scan.c tells  *)
(* it, for every length of the queue and however often it overflowed.      *)
THEOREM FramesCorrect == PowerSpec => []FrameIsItsSequence
<1>1. PowerInv => FrameIsItsSequence
  BY DEF PowerInv, FrameInv, FrameIsItsSequence
<1> QED BY PowerInvariant, <1>1, PTL

(* A missing frame cancels all input: m1_live.c's comparison of sequence   *)
(* numbers sees every hole, also one whose error count it had already read. *)
THEOREM LossesCorrect == PowerSpec => []LossesAreNoticed
<1>1. PowerInv => LossesAreNoticed
  BY DEF PowerInv, FrameInv, LossesAreNoticed, Cancels, Lost
<1> QED BY PowerInvariant, <1>1, PTL

(* The scanner runs only with the sensors on, the lights only with theirs, *)
(* USB never with sleeping pins or a reduced PHY (m1_sleep.c, m1_main.c).  *)
THEOREM RailsCorrect == PowerSpec => []NoProducerOutlivesItsRail
<1>1. PowerInv => NoProducerOutlivesItsRail
  BY DEF PowerInv, OwnerInv, RailInv
<1> QED BY PowerInvariant, <1>1, PTL

(* The owner gives up only for a cause from outside: a broken scanner, a   *)
(* cable that moves under a change of source, a silent peer or a host that *)
(* leaves; no order of its own calls makes a peripheral refuse.            *)
THEOREM FailuresCorrect == PowerSpec => FailsOnlyForCause
<1>1. PowerInv /\ [PowerNext]_powerVars
        => [GivesUp => ScanBroke \/ CableCause \/ peer = "silent" \/ HostLeft]_powerVars
  <2> SUFFICES ASSUME PowerInv, PowerNext
               PROVE  GivesUp => ScanBroke \/ CableCause \/ peer = "silent" \/ HostLeft
    OBVIOUS
  <2> QED BY NextKeepsInv DEF Blameless, GivesUp
<1> QED BY PowerInvariant, <1>1, PTL DEF PowerSpec, FailsOnlyForCause
=============================================================================
