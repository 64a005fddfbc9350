-------------------------- MODULE M1WirelessProofs --------------------------
(***************************************************************************)
(* Proofs about the M1's radio scheduler for every set of modes, keys and  *)
(* usages, every number of list slots and every glitch of the peer.  The   *)
(* only assumption is WirelessConstants.                                   *)
(*                                                                         *)
(* The parts of the invariant are operators on a session, the HAL's state, *)
(* its packet, the peer and the hosts, so that what one call does to a     *)
(* session in several steps (complete, age, send) is proved step by step.  *)
(***************************************************************************)
EXTENDS M1Wireless, TLAPS

-----------------------------------------------------------------------------
(* Types.                                                                  *)
ReportTypes == [list : SUBSET Keys, map : SUBSET Keys, over : BOOLEAN]
Commands == {"none", "sleep", "retain"}
Kinds == {"none", "poll", "keys", "bitmap", "battery", "consumer", "sleep", "pair", "mode", "query"}
UsageTypes == Usages \cup {NoUsage}
SessionTypes ==
    [active : BOOLEAN, faulted : BOOLEAN, target : Modes, confirmed : BOOLEAN, have : BOOLEAN,
     fresh : BOOLEAN, state : {"search", "reports", "pairing", "unknown"}, linked : BOOLEAN,
     modeSent : BOOLEAN, flight : Kinds, part : {"keys", "bitmap"}, pending : BOOLEAN,
     committed : ReportTypes, staged : ReportTypes, reports : BOOLEAN, sleep : Commands,
     sleepDone : BOOLEAN, before : Commands, pair : {"none", "queued", "refresh"}, paired : BOOLEAN,
     battery : {"none", "due", "flying", "sent"}, usage : UsageTypes, usageStaged : UsageTypes,
     usagePending : BOOLEAN, usageSeen : BOOLEAN]
HalStates == {"off", "pulse", "ready", "transfer", "done", "fault"}
PacketTypes ==
    [kind : Kinds, list : SUBSET Keys, map : SUBSET Keys, over : BOOLEAN, usage : UsageTypes,
     arg : Commands \cup Modes]
PeerTypes == [mode : Modes, link : {"search", "reports", "pairing"}, asleep : Commands]
HostTypes ==
    [list : SUBSET Keys, map : SUBSET Keys, usage : UsageTypes, torn : {"no", "torn", "mending"},
     stray : BOOLEAN]
TypesOK(s, radio, packet, pr, hosts) ==
    /\ s \in SessionTypes /\ radio \in HalStates /\ packet \in PacketTypes
    /\ pr \in PeerTypes /\ hosts \in [Modes -> HostTypes]

-----------------------------------------------------------------------------
(* The wire: what is in flight is in the HAL's buffer, and only a live     *)
(* session has something in flight.                                        *)
Alive(s) == s.active /\ ~s.faulted
Reporting(s) == s.flight \in {"keys", "bitmap"}
WireInv(s, radio, packet) ==
    /\ s.flight # "none" <=> radio \in {"transfer", "done"}
    /\ packet.kind = s.flight
    /\ s.flight # "none" => Alive(s)
    /\ Alive(s) => radio # "off"
    /\ s.flight = "mode" => ~s.confirmed /\ s.pair = "none" /\ packet.arg = s.target
    /\ s.flight = "sleep" => packet.arg = s.sleep
    /\ s.sleep # "none" => s.flight \in {"none", "sleep"}
    /\ s.pair = "queued" => s.flight \in {"none", "pair"}
    /\ s.flight = "sleep" => s.sleep # "none" /\ ~s.sleepDone
    /\ s.flight = "pair" => s.pair = "queued"
    /\ Reporting(s) /\ s.linked =>
          IF s.flight = "keys" THEN packet.list = s.staged.list /\ packet.over = s.staged.over
          ELSE packet.map = s.staged.map
    /\ s.flight = "consumer" /\ s.linked => packet.usage = s.usageStaged

(* The session: who is linked is confirmed; nothing to send means that     *)
(* the last report was the staged one; without a link, and before a sleep  *)
(* command, everything is released, also what is given up on the wire.     *)
Follows(last, next) ==
    /\ last.list \cap Carried(next) \subseteq next.list
    /\ last.map \cap Carried(next) \subseteq next.map
ToldReports(s) == s.confirmed /\ s.have /\ s.fresh /\ s.state = "reports" /\ s.target # "usb"
AllReleased(s) == s.committed = Released /\ s.staged = Released
Spoken(s) == \* the peer was sent something for its host
    s.reports \/ (s.pending /\ s.part = "bitmap") \/ s.flight \in {"keys", "bitmap", "consumer"}
ReportsInv(s) ==
    /\ ~s.linked => AllReleased(s)
    /\ s.sleep # "none" => AllReleased(s) /\ ~s.pending
    /\ ~s.pending => s.staged = s.committed
    /\ ~s.reports => AllReleased(s)
    /\ Alive(s) /\ ~s.reports /\ ~s.pending => s.target = "usb" \/ s.pair # "none" \/ s.sleep # "none"
    /\ Follows(s.committed, s.staged)
    /\ Reporting(s) => s.pending
    /\ Reporting(s) => IF s.linked THEN s.part = s.flight ELSE ~s.reports
UsageInv(s) ==
    /\ ~s.linked \/ s.sleep # "none" => s.usage = NoUsage
    /\ ~s.linked /\ (s.usagePending \/ s.flight = "consumer") => s.usageStaged = NoUsage
    /\ s.sleep # "none" => ~s.usagePending
    /\ s.flight = "consumer" /\ s.linked => s.usagePending
SessionInv(s) ==
    /\ s.linked => s.confirmed /\ s.target # "usb"
    /\ s.confirmed => s.modeSent
    /\ s.pair # "none" => ~s.confirmed /\ ~s.pending /\ s.sleep = "none"
    /\ s.before # "none" => s.sleep # "none"
    /\ ToldReports(s) => s.linked
    /\ Spoken(s) => s.target # "usb" /\ (s.confirmed \/ s.pair # "none")
    /\ ReportsInv(s) /\ UsageInv(s)

(* The peer: once it was spoken to it serves the session's slot; it sleeps *)
(* only on command; its host holds nothing when a session begins and when  *)
(* it is out of reach, and no usage that the session does not know of.     *)
Holds(host1) == host1.list \cup host1.map
Mute(host1) == Holds(host1) = {} /\ host1.usage = NoUsage
Silenced(host1) ==
    /\ host1.torn = "no" => Holds(host1) = {}
    /\ ~host1.stray => host1.usage = NoUsage
ListSent(s, radio) == s.pending /\ (s.part = "bitmap" \/ (s.flight = "keys" /\ radio = "done"))
MapSent(s, radio) == s.flight = "bitmap" /\ radio = "done"
UsageSent(s, radio) == s.flight = "consumer" /\ radio = "done" /\ s.linked
ServedInv(s, radio, host1) ==
    /\ host1.torn = "no" /\ ~s.reports => Holds(host1) = {}
    /\ host1.torn = "mending" =>
          /\ ~s.staged.over /\ ~MapSent(s, radio)
          /\ ListSent(s, radio) \/ ~s.reports \/ s.pair # "none"
    /\ ~host1.stray =>
          host1.usage \in {NoUsage, IF UsageSent(s, radio) THEN s.usageStaged ELSE s.usage}
    /\ ~s.linked /\ radio = "transfer" /\ s.flight \in {"keys", "bitmap", "consumer"} => Holds(host1) = {}
PeerInv(s, radio, pr, hosts) ==
    /\ s.linked \/ Spoken(s) => pr.mode = s.target /\ (pr.link = "reports" \/ Mute(hosts[pr.mode]))
    /\ Alive(s) /\ pr.asleep # "none" =>
          s.sleep # "none" /\ (s.sleepDone \/ s.flight = "sleep" \/ s.before # "none")
    /\ ~Alive(s) /\ radio \notin {"off", "fault"} =>
          pr.asleep = "none" /\ (pr.link = "reports" => hosts[pr.mode] = Quiet)
    /\ pr.link = "reports" => pr.mode # "usb"
    /\ Alive(s) /\ pr.link = "reports" => ServedInv(s, radio, hosts[pr.mode])

(* The host: what it has of the last report and of the next.               *)
HostInv(s, radio, host1) ==
    /\ host1.torn # "torn" /\ ListSent(s, radio) /\ ~s.staged.over => host1.list \subseteq s.staged.list
    /\ (host1.torn # "torn" \/ s.staged # Released) /\ MapSent(s, radio) =>
          /\ host1.map \subseteq s.staged.map
          /\ host1.list \subseteq s.staged.list \/ s.staged.map \subseteq host1.map
    /\ s.reports =>
          /\ host1.torn = "no" /\ ~s.committed.over /\ (s.staged.over \/ ~ListSent(s, radio)) =>
                host1.list \subseteq s.committed.list
          /\ host1.torn = "no" \/ s.committed # Released =>
                /\ ~MapSent(s, radio) => host1.map \subseteq s.committed.map
                /\ ~ListSent(s, radio) =>
                      host1.list \subseteq s.committed.list \/ s.committed.map \subseteq host1.map

InvOf(s, radio, packet, pr, hosts) ==
    /\ TypesOK(s, radio, packet, pr, hosts)
    /\ WireInv(s, radio, packet) /\ SessionInv(s)
    /\ PeerInv(s, radio, pr, hosts) /\ HostInv(s, radio, hosts[pr.mode])
WirelessInv == InvOf(w, spi, tx, peer, host)

-----------------------------------------------------------------------------
(* What the session's operators make of its fields.                        *)
LEMMA ReportFacts ==
    /\ Released \in ReportTypes /\ Released.list = {} /\ Released.map = {} /\ ~Released.over
    /\ Carried(Released) = {}
    /\ \A k : Follows(Released, k)
    /\ \A k : Follows(k, k)
  BY DEF Released, ReportTypes, Carried, Follows

LEMMA SessionFields ==
  ASSUME NEW m \in Modes PROVE Session(m) \in SessionTypes
  BY ReportFacts, WirelessConstants DEF Session, SessionTypes, UsageTypes, Commands, Kinds, NoPacket

LEMMA BaselineFields ==
  ASSUME NEW s \in SessionTypes, NEW t, t = Baseline(s)
  PROVE  /\ t \in SessionTypes
         /\ t.active = s.active /\ t.faulted = s.faulted /\ t.target = s.target
         /\ t.confirmed = s.confirmed /\ t.have = s.have /\ t.fresh = s.fresh /\ t.state = s.state
         /\ t.linked = s.linked /\ t.modeSent = s.modeSent /\ t.flight = s.flight
         /\ t.sleep = s.sleep /\ t.sleepDone = s.sleepDone /\ t.before = s.before
         /\ t.pair = s.pair /\ ~t.reports /\ t.pending /\ t.part = "keys"
         /\ t.committed = Released /\ t.staged = Released
         /\ t.usage = NoUsage /\ t.usageStaged = NoUsage /\ ~t.usagePending
<1>1. t \in SessionTypes
  <2> DEFINE u == [s EXCEPT !.committed = Released, !.staged = Released, !.reports = FALSE]
             v == [u EXCEPT !.pending = TRUE, !.part = "keys", !.usage = NoUsage]
  <2>1. u \in SessionTypes
    BY ReportFacts DEF SessionTypes
  <2> HIDE DEF u
  <2>2. NoUsage \in UsageTypes
    BY DEF UsageTypes
  <2>3. v \in SessionTypes
    BY <2>1, <2>2, ZenonT(30) DEF SessionTypes
  <2> HIDE DEF v
  <2>4. [v EXCEPT !.usageStaged = NoUsage, !.usagePending = FALSE, !.usageSeen = FALSE] \in SessionTypes
    BY <2>2, <2>3, ZenonT(30) DEF SessionTypes
  <2> QED BY <2>4 DEF Baseline, u, v
<1>2. /\ t.active = s.active /\ t.faulted = s.faulted /\ t.target = s.target
      /\ t.confirmed = s.confirmed /\ t.have = s.have /\ t.fresh = s.fresh /\ t.state = s.state
      /\ t.linked = s.linked /\ t.modeSent = s.modeSent /\ t.flight = s.flight
      /\ t.sleep = s.sleep /\ t.sleepDone = s.sleepDone /\ t.before = s.before
      /\ t.pair = s.pair
  BY DEF Baseline, SessionTypes
<1>3. /\ ~t.reports /\ t.pending /\ t.part = "keys"
      /\ t.committed = Released /\ t.staged = Released
      /\ t.usage = NoUsage /\ t.usageStaged = NoUsage /\ ~t.usagePending
  BY DEF Baseline, SessionTypes
<1> QED BY <1>1, <1>2, <1>3

LEMMA UnlinkedFields ==
  ASSUME NEW s \in SessionTypes, NEW t, t = Unlinked(s)
  PROVE  /\ t \in SessionTypes
         /\ t.active = s.active /\ t.faulted = s.faulted /\ t.target = s.target
         /\ t.confirmed = s.confirmed /\ t.have = s.have /\ t.fresh = s.fresh /\ t.state = s.state
         /\ t.modeSent = s.modeSent /\ t.flight = s.flight /\ t.sleep = s.sleep
         /\ t.sleepDone = s.sleepDone /\ t.before = s.before /\ t.pair = s.pair
         /\ ~t.linked /\ ~t.reports /\ t.pending /\ t.part = "keys"
         /\ t.committed = Released /\ t.staged = Released
         /\ t.usage = NoUsage /\ t.usageStaged = NoUsage /\ ~t.usagePending
<1> DEFINE u == [s EXCEPT !.linked = FALSE, !.paired = FALSE, !.battery = Dropped(@)]
<1>1. Dropped(s.battery) \in {"none", "due", "flying", "sent"}
  BY DEF SessionTypes, Dropped
<1>2. u \in SessionTypes
  <2> DEFINE v == [s EXCEPT !.linked = FALSE, !.paired = FALSE]
  <2>1. v \in SessionTypes
    BY DEF SessionTypes
  <2> HIDE DEF v
  <2>2. PICK battery \in {"none", "due", "flying", "sent"} : battery = Dropped(s.battery)
    BY <1>1
  <2>3. [v EXCEPT !.battery = battery] \in SessionTypes
    BY <2>1 DEF SessionTypes
  <2> QED BY <2>2, <2>3 DEF u, v
<1>3. /\ ~u.linked /\ u.active = s.active /\ u.faulted = s.faulted /\ u.target = s.target
      /\ u.confirmed = s.confirmed /\ u.have = s.have /\ u.fresh = s.fresh /\ u.state = s.state
      /\ u.modeSent = s.modeSent /\ u.flight = s.flight /\ u.sleep = s.sleep
      /\ u.sleepDone = s.sleepDone /\ u.before = s.before /\ u.pair = s.pair
  BY DEF SessionTypes
<1> HIDE DEF u
<1>4. t = Baseline(u)
  BY DEF Unlinked, u
<1> QED BY <1>2, <1>3, <1>4, BaselineFields

(* m1_radio_keyboard_update: a key of the last report that the next one    *)
(* holds too keeps its place.                                              *)
LEMMA PlacedFollows ==
  ASSUME NEW k \in ReportTypes, NEW report \in SUBSET Keys
  PROVE  Placed(k, report) \in ReportTypes /\ Follows(k, Placed(k, report))
<1> DEFINE keep == Kept(k, report)
           extended == (report \ LowKeys) \ keep.list
           low == (report \cap LowKeys) \ (keep.list \cup keep.map)
           room == ListSlots - Cardinality(keep.list)
           first == Smallest(extended, room)
           then == Smallest(low, room - Cardinality(first))
           next == Placed(k, report)
<1>1. first \subseteq report /\ then \subseteq report /\ low \subseteq report
  BY DEF Smallest
<1>2. keep.list = k.list \cap report /\ keep.map = k.map \cap report
  BY DEF Kept
<1>3. /\ next.list = keep.list \cup first \cup then /\ next.map = keep.map \cup (low \ then)
      /\ next.over = (first # extended)
      /\ next = [list |-> next.list, map |-> next.map, over |-> next.over]
  BY DEF Placed
<1> HIDE DEF keep, extended, low, room, first, then, next
<1>4. next \in ReportTypes
  BY <1>1, <1>2, <1>3 DEF ReportTypes
<1>5. Follows(k, next)
  BY <1>1, <1>2, <1>3 DEF Follows, Carried
<1> QED BY <1>4, <1>5 DEF next

-----------------------------------------------------------------------------
(* A host that was told nothing but released keys and usages.              *)
LEMMA ReleasedHost ==
  ASSUME NEW s, NEW radio, NEW packet, NEW pr, NEW hosts, InvOf(s, radio, packet, pr, hosts),
         Alive(s), AllReleased(s), ~MapSent(s, radio), hosts[pr.mode].torn = "no", pr.link = "reports"
  PROVE  Holds(hosts[pr.mode]) = {}
<1>1. CASE ~s.reports
  BY <1>1 DEF InvOf, PeerInv, ServedInv
<1>2. CASE s.reports
  BY <1>2, ReportFacts DEF InvOf, HostInv, AllReleased, Holds
<1> QED BY <1>1, <1>2

LEMMA SilencedHost ==
  ASSUME NEW s, NEW radio, NEW packet, NEW pr, NEW hosts, InvOf(s, radio, packet, pr, hosts),
         Alive(s), AllReleased(s), s.usage = NoUsage, s.flight = "none", pr.link = "reports"
  PROVE  Silenced(hosts[pr.mode])
<1>1. ~MapSent(s, radio) /\ ~UsageSent(s, radio)
  BY DEF MapSent, UsageSent
<1>2. hosts[pr.mode].torn = "no" => Holds(hosts[pr.mode]) = {}
  BY <1>1, ReleasedHost
<1>3. ~hosts[pr.mode].stray => hosts[pr.mode].usage = NoUsage
  BY <1>1 DEF InvOf, PeerInv, ServedInv
<1> QED BY <1>2, <1>3 DEF Silenced

(* A host of which nothing is known yet but that it is silenced: a session *)
(* that has sent it nothing may serve it.                                  *)
LEMMA SilencedIsServed ==
  ASSUME NEW s, NEW radio, NEW host1, Silenced(host1), ~s.reports, AllReleased(s),
         s.flight = "none"
  PROVE  ServedInv(s, radio, host1)
  BY ReportFacts DEF Silenced, ServedInv, MapSent, UsageSent, AllReleased

LEMMA FollowsRefl == ASSUME NEW k PROVE Follows(k, k)
  BY ReportFacts
LEMMA SilentHost ==
  ASSUME NEW s, NEW radio, NEW host1, Holds(host1) = {} PROVE HostInv(s, radio, host1)
  BY DEF HostInv, Holds

LEMMA QuietHost ==
  /\ Quiet \in HostTypes /\ Mute(Quiet) /\ Silenced(Quiet)
  /\ \A s, radio : ServedInv(s, radio, Quiet) /\ HostInv(s, radio, Quiet)
<1>1. Quiet \in HostTypes
  BY DEF Quiet, HostTypes, UsageTypes
<1>2. Mute(Quiet) /\ Quiet.torn = "no" /\ ~Quiet.stray /\ Quiet.list = {} /\ Quiet.map = {}
  BY DEF Quiet, Mute, Holds
<1> QED BY <1>1, <1>2 DEF Mute, Silenced, ServedInv, HostInv, Holds

-----------------------------------------------------------------------------
(* fail, stop, begin_session and resume: a session ends and begins.        *)
LEMMA EndedFields ==
  ASSUME NEW s, s.target \in Modes, NEW t, t \in {Failed(s), Stopped(s)}
  PROVE  /\ t \in SessionTypes
         /\ ~Alive(t) /\ ~t.linked /\ ~t.confirmed /\ ~t.pending /\ ~t.reports /\ t.flight = "none"
         /\ t.sleep = "none" /\ t.before = "none" /\ t.pair = "none" /\ t.part = "keys"
         /\ t.committed = Released /\ t.staged = Released
         /\ t.usage = NoUsage /\ t.usageStaged = NoUsage /\ ~t.usagePending
<1> DEFINE u == Session(s.target)
<1>1. /\ u \in SessionTypes
      /\ ~u.linked /\ ~u.confirmed /\ ~u.reports /\ u.flight = "none"
      /\ u.sleep = "none" /\ u.before = "none" /\ u.pair = "none" /\ u.part = "keys"
      /\ u.committed = Released /\ u.staged = Released
      /\ u.usage = NoUsage /\ u.usageStaged = NoUsage /\ ~u.usagePending
  BY SessionFields DEF Session, NoPacket
<1>2. Ended(s) = [u EXCEPT !.pending = FALSE]
  BY DEF Ended
<1> HIDE DEF u
<1>3. CASE t = Failed(s)
  <2>1. t = [u EXCEPT !.pending = FALSE, !.faulted = TRUE]
    BY <1>1, <1>2, <1>3 DEF Failed
  <2> QED BY <1>1, <2>1, ZenonT(30) DEF SessionTypes, Alive
<1>4. CASE t = Stopped(s)
  <2>1. t = [u EXCEPT !.pending = FALSE, !.active = FALSE]
    BY <1>1, <1>2, <1>4 DEF Stopped
  <2> QED BY <1>1, <2>1, ZenonT(30) DEF SessionTypes, Alive
<1> QED BY <1>3, <1>4

LEMMA EndedTypes ==
  ASSUME NEW s \in SessionTypes PROVE Ended(s) \in SessionTypes
<1> DEFINE u == Session(s.target)
<1>1. s.target \in Modes
  BY DEF SessionTypes
<1>2. u \in SessionTypes
  BY <1>1, SessionFields
<1> HIDE DEF u
<1>3. [u EXCEPT !.pending = FALSE] \in SessionTypes
  BY <1>2, ZenonT(30) DEF SessionTypes
<1> QED BY <1>3 DEF Ended, u

LEMMA EndedKeeps ==
  ASSUME NEW s, NEW radio, NEW packet, NEW pr, NEW hosts, InvOf(s, radio, packet, pr, hosts),
         NEW d, d.target = s.target, NEW t, t \in {Failed(d), Stopped(d)}
  PROVE  InvOf(t, "off", Idle, pr, hosts)
<1>1. s.target \in Modes
  BY DEF InvOf, TypesOK, SessionTypes
<1>2. t \in SessionTypes
  BY <1>1, EndedFields
<1>3. /\ ~Alive(t) /\ ~t.linked /\ ~t.confirmed /\ ~t.pending /\ ~t.reports /\ t.flight = "none"
      /\ t.sleep = "none" /\ t.before = "none" /\ t.pair = "none" /\ t.part = "keys"
      /\ t.committed = Released /\ t.staged = Released
      /\ t.usage = NoUsage /\ t.usageStaged = NoUsage /\ ~t.usagePending
  BY <1>1, EndedFields
<1>4. TypesOK(t, "off", Idle, pr, hosts) /\ Idle.kind = "none"
  BY <1>2 DEF InvOf, TypesOK, HalStates, PacketTypes, Idle, NoPacket, Kinds, UsageTypes, Commands
<1>5. WireInv(t, "off", Idle)
  BY <1>3, <1>4 DEF WireInv, Reporting
<1>6. SessionInv(t)
  BY <1>3, ReportFacts DEF SessionInv, ReportsInv, UsageInv, Spoken, Reporting, AllReleased, ToldReports
<1>7. PeerInv(t, "off", pr, hosts) /\ HostInv(t, "off", hosts[pr.mode])
  BY <1>3 DEF InvOf, PeerInv, HostInv, ListSent, MapSent, Spoken
<1> QED BY <1>4, <1>5, <1>6, <1>7 DEF InvOf

LEMMA BegunKeeps ==
  ASSUME NEW m \in Modes, NEW packet, NEW pr, NEW hosts,
         NEW t, t = Session(m), packet.kind = "none",
         TypesOK(t, "ready", packet, pr, hosts), pr.asleep = "none",
         pr.link = "reports" => pr.mode # "usb" /\ Silenced(hosts[pr.mode])
  PROVE  InvOf(t, "ready", packet, pr, hosts)
<1>1. /\ Alive(t) /\ ~t.linked /\ ~t.confirmed /\ t.pending /\ ~t.reports /\ t.flight = "none"
      /\ t.sleep = "none" /\ t.before = "none" /\ t.pair = "none" /\ t.part = "keys"
      /\ t.committed = Released /\ t.staged = Released
      /\ t.usage = NoUsage /\ t.usageStaged = NoUsage /\ ~t.usagePending
  BY DEF Session, Alive, NoPacket
<1>2. WireInv(t, "ready", packet)
  BY <1>1 DEF WireInv, Reporting
<1>3. SessionInv(t)
  BY <1>1, ReportFacts DEF SessionInv, ReportsInv, UsageInv, Spoken, Reporting, AllReleased, ToldReports
<1>4. PeerInv(t, "ready", pr, hosts) /\ HostInv(t, "ready", hosts[pr.mode])
  BY <1>1, SilencedIsServed DEF PeerInv, HostInv, ListSent, MapSent, Spoken, AllReleased
<1> QED BY <1>2, <1>3, <1>4 DEF InvOf

-----------------------------------------------------------------------------
(* A packet is handed to an idle HAL.                                      *)
LEMMA ToldIsLinked ==
  ASSUME NEW s, SessionInv(s), Eligible(s)
  PROVE  s.linked /\ s.sleep = "none" /\ s.pair = "none"
  BY DEF SessionInv, Eligible, ToldReports

LEMMA SentInTurn ==
  ASSUME NEW s, SessionInv(s), s.part \in {"keys", "bitmap"}, NEW k \in Sendable(s)
  PROVE  /\ k \in Kinds \ {"none"}
         /\ s.sleep # "none" => k = "sleep"
         /\ s.pair = "queued" => k = "pair"
         /\ k = "sleep" => s.sleep # "none" /\ ~s.sleepDone
         /\ k = "pair" => s.pair = "queued"
         /\ k = "mode" => ~s.confirmed /\ s.pair \notin {"queued", "refresh"}
         /\ k \in {"keys", "bitmap"} => k = s.part /\ s.pending /\ s.linked
         /\ k = "consumer" => s.usagePending /\ s.linked
<1>1. s.sleep # "none" => s.pair = "none"
  BY DEF SessionInv
<1> QED BY <1>1, ToldIsLinked DEF Sendable, Kinds, Regular, Asking

LEMMA FlyingFields ==
  ASSUME NEW s \in SessionTypes, NEW k \in Kinds, NEW t, t = Flying(s, k)
  PROVE  /\ t \in SessionTypes
         /\ t.active = s.active /\ t.faulted = s.faulted /\ t.target = s.target
         /\ t.confirmed = s.confirmed /\ t.have = s.have /\ t.fresh = s.fresh /\ t.state = s.state
         /\ t.linked = s.linked /\ (s.modeSent => t.modeSent) /\ t.flight = k
         /\ t.sleep = s.sleep /\ t.sleepDone = s.sleepDone /\ t.before = s.before
         /\ t.pair = s.pair /\ t.reports = s.reports /\ t.pending = s.pending /\ t.part = s.part
         /\ t.committed = s.committed /\ t.staged = s.staged
         /\ t.usage = s.usage /\ t.usageStaged = s.usageStaged /\ t.usagePending = s.usagePending
<1>1. PICK sent \in BOOLEAN : sent = (s.modeSent \/ k = "mode")
  BY DEF SessionTypes
<1>3. PICK battery \in {"none", "due", "flying", "sent"} :
         battery = IF k = "battery" THEN "flying" ELSE s.battery
  BY DEF SessionTypes
<1>4. t = [s EXCEPT !.flight = k, !.modeSent = sent, !.battery = battery]
  BY <1>1, <1>3 DEF Flying
<1>5. t \in SessionTypes
  <2> DEFINE u == [s EXCEPT !.flight = k, !.modeSent = sent]
  <2>1. u \in SessionTypes
    BY DEF SessionTypes
  <2> HIDE DEF u
  <2>2. [u EXCEPT !.battery = battery] \in SessionTypes
    BY <2>1, ZenonT(30) DEF SessionTypes
  <2> QED BY <1>4, <2>2 DEF u
<1>6. t.flight = k /\ t.modeSent = sent
  BY <1>4 DEF SessionTypes
<1>7. /\ t.active = s.active /\ t.faulted = s.faulted /\ t.target = s.target
      /\ t.confirmed = s.confirmed /\ t.have = s.have /\ t.fresh = s.fresh /\ t.state = s.state
      /\ t.linked = s.linked /\ t.sleep = s.sleep /\ t.sleepDone = s.sleepDone /\ t.before = s.before
      /\ t.pair = s.pair /\ t.reports = s.reports /\ t.pending = s.pending /\ t.part = s.part
      /\ t.committed = s.committed /\ t.staged = s.staged
      /\ t.usage = s.usage /\ t.usageStaged = s.usageStaged /\ t.usagePending = s.usagePending
  BY <1>4 DEF SessionTypes
<1> QED BY <1>1, <1>5, <1>6, <1>7

LEMMA PacketFields ==
  ASSUME NEW s \in SessionTypes, NEW k \in Kinds
  PROVE  /\ Packet(s, k) \in PacketTypes /\ Packet(s, k).kind = k
         /\ k = "sleep" => Packet(s, k).arg = s.sleep
         /\ k = "mode" => Packet(s, k).arg = s.target
         /\ k = "keys" => Packet(s, k).list = s.staged.list /\ Packet(s, k).over = s.staged.over
         /\ k = "bitmap" => Packet(s, k).map = s.staged.map
         /\ k = "consumer" => Packet(s, k).usage = s.usageStaged
<1>1. s.staged \in ReportTypes /\ s.usageStaged \in UsageTypes /\ s.sleep \in Commands /\ s.target \in Modes
  BY DEF SessionTypes
<1>2. Idle \in PacketTypes
  BY DEF PacketTypes, Idle, NoPacket, Kinds, UsageTypes, Commands
<1>3. CASE k = "keys"
  BY <1>1, <1>2, <1>3 DEF Packet, PacketTypes, ReportTypes
<1>4. CASE k = "bitmap"
  BY <1>1, <1>2, <1>4 DEF Packet, PacketTypes, ReportTypes
<1>5. CASE k = "consumer"
  BY <1>1, <1>2, <1>5 DEF Packet, PacketTypes
<1>6. CASE k = "sleep"
  BY <1>1, <1>2, <1>6 DEF Packet, PacketTypes
<1>7. CASE k = "mode"
  BY <1>1, <1>2, <1>7 DEF Packet, PacketTypes
<1>8. CASE k \notin {"keys", "bitmap", "consumer", "sleep", "mode"}
  BY <1>1, <1>2, <1>8 DEF Packet, PacketTypes
<1> QED BY <1>3, <1>4, <1>5, <1>6, <1>7, <1>8

LEMMA FlyingKeeps ==
  ASSUME NEW s, NEW packet, NEW pr, NEW hosts, InvOf(s, "ready", packet, pr, hosts), Alive(s),
         NEW k \in Sendable(s), NEW t, t = Flying(s, k)
  PROVE  InvOf(t, "transfer", Packet(s, k), pr, hosts)
<1> DEFINE sent == Packet(s, k)
<1>1. /\ s \in SessionTypes /\ WireInv(s, "ready", packet) /\ SessionInv(s)
      /\ PeerInv(s, "ready", pr, hosts) /\ HostInv(s, "ready", hosts[pr.mode])
      /\ pr \in PeerTypes /\ hosts \in [Modes -> HostTypes]
  BY DEF InvOf, TypesOK
<1>2. s.part \in {"keys", "bitmap"} /\ s.pair \in {"none", "queued", "refresh"} /\ s.flight = "none"
  BY <1>1 DEF SessionTypes, WireInv
<1>3. /\ k \in Kinds \ {"none"}
      /\ s.sleep # "none" => k = "sleep"
      /\ s.pair = "queued" => k = "pair"
      /\ k = "sleep" => s.sleep # "none" /\ ~s.sleepDone
      /\ k = "pair" => s.pair = "queued"
      /\ k = "mode" => ~s.confirmed /\ s.pair \notin {"queued", "refresh"}
      /\ k \in {"keys", "bitmap"} => k = s.part /\ s.pending /\ s.linked
      /\ k = "consumer" => s.usagePending /\ s.linked
  BY <1>1, <1>2, SentInTurn
<1>4. /\ t \in SessionTypes
      /\ t.active = s.active /\ t.faulted = s.faulted /\ t.target = s.target
      /\ t.confirmed = s.confirmed /\ t.have = s.have /\ t.fresh = s.fresh /\ t.state = s.state
      /\ t.linked = s.linked /\ (s.modeSent => t.modeSent) /\ t.flight = k
      /\ t.sleep = s.sleep /\ t.sleepDone = s.sleepDone /\ t.before = s.before
      /\ t.pair = s.pair /\ t.reports = s.reports /\ t.pending = s.pending /\ t.part = s.part
      /\ t.committed = s.committed /\ t.staged = s.staged
      /\ t.usage = s.usage /\ t.usageStaged = s.usageStaged /\ t.usagePending = s.usagePending
  BY <1>1, <1>3, FlyingFields
<1>5. /\ sent \in PacketTypes /\ sent.kind = k
      /\ k = "sleep" => sent.arg = s.sleep
      /\ k = "mode" => sent.arg = s.target
      /\ k = "keys" => sent.list = s.staged.list /\ sent.over = s.staged.over
      /\ k = "bitmap" => sent.map = s.staged.map
      /\ k = "consumer" => sent.usage = s.usageStaged
  BY <1>1, <1>3, PacketFields
<1> HIDE DEF sent
<1>6. TypesOK(t, "transfer", sent, pr, hosts)
  BY <1>1, <1>4, <1>5 DEF TypesOK, HalStates
<1>7. WireInv(t, "transfer", sent)
  BY <1>2, <1>3, <1>4, <1>5 DEF WireInv, Reporting, Alive
<1>8. SessionInv(t)
  <2>1. ReportsInv(t)
    BY <1>1, <1>2, <1>3, <1>4 DEF SessionInv, ReportsInv, Reporting, AllReleased, Alive
  <2>2. UsageInv(t)
    BY <1>1, <1>2, <1>3, <1>4 DEF SessionInv, UsageInv
  <2> QED BY <1>1, <1>2, <1>3, <1>4, <2>1, <2>2 DEF SessionInv, ToldReports, Spoken
<1>9. PeerInv(t, "transfer", pr, hosts)
  <2>1. Spoken(t) => s.linked \/ Spoken(s)
    BY <1>2, <1>3, <1>4 DEF Spoken
  <2>2. ServedInv(s, "ready", hosts[pr.mode]) => ServedInv(t, "transfer", hosts[pr.mode])
    BY <1>2, <1>3, <1>4 DEF ServedInv, ListSent, MapSent, UsageSent
  <2> QED BY <1>1, <1>2, <1>3, <1>4, <2>1, <2>2 DEF PeerInv, Alive
<1>10. HostInv(t, "transfer", hosts[pr.mode])
  BY <1>1, <1>2, <1>3, <1>4 DEF HostInv, ListSent, MapSent
<1> QED BY <1>6, <1>7, <1>8, <1>9, <1>10 DEF InvOf, sent

-----------------------------------------------------------------------------
(* receive, and the completion of the packet in flight.                    *)
SameCourse(s, t) ==
    /\ t.active = s.active /\ t.faulted = s.faulted /\ t.target = s.target
    /\ t.modeSent = s.modeSent /\ t.sleep = s.sleep /\ t.before = s.before
SameReport(s, t) ==
    /\ t.reports = s.reports /\ t.pending = s.pending /\ t.part = s.part
    /\ t.committed = s.committed /\ t.staged = s.staged
    /\ t.usage = s.usage /\ t.usageStaged = s.usageStaged /\ t.usagePending = s.usagePending
SameStatus(s, t) ==
    t.confirmed = s.confirmed /\ t.have = s.have /\ t.fresh = s.fresh /\ t.state = s.state
States == {"search", "reports", "pairing", "unknown"}

Answered(s, state, confirmed) ==
    [s EXCEPT !.state = state, !.have = TRUE, !.fresh = TRUE, !.confirmed = confirmed]
WithLink(s, linked) == [s EXCEPT !.linked = linked]
WithPair(s) == [s EXCEPT !.pair = "none", !.paired = TRUE]

LEMMA AnsweredFields ==
  ASSUME NEW s \in SessionTypes, NEW state \in States, NEW confirmed, confirmed \in BOOLEAN,
         NEW t, t = Answered(s, state, confirmed)
  PROVE  /\ t \in SessionTypes /\ SameCourse(s, t) /\ SameReport(s, t)
         /\ t.confirmed = confirmed /\ t.have /\ t.fresh /\ t.state = state
         /\ t.linked = s.linked /\ t.pair = s.pair /\ t.flight = s.flight /\ t.sleepDone = s.sleepDone
<1> DEFINE u == [s EXCEPT !.state = state, !.have = TRUE]
<1>1. u \in SessionTypes
  BY DEF SessionTypes, States
<1> HIDE DEF u
<1>2. [u EXCEPT !.fresh = TRUE, !.confirmed = confirmed] \in SessionTypes
  BY <1>1 DEF SessionTypes
<1>3. t \in SessionTypes
  BY <1>2 DEF u, Answered
<1>4. SameCourse(s, t) /\ SameReport(s, t)
  BY DEF Answered, SameCourse, SameReport, SessionTypes
<1>5. /\ t.confirmed = confirmed /\ t.have /\ t.fresh /\ t.state = state
      /\ t.linked = s.linked /\ t.pair = s.pair /\ t.flight = s.flight /\ t.sleepDone = s.sleepDone
  BY DEF Answered, SessionTypes
<1> QED BY <1>3, <1>4, <1>5

LEMMA LinkedFields ==
  ASSUME NEW s \in SessionTypes, NEW linked, linked \in BOOLEAN, NEW t, t = WithLink(s, linked)
  PROVE  /\ t \in SessionTypes /\ SameCourse(s, t) /\ SameReport(s, t) /\ SameStatus(s, t)
         /\ t.linked = linked /\ t.pair = s.pair /\ t.flight = s.flight /\ t.sleepDone = s.sleepDone
<1>1. t \in SessionTypes
  BY DEF WithLink, SessionTypes
<1>2. SameCourse(s, t) /\ SameReport(s, t) /\ SameStatus(s, t)
  BY DEF WithLink, SameCourse, SameReport, SameStatus, SessionTypes
<1>3. t.linked = linked /\ t.pair = s.pair /\ t.flight = s.flight /\ t.sleepDone = s.sleepDone
  BY DEF WithLink, SessionTypes
<1> QED BY <1>1, <1>2, <1>3

LEMMA PairedFields ==
  ASSUME NEW s \in SessionTypes, NEW t, t = WithPair(s)
  PROVE  /\ t \in SessionTypes /\ SameCourse(s, t) /\ SameReport(s, t) /\ SameStatus(s, t)
         /\ t.linked = s.linked /\ t.pair = "none" /\ t.flight = s.flight /\ t.sleepDone = s.sleepDone
<1>1. t \in SessionTypes
  BY ZenonT(30) DEF WithPair, SessionTypes
<1>2. SameCourse(s, t) /\ SameReport(s, t) /\ SameStatus(s, t)
  BY DEF WithPair, SameCourse, SameReport, SameStatus, SessionTypes
<1>3. t.linked = s.linked /\ t.pair = "none" /\ t.flight = s.flight /\ t.sleepDone = s.sleepDone
  BY DEF WithPair, SessionTypes
<1> QED BY <1>1, <1>2, <1>3

(* What a peer may answer to a poll; a broken one may also lie.            *)
ReplyOf(reply, pr) ==
    \/ reply.kind = "other"
    \/ /\ reply.kind = "status" /\ reply.mode \in Modes /\ reply.state \in States
       /\ \/ reply.mode = pr.mode /\ reply.state = pr.link
          \/ reply.mode # pr.mode /\ reply.state = "search"
          \/ reply.mode = pr.mode /\ reply.state = "unknown"

(* An answer either leaves the report alone or begins a baseline; it can   *)
(* link only a session whose peer serves the mode it asked for.            *)
AnswerKept(s, t, reply) ==
    /\ SameReport(s, t) /\ t.pair = s.pair
    /\ s.linked => t.linked /\ t.confirmed /\ reply.state = "reports"
    /\ t.confirmed => s.pair # "refresh"
AnswerRestarts(s, t, reply) ==
    /\ ~t.reports /\ t.pending /\ t.part = "keys" /\ t.pair = "none"
    /\ t.committed = Released /\ t.staged = Released
    /\ t.usage = NoUsage /\ t.usageStaged = NoUsage /\ ~t.usagePending
    /\ IF s.linked THEN reply.state \notin {"reports", "unknown"} ELSE s.pair = "refresh"
Refused(s, reply) ==
    /\ reply.kind = "status"
    /\ \/ s.confirmed /\ reply.mode # s.target
       \/ reply.mode = s.target /\ s.target # "usb" /\ reply.state = "unknown"
LEMMA RefusedFails ==
  ASSUME NEW s, NEW reply, Refused(s, reply) PROVE Received(s, reply) = Failed(s)
  BY DEF Refused, Received

LEMMA ReceivedFields ==
  ASSUME NEW s \in SessionTypes, SessionInv(s), NEW pr, NEW reply, ReplyOf(reply, pr),
         reply.kind = "status", s.linked => pr.mode = s.target, ~Refused(s, reply),
         NEW t, t = Received(s, reply)
  PROVE  /\ t \in SessionTypes /\ SameCourse(s, t) /\ t.flight = s.flight /\ t.sleepDone = s.sleepDone
         /\ t.state = reply.state
         /\ t.confirmed => t.modeSent /\ reply.mode = s.target
         /\ t.linked => t.confirmed /\ t.target # "usb" /\ reply.state = "reports"
         /\ ToldReports(t) => t.linked
         /\ s.confirmed => t.confirmed
         /\ AnswerKept(s, t, reply) \/ AnswerRestarts(s, t, reply)
<1> DEFINE bad == \/ s.confirmed /\ reply.mode # s.target
                  \/ reply.mode = s.target /\ s.target # "usb" /\ reply.state = "unknown"
<1>1. reply.mode \in Modes /\ reply.state \in States
  BY DEF ReplyOf
<1>2. PICK confirmed \in BOOLEAN : confirmed = (s.modeSent /\ reply.mode = s.target)
  BY DEF SessionTypes
<1>3. PICK up \in BOOLEAN : up = (confirmed /\ s.target # "usb" /\ reply.state = "reports")
  BY <1>2
<1> DEFINE s1 == [s EXCEPT !.state = reply.state, !.have = TRUE, !.fresh = TRUE, !.confirmed = confirmed]
           s2 == IF s1.linked /\ reply.state # "reports" THEN Unlinked(s1) ELSE s1
           s3 == IF confirmed /\ s2.pair = "refresh"
                 THEN Baseline([s2 EXCEPT !.pair = "none", !.paired = TRUE]) ELSE s2
<1>4. ~bad /\ t = [s3 EXCEPT !.linked = s3.linked \/ up]
  <2>1. ~bad
    BY DEF Refused
  <2> QED BY <1>2, <1>3, <2>1 DEF Received
<1>s1. s1 = Answered(s, reply.state, confirmed)
  BY DEF Answered
<1> HIDE DEF s1
<1>5. /\ s1 \in SessionTypes /\ SameCourse(s, s1) /\ SameReport(s, s1)
      /\ s1.confirmed = confirmed /\ s1.have /\ s1.fresh /\ s1.state = reply.state
      /\ s1.linked = s.linked /\ s1.pair = s.pair /\ s1.flight = s.flight /\ s1.sleepDone = s.sleepDone
  BY <1>1, <1>s1, AnsweredFields
<1>6. s.linked => confirmed /\ s.pair = "none"
  BY <1>2, <1>4 DEF SessionInv
<1>7. CASE s.linked /\ reply.state # "reports"
  <2>s2. s2 = Unlinked(s1)
    BY <1>5, <1>7
  <2> HIDE DEF s2
  <2>1. /\ s2 \in SessionTypes
        /\ s2.active = s1.active /\ s2.faulted = s1.faulted /\ s2.target = s1.target
        /\ s2.confirmed = s1.confirmed /\ s2.state = s1.state
        /\ s2.modeSent = s1.modeSent /\ s2.flight = s1.flight /\ s2.sleep = s1.sleep
        /\ s2.sleepDone = s1.sleepDone /\ s2.before = s1.before /\ s2.pair = s1.pair
        /\ ~s2.linked /\ ~s2.reports /\ s2.pending /\ s2.part = "keys"
        /\ s2.committed = Released /\ s2.staged = Released
        /\ s2.usage = NoUsage /\ s2.usageStaged = NoUsage /\ ~s2.usagePending
    BY <1>5, <2>s2, UnlinkedFields
  <2>2. /\ SameCourse(s, s2) /\ s2.flight = s.flight /\ s2.sleepDone = s.sleepDone
        /\ s2.confirmed = confirmed /\ s2.state = reply.state /\ s2.pair = "none"
    BY <1>5, <1>6, <1>7, <2>1 DEF SameCourse
  <2>3. s3 = s2 /\ up = FALSE
    BY <1>3, <1>7, <2>2
  <2> HIDE DEF s3
  <2>4. t = WithLink(s2, up)
    BY <1>4, <2>1, <2>3 DEF WithLink
  <2>5. /\ t \in SessionTypes /\ SameCourse(s2, t) /\ SameReport(s2, t) /\ SameStatus(s2, t)
        /\ t.linked = up /\ t.pair = s2.pair /\ t.flight = s2.flight /\ t.sleepDone = s2.sleepDone
    BY <2>1, <2>4, LinkedFields
  <2>6. SameCourse(s, t) /\ t.confirmed = confirmed /\ t.state = reply.state
    BY <2>2, <2>5 DEF SameCourse, SameStatus
  <2>7. AnswerRestarts(s, t, reply)
    <3>1. reply.state # "unknown"
      BY <1>2, <1>4, <1>6, <1>7 DEF SessionInv
    <3> QED BY <1>7, <2>1, <2>2, <2>5, <3>1 DEF SameReport, AnswerRestarts
  <2>8. t.modeSent /\ reply.mode = s.target /\ t.confirmed /\ ~ToldReports(t)
    BY <1>2, <1>6, <1>7, <2>6 DEF SameCourse, ToldReports
  <2> QED BY <2>2, <2>3, <2>5, <2>6, <2>7, <2>8
<1>8. CASE ~s.linked /\ confirmed /\ s.pair = "refresh"
  <2> DEFINE u == [s1 EXCEPT !.pair = "none", !.paired = TRUE]
  <2>1. s2 = s1
    BY <1>5, <1>8
  <2>u. u = WithPair(s1)
    BY DEF WithPair
  <2>3. s3 = Baseline(u)
    BY <1>5, <1>8, <2>1
  <2> HIDE DEF u, s2, s3
  <2>2. /\ u \in SessionTypes /\ SameCourse(s1, u) /\ SameStatus(s1, u)
        /\ u.linked = s1.linked /\ u.pair = "none" /\ u.flight = s1.flight /\ u.sleepDone = s1.sleepDone
    BY <1>5, <2>u, PairedFields
  <2>4. /\ s3 \in SessionTypes /\ SameCourse(u, s3) /\ SameStatus(u, s3) /\ s3.linked = u.linked
        /\ s3.flight = u.flight /\ s3.sleepDone = u.sleepDone
        /\ s3.pair = u.pair /\ ~s3.reports /\ s3.pending /\ s3.part = "keys"
        /\ s3.committed = Released /\ s3.staged = Released
        /\ s3.usage = NoUsage /\ s3.usageStaged = NoUsage /\ ~s3.usagePending
    BY <2>2, <2>3, BaselineFields DEF SameCourse, SameStatus
  <2>5. t = WithLink(s3, up)
    BY <1>3, <1>4, <1>5, <1>8, <2>2, <2>4 DEF WithLink
  <2>6. /\ t \in SessionTypes /\ SameCourse(s3, t) /\ SameReport(s3, t) /\ SameStatus(s3, t)
        /\ t.linked = up /\ t.pair = s3.pair /\ t.flight = s3.flight /\ t.sleepDone = s3.sleepDone
    BY <2>4, <2>5, LinkedFields
  <2>7. SameCourse(s, t) /\ t.confirmed = confirmed /\ t.state = reply.state
    BY <1>5, <2>2, <2>4, <2>6 DEF SameCourse, SameStatus
  <2>8. AnswerRestarts(s, t, reply)
    BY <1>8, <2>2, <2>4, <2>6 DEF SameReport, AnswerRestarts
  <2>9. t.flight = s.flight /\ t.sleepDone = s.sleepDone
    BY <1>5, <2>2, <2>4, <2>6
  <2>10. t.linked => t.target # "usb" /\ reply.state = "reports"
    BY <1>3, <2>6, <2>7 DEF SameCourse
  <2>11. t.modeSent /\ reply.mode = s.target /\ t.confirmed
    BY <1>2, <1>8, <2>7 DEF SameCourse
  <2>12. ToldReports(t) => t.linked
    BY <1>3, <1>8, <2>6, <2>7 DEF ToldReports, SameCourse
  <2> QED BY <2>6, <2>7, <2>8, <2>9, <2>10, <2>11, <2>12
<1>9. CASE ~(s.linked /\ reply.state # "reports") /\ ~(~s.linked /\ confirmed /\ s.pair = "refresh")
  <2>1. s3 = s1
    BY <1>5, <1>6, <1>9
  <2> HIDE DEF s2, s3
  <2>2. PICK linked \in BOOLEAN : linked = (s1.linked \/ up)
    BY <1>5 DEF SessionTypes
  <2>3. t = WithLink(s1, linked)
    BY <1>4, <2>1, <2>2 DEF WithLink
  <2>4. /\ t \in SessionTypes /\ SameCourse(s1, t) /\ SameReport(s1, t) /\ SameStatus(s1, t)
        /\ t.linked = linked /\ t.pair = s1.pair /\ t.flight = s1.flight /\ t.sleepDone = s1.sleepDone
    BY <1>5, <2>3, LinkedFields
  <2>5. SameCourse(s, t) /\ SameReport(s, t) /\ t.confirmed = confirmed /\ t.state = reply.state
    BY <1>5, <2>4 DEF SameCourse, SameReport, SameStatus
  <2>6. s.linked => s.target # "usb" /\ s.modeSent
    BY DEF SessionInv
  <2>7. t.linked => t.confirmed /\ t.target # "usb" /\ reply.state = "reports"
    BY <1>3, <1>5, <1>6, <1>9, <2>2, <2>4, <2>5, <2>6 DEF SameCourse
  <2>8. AnswerKept(s, t, reply)
    BY <1>5, <1>6, <1>9, <2>2, <2>4, <2>5 DEF AnswerKept
  <2>9. t.confirmed => t.modeSent /\ reply.mode = s.target
    BY <1>2, <2>5 DEF SameCourse
  <2>10. ToldReports(t) => t.linked
    BY <1>3, <2>2, <2>4, <2>5 DEF ToldReports, SameCourse
  <2>11. s.confirmed => t.confirmed
    BY <1>2, <1>4, <2>5 DEF SessionInv
  <2> QED BY <1>5, <2>4, <2>5, <2>7, <2>8, <2>9, <2>10, <2>11
<1> QED BY <1>7, <1>8, <1>9

LEMMA ReceivedKeeps ==
  ASSUME NEW s, NEW pr, NEW hosts, InvOf(s, "ready", Idle, pr, hosts), Alive(s),
         s.sleep = "none", s.pair # "queued",
         NEW reply, ReplyOf(reply, pr), ~Refused(s, reply), NEW t, t = Received(s, reply)
  PROVE  InvOf(t, "ready", Idle, pr, hosts) /\ Alive(t)
<1>1. /\ s \in SessionTypes /\ WireInv(s, "ready", Idle) /\ SessionInv(s)
      /\ PeerInv(s, "ready", pr, hosts) /\ HostInv(s, "ready", hosts[pr.mode])
      /\ pr \in PeerTypes /\ hosts \in [Modes -> HostTypes] /\ Idle \in PacketTypes
      /\ s.flight = "none" /\ Idle.kind = "none"
  BY DEF InvOf, TypesOK, WireInv, Idle, NoPacket
<1>2. CASE reply.kind = "other"
  BY <1>2 DEF Received
<1>3. CASE reply.kind = "status"
  <2>1. s.linked => pr.mode = s.target
    BY <1>1 DEF PeerInv
  <2>2. /\ t \in SessionTypes /\ SameCourse(s, t) /\ t.flight = s.flight /\ t.sleepDone = s.sleepDone
        /\ t.state = reply.state
        /\ t.confirmed => t.modeSent /\ reply.mode = s.target
        /\ t.linked => t.confirmed /\ t.target # "usb" /\ reply.state = "reports"
        /\ ToldReports(t) => t.linked
        /\ s.confirmed => t.confirmed
        /\ AnswerKept(s, t, reply) \/ AnswerRestarts(s, t, reply)
    BY <1>1, <1>3, <2>1, ReceivedFields
  <2>3. Alive(t) /\ TypesOK(t, "ready", Idle, pr, hosts)
    BY <1>1, <2>2 DEF SameCourse, Alive, TypesOK, HalStates
  <2>4. WireInv(t, "ready", Idle)
    BY <1>1, <2>2, <2>3 DEF SameCourse, WireInv, Reporting, Alive
  <2>5. t.linked => reply.mode = pr.mode /\ pr.link = "reports" /\ pr.mode = t.target
    BY <1>3, <2>2 DEF ReplyOf, SameCourse
  <2>6. CASE AnswerKept(s, t, reply)
    <3>0. s.pair \in {"none", "refresh"}
      BY <1>1 DEF SessionTypes
    <3>1. SessionInv(t)
      <4>1. ReportsInv(t)
        BY <1>1, <2>2, <2>3, <2>6 DEF AnswerKept, SameCourse, SameReport, SessionInv, ReportsInv,
                                      Reporting, AllReleased, Alive
      <4>2. UsageInv(t)
        BY <1>1, <2>2, <2>6 DEF AnswerKept, SameCourse, SameReport, SessionInv, UsageInv
      <4> QED BY <1>1, <2>2, <2>6, <3>0, <4>1, <4>2
              DEF AnswerKept, SameCourse, SameReport, SessionInv, Spoken
    <3>2. PeerInv(t, "ready", pr, hosts)
      <4>1. ServedInv(s, "ready", hosts[pr.mode]) => ServedInv(t, "ready", hosts[pr.mode])
        BY <1>1, <2>2, <2>6 DEF AnswerKept, SameReport, ServedInv, ListSent, MapSent, UsageSent
      <4> QED BY <1>1, <2>2, <2>5, <2>6, <4>1 DEF AnswerKept, SameCourse, SameReport, PeerInv, Alive, Spoken
    <3>3. HostInv(t, "ready", hosts[pr.mode])
      BY <1>1, <2>2, <2>6 DEF AnswerKept, SameCourse, SameReport, HostInv, ListSent, MapSent
    <3> QED BY <2>3, <2>4, <3>1, <3>2, <3>3 DEF InvOf
  <2>7. CASE AnswerRestarts(s, t, reply)
    <3>1. SessionInv(t)
      BY <1>1, <2>2, <2>7, ReportFacts
         DEF AnswerRestarts, SameCourse, SessionInv, ReportsInv, UsageInv,
             Spoken, Reporting, AllReleased, ToldReports
    <3>2. pr.link = "reports" => Silenced(hosts[pr.mode])
      <4>1. CASE s.linked
        BY <1>1, <1>3, <2>1, <2>2, <2>7, <4>1 DEF AnswerRestarts, ReplyOf, SessionInv, SameCourse
      <4>2. CASE ~s.linked
        BY <1>1, <4>2, SilencedHost DEF SessionInv, ReportsInv, UsageInv
      <4> QED BY <4>1, <4>2
    <3>3. PeerInv(t, "ready", pr, hosts)
      <4>1. pr.link = "reports" => ServedInv(t, "ready", hosts[pr.mode])
        BY <1>1, <2>2, <2>7, <3>2, SilencedIsServed DEF AnswerRestarts, AllReleased
      <4> QED BY <1>1, <2>2, <2>3, <2>5, <2>7, <4>1 DEF AnswerRestarts, SameCourse, PeerInv, Alive, Spoken
    <3>4. HostInv(t, "ready", hosts[pr.mode])
      BY <1>1, <2>2, <2>7 DEF AnswerRestarts, HostInv, ListSent, MapSent
    <3> QED BY <2>3, <2>4, <3>1, <3>3, <3>4 DEF InvOf
  <2> QED BY <2>2, <2>6, <2>7
<1> QED BY <1>2, <1>3 DEF ReplyOf

LEMMA LandedFields ==
  ASSUME NEW s \in SessionTypes, NEW t, t = [s EXCEPT !.flight = NoPacket]
  PROVE  /\ t \in SessionTypes /\ SameCourse(s, t) /\ SameReport(s, t) /\ SameStatus(s, t)
         /\ t.linked = s.linked /\ t.pair = s.pair /\ t.flight = "none" /\ t.sleepDone = s.sleepDone
<1>1. t \in SessionTypes
  BY DEF SessionTypes, NoPacket, Kinds
<1>2. SameCourse(s, t) /\ SameReport(s, t) /\ SameStatus(s, t)
  BY DEF SameCourse, SameReport, SameStatus, SessionTypes
<1>3. t.linked = s.linked /\ t.pair = s.pair /\ t.flight = "none" /\ t.sleepDone = s.sleepDone
  BY DEF SessionTypes, NoPacket
<1> QED BY <1>1, <1>2, <1>3

LEMMA SleepSentTypes ==
  ASSUME NEW s \in SessionTypes PROVE [s EXCEPT !.sleepDone = TRUE] \in SessionTypes
  BY DEF SessionTypes

Refreshing(s) ==
    [s EXCEPT !.pair = "refresh", !.confirmed = FALSE, !.have = FALSE, !.fresh = TRUE, !.state = "search"]
LEMMA PairSentTypes == ASSUME NEW s \in SessionTypes PROVE Refreshing(s) \in SessionTypes
<1> DEFINE u == [s EXCEPT !.pair = "refresh", !.confirmed = FALSE]
<1>1. u \in SessionTypes
  BY DEF SessionTypes
<1> HIDE DEF u
<1>2. [u EXCEPT !.have = FALSE, !.fresh = TRUE, !.state = "search"] \in SessionTypes
  BY <1>1, ZenonT(30) DEF SessionTypes
<1> QED BY <1>2 DEF u, Refreshing

(* Apart from a poll's answer, what a packet's completion sets.            *)
LEMMA CompletedFields ==
  ASSUME NEW s \in SessionTypes, s.flight \notin {"none", "poll"}, NEW reply, NEW t, t = Completed(s, reply)
  PROVE  /\ t \in SessionTypes /\ t.flight = "none"
         /\ t.active = s.active /\ t.faulted = s.faulted /\ t.target = s.target
         /\ t.linked = s.linked /\ t.modeSent = s.modeSent /\ t.sleep = s.sleep /\ t.before = s.before
         /\ t.staged = s.staged /\ t.usageStaged = s.usageStaged
         /\ IF s.flight = "bitmap" THEN t.committed = s.staged /\ ~t.pending /\ t.reports
            ELSE t.committed = s.committed /\ t.pending = s.pending /\ t.reports = s.reports
         /\ IF s.flight = "consumer" THEN t.usage = s.usageStaged /\ ~t.usagePending
            ELSE t.usage = s.usage /\ t.usagePending = s.usagePending
         /\ t.part = IF s.flight = "keys" THEN "bitmap" ELSE s.part
         /\ IF s.flight = "sleep" THEN t.sleepDone ELSE t.sleepDone = s.sleepDone
         /\ IF s.flight = "pair" THEN t.pair = "refresh" /\ ~t.confirmed /\ ~t.have
            ELSE t.pair = s.pair /\ SameStatus(s, t)
<1> DEFINE d == [s EXCEPT !.flight = NoPacket]
<1>1. /\ d \in SessionTypes /\ SameCourse(s, d) /\ SameReport(s, d) /\ SameStatus(s, d)
      /\ d.linked = s.linked /\ d.pair = s.pair /\ d.flight = "none" /\ d.sleepDone = s.sleepDone
  BY LandedFields
<1>d. d \in SessionTypes
  BY <1>1
<1>2. s.staged \in ReportTypes /\ s.usageStaged \in UsageTypes /\ s.pending \in BOOLEAN
  BY <1>1 DEF SessionTypes, SameCourse
<1>3. CASE s.flight = "keys"
  <2>1. t = [d EXCEPT !.part = "bitmap"]
    BY <1>3 DEF Completed
  <2> HIDE DEF d
  <2>2. t \in SessionTypes
    BY <1>d, <2>1 DEF SessionTypes
  <2> QED BY <1>1, <1>3, <2>1, <2>2 DEF SameCourse, SameReport, SameStatus, SessionTypes
<1>4. CASE s.flight = "bitmap"
  <2>2. t = [d EXCEPT !.committed = s.staged, !.pending = FALSE, !.reports = TRUE]
    BY <1>2, <1>4 DEF Completed
  <2> HIDE DEF d
  <2>3. t \in SessionTypes
    <3> DEFINE u == [d EXCEPT !.committed = s.staged, !.pending = FALSE]
    <3>1. u \in SessionTypes
      BY <1>d, <1>2, ZenonT(30) DEF SessionTypes
    <3> HIDE DEF u
    <3>2. [u EXCEPT !.reports = TRUE] \in SessionTypes
      BY <3>1, ZenonT(30) DEF SessionTypes
    <3> QED BY <2>2, <3>2 DEF u
  <2>4. /\ t.committed = s.staged /\ ~t.pending /\ t.reports
    BY <1>1, <2>2 DEF SessionTypes
  <2>5. SameStatus(d, t) /\ t.flight = d.flight /\ t.part = d.part /\ t.pair = d.pair
    BY <1>1, <2>2 DEF SessionTypes, SameStatus
  <2>6. /\ t.active = d.active /\ t.faulted = d.faulted /\ t.target = d.target
        /\ t.linked = d.linked /\ t.modeSent = d.modeSent /\ t.sleep = d.sleep /\ t.before = d.before
        /\ t.staged = d.staged /\ t.sleepDone = d.sleepDone
        /\ t.usage = d.usage /\ t.usageStaged = d.usageStaged /\ t.usagePending = d.usagePending
    BY <1>1, <2>2 DEF SessionTypes
  <2> QED BY <1>1, <1>4, <2>3, <2>4, <2>5, <2>6 DEF SameCourse, SameReport, SameStatus
<1>5. CASE s.flight = "battery"
  <2>1. PICK battery \in {"none", "due", "flying", "sent"} :
           battery = IF s.battery = "flying" THEN "sent" ELSE s.battery
    BY DEF SessionTypes
  <2>2. d.battery = s.battery
    BY DEF SessionTypes
  <2>3. t = [d EXCEPT !.battery = battery]
    BY <1>5, <2>1, <2>2 DEF Completed
  <2> HIDE DEF d
  <2>4. t \in SessionTypes
    BY <1>d, <2>3 DEF SessionTypes
  <2> QED BY <1>1, <1>5, <2>3, <2>4 DEF SameCourse, SameReport, SameStatus, SessionTypes
<1>6. CASE s.flight = "consumer"
  <2>1. t = [d EXCEPT !.usage = s.usageStaged, !.usagePending = FALSE, !.usageSeen = TRUE]
    BY <1>6 DEF Completed
  <2> HIDE DEF d
  <2>2. t \in SessionTypes
    <3> DEFINE u == [d EXCEPT !.usage = s.usageStaged]
    <3>1. u \in SessionTypes
      BY <1>d, <1>2 DEF SessionTypes
    <3> HIDE DEF u
    <3>2. [u EXCEPT !.usagePending = FALSE, !.usageSeen = TRUE] \in SessionTypes
      BY <3>1, ZenonT(30) DEF SessionTypes
    <3> QED BY <2>1, <3>2 DEF u
  <2> QED BY <1>1, <1>6, <2>1, <2>2 DEF SameCourse, SameReport, SameStatus, SessionTypes
<1>7. CASE s.flight = "sleep"
  <2>1. t = [d EXCEPT !.sleepDone = TRUE]
    BY <1>7 DEF Completed
  <2> HIDE DEF d
  <2>2. t \in SessionTypes
    BY <1>d, <2>1, SleepSentTypes
  <2> QED BY <1>1, <1>7, <2>1, <2>2 DEF SameCourse, SameReport, SameStatus, SessionTypes
<1>8. CASE s.flight = "pair"
  <2>1. t = Refreshing(d)
    BY <1>8 DEF Completed, Refreshing
  <2> HIDE DEF d
  <2>2. t \in SessionTypes
    BY <1>d, <2>1, PairSentTypes
  <2> QED BY <1>1, <1>8, <2>1, <2>2 DEF Refreshing, SameCourse, SameReport, SessionTypes
<1>9. CASE s.flight \notin {"keys", "bitmap", "battery", "consumer", "sleep", "pair"}
  <2>1. t = d
    BY <1>9 DEF Completed
  <2> HIDE DEF d
  <2> QED BY <1>1, <1>9, <2>1 DEF SameCourse, SameReport
<1> QED BY <1>3, <1>4, <1>5, <1>6, <1>7, <1>8, <1>9

(* The completion of anything but a poll.                                  *)
LEMMA LandedKeeps ==
  ASSUME NEW s, NEW packet, NEW pr, NEW hosts, InvOf(s, "done", packet, pr, hosts),
         Alive(s), s.flight # "poll", NEW reply, NEW t, t = Completed(s, reply)
  PROVE  InvOf(t, "ready", Idle, pr, hosts) /\ Alive(t)
<1>1. /\ s \in SessionTypes /\ WireInv(s, "done", packet) /\ SessionInv(s)
      /\ PeerInv(s, "done", pr, hosts) /\ HostInv(s, "done", hosts[pr.mode])
      /\ pr \in PeerTypes /\ hosts \in [Modes -> HostTypes]
  BY DEF InvOf, TypesOK
<1>2. /\ s.flight # "none" /\ s.flight \in Kinds /\ Idle \in PacketTypes /\ Idle.kind = "none"
  BY <1>1 DEF SessionTypes, WireInv, Idle, PacketTypes, NoPacket, Kinds, UsageTypes, Commands
<1>3. /\ t \in SessionTypes /\ t.flight = "none"
      /\ t.active = s.active /\ t.faulted = s.faulted /\ t.target = s.target
      /\ t.linked = s.linked /\ t.modeSent = s.modeSent /\ t.sleep = s.sleep /\ t.before = s.before
      /\ t.staged = s.staged /\ t.usageStaged = s.usageStaged
      /\ IF s.flight = "bitmap" THEN t.committed = s.staged /\ ~t.pending /\ t.reports
         ELSE t.committed = s.committed /\ t.pending = s.pending /\ t.reports = s.reports
      /\ IF s.flight = "consumer" THEN t.usage = s.usageStaged /\ ~t.usagePending
         ELSE t.usage = s.usage /\ t.usagePending = s.usagePending
      /\ t.part = IF s.flight = "keys" THEN "bitmap" ELSE s.part
      /\ IF s.flight = "sleep" THEN t.sleepDone ELSE t.sleepDone = s.sleepDone
      /\ IF s.flight = "pair" THEN t.pair = "refresh" /\ ~t.confirmed /\ ~t.have
         ELSE t.pair = s.pair /\ SameStatus(s, t)
  BY <1>1, <1>2, CompletedFields
<1>4. Alive(t) /\ TypesOK(t, "ready", Idle, pr, hosts)
  BY <1>1, <1>2, <1>3 DEF Alive, TypesOK, HalStates
<1>5. WireInv(t, "ready", Idle)
  BY <1>1, <1>2, <1>3, <1>4 DEF WireInv, Reporting
<1>6. UsageInv(t)
  <2>1. UsageInv(s) /\ (s.sleep # "none" => s.flight \in {"none", "sleep"})
    BY <1>1 DEF SessionInv, WireInv
  <2>2. CASE s.flight = "consumer"
    BY <1>3, <2>1, <2>2 DEF UsageInv
  <2>3. CASE s.flight # "consumer"
    BY <1>3, <2>1, <2>3 DEF UsageInv
  <2> QED BY <2>2, <2>3
<1>7. /\ ReportsInv(t)
      /\ Spoken(t) => Spoken(s)
      /\ HostInv(t, "ready", hosts[pr.mode])
      /\ pr.link = "reports" => ServedInv(t, "ready", hosts[pr.mode])
  <2>0. /\ ReportsInv(s) /\ (pr.link = "reports" => ServedInv(s, "done", hosts[pr.mode]))
        /\ s.pair # "none" => ~s.pending
        /\ s.sleep # "none" => s.flight \in {"none", "sleep"}
    BY <1>1 DEF SessionInv, PeerInv, WireInv
  <2>1. CASE s.flight = "bitmap"
    <3>1. /\ t.committed = s.staged /\ ~t.pending /\ t.reports /\ t.part = s.part /\ t.pair = s.pair
          /\ t.sleepDone = s.sleepDone /\ t.usage = s.usage /\ t.usagePending = s.usagePending
      BY <1>3, <2>1
    <3>2. s.pending /\ (s.linked => s.part = "bitmap") /\ (~s.linked => AllReleased(s))
      BY <2>0, <2>1 DEF ReportsInv, Reporting
    <3>3. ReportsInv(t)
      BY <1>3, <2>0, <2>1, <3>1, <3>2, FollowsRefl DEF ReportsInv, Reporting, AllReleased
    <3>4. Spoken(s)
      BY <2>1 DEF Spoken
    <3>7. ~s.linked /\ hosts[pr.mode].torn = "no" => Holds(hosts[pr.mode]) = {}
      BY <1>1, <1>4, <2>0, <2>1, <3>4 DEF PeerInv, ServedInv, ReportsInv, Reporting, Mute
    <3>8. HostInv(s, "done", hosts[pr.mode]) /\ MapSent(s, "done") /\ s.pending
      BY <1>1, <2>1, <3>2 DEF MapSent
    <3>5. HostInv(t, "ready", hosts[pr.mode])
      <4>1. CASE s.linked
        BY <1>3, <2>1, <3>1, <3>2, <3>8, <4>1 DEF HostInv, ListSent, MapSent
      <4>2. CASE ~s.linked
        BY <1>3, <2>1, <3>1, <3>2, <3>7, <4>2 DEF HostInv, ListSent, MapSent, AllReleased, Holds
      <4> QED BY <4>1, <4>2
    <3>6. pr.link = "reports" => ServedInv(t, "ready", hosts[pr.mode])
      BY <1>3, <2>0, <2>1, <3>1 DEF ServedInv, ListSent, MapSent, UsageSent
    <3> QED BY <3>3, <3>4, <3>5, <3>6
  <2>2. CASE s.flight = "keys"
    <3>1. /\ t.committed = s.committed /\ t.pending = s.pending /\ t.reports = s.reports /\ t.part = "bitmap"
          /\ t.sleepDone = s.sleepDone /\ t.pair = s.pair /\ t.usage = s.usage
      BY <1>3, <2>2
    <3>2. ReportsInv(t)
      BY <1>3, <1>4, <2>0, <2>2, <3>1 DEF ReportsInv, Reporting, AllReleased, Alive
    <3>3. Spoken(s)
      BY <2>2 DEF Spoken
    <3>4. HostInv(t, "ready", hosts[pr.mode])
      BY <1>1, <1>3, <2>0, <2>2, <3>1 DEF HostInv, ListSent, MapSent, ReportsInv, Reporting
    <3>5. pr.link = "reports" => ServedInv(t, "ready", hosts[pr.mode])
      BY <1>3, <2>0, <2>2, <3>1 DEF ServedInv, ListSent, MapSent, UsageSent
    <3> QED BY <3>2, <3>3, <3>4, <3>5
  <2>3. CASE s.flight \notin {"keys", "bitmap"}
    <3>1. /\ t.committed = s.committed /\ t.pending = s.pending /\ t.reports = s.reports /\ t.part = s.part
          /\ s.pair # "none" => t.pair # "none"
          /\ t.pair # "none" => s.pair # "none" \/ s.flight = "pair"
      BY <1>3, <2>3
    <3>2. ReportsInv(t)
      BY <1>3, <1>4, <2>0, <2>3, <3>1 DEF ReportsInv, Reporting, AllReleased, Alive
    <3>3. Spoken(t) => Spoken(s)
      BY <1>3, <3>1 DEF Spoken
    <3>4. HostInv(t, "ready", hosts[pr.mode])
      BY <1>1, <1>3, <2>3, <3>1 DEF HostInv, ListSent, MapSent
    <3>5. pr.link = "reports" => ServedInv(t, "ready", hosts[pr.mode])
      <4>1. UsageInv(s)
        BY <1>1 DEF SessionInv
      <4>2. t.usage = IF s.flight = "consumer" THEN s.usageStaged ELSE s.usage
        BY <1>3
      <4>3. t.usage = IF UsageSent(s, "done") THEN s.usageStaged ELSE s.usage
        BY <4>1, <4>2 DEF UsageSent, UsageInv
      <4> QED BY <1>3, <2>0, <2>3, <3>1, <4>3 DEF ServedInv, ListSent, MapSent, UsageSent
    <3> QED BY <3>2, <3>3, <3>4, <3>5
  <2> QED BY <2>1, <2>2, <2>3
<1>8. SessionInv(t)
  <2>1. s.flight = "pair" => s.pair = "queued"
    BY <1>1 DEF WireInv
  <2>2. t.pair # "none" => ~t.pending
    BY <1>1, <1>3, <2>1 DEF SessionInv
  <2> QED BY <1>1, <1>3, <1>6, <1>7, <2>1, <2>2 DEF SessionInv, ToldReports, SameStatus
<1>9. PeerInv(t, "ready", pr, hosts)
  BY <1>1, <1>2, <1>3, <1>4, <1>7 DEF PeerInv
<1> QED BY <1>4, <1>5, <1>7, <1>8, <1>9 DEF InvOf

(* The whole of what a completed packet brings, unless the answer is fatal: *)
(* then the session fails.                                                 *)
LEMMA CompletedKeeps ==
  ASSUME NEW s, NEW packet, NEW pr, NEW hosts, InvOf(s, "done", packet, pr, hosts), Alive(s),
         NEW reply, s.flight = "poll" => ReplyOf(reply, pr), NEW t, t = Completed(s, reply)
  PROVE  \/ InvOf(t, "ready", Idle, pr, hosts) /\ Alive(t)
         \/ t.faulted /\ InvOf(t, "off", Idle, pr, hosts)
<1>1. CASE s.flight # "poll"
  BY <1>1, LandedKeeps
<1>2. CASE s.flight = "poll"
  <2> DEFINE d == [s EXCEPT !.flight = NoPacket]
  <2>1. /\ s \in SessionTypes /\ WireInv(s, "done", packet) /\ SessionInv(s)
        /\ PeerInv(s, "done", pr, hosts) /\ HostInv(s, "done", hosts[pr.mode])
        /\ pr \in PeerTypes /\ hosts \in [Modes -> HostTypes]
    BY DEF InvOf, TypesOK
  <2>2. /\ d \in SessionTypes /\ SameCourse(s, d) /\ SameReport(s, d) /\ SameStatus(s, d)
        /\ d.linked = s.linked /\ d.pair = s.pair /\ d.flight = "none" /\ d.sleepDone = s.sleepDone
    BY <2>1, LandedFields
  <2>3. t = Received(d, reply)
    BY <1>2 DEF Completed
  <2> HIDE DEF d
  <2>4. Idle \in PacketTypes /\ Idle.kind = "none"
    BY DEF Idle, PacketTypes, NoPacket, Kinds, UsageTypes, Commands
  <2>5. Alive(d) /\ TypesOK(d, "ready", Idle, pr, hosts)
    BY <2>1, <2>2, <2>4 DEF Alive, TypesOK, HalStates, SameCourse
  <2>6. WireInv(d, "ready", Idle)
    BY <2>1, <2>2, <2>4, <2>5 DEF WireInv, Reporting
  <2>7. SessionInv(d)
    <3>1. ReportsInv(d)
      BY <1>2, <2>1, <2>2, <2>5 DEF SessionInv, ReportsInv,
         Reporting, AllReleased, SameReport, SameCourse, Alive
    <3>2. UsageInv(d)
      BY <1>2, <2>1, <2>2 DEF SessionInv, UsageInv, SameReport, SameCourse
    <3> QED BY <1>2, <2>1, <2>2, <3>1, <3>2
            DEF SessionInv, ToldReports, Spoken, SameStatus, SameReport, SameCourse
  <2>8. PeerInv(d, "ready", pr, hosts)
    <3>1. ServedInv(s, "done", hosts[pr.mode]) => ServedInv(d, "ready", hosts[pr.mode])
      BY <1>2, <2>2 DEF ServedInv, ListSent, MapSent, UsageSent, SameReport
    <3> QED BY <1>2, <2>1, <2>2, <2>5, <3>1 DEF PeerInv, Spoken, SameReport, SameCourse
  <2>9. HostInv(d, "ready", hosts[pr.mode])
    BY <1>2, <2>1, <2>2 DEF HostInv, ListSent, MapSent, SameReport, SameCourse
  <2>10. InvOf(d, "ready", Idle, pr, hosts)
    BY <2>5, <2>6, <2>7, <2>8, <2>9 DEF InvOf
  <2>11. d.sleep = "none" /\ d.pair # "queued"
    BY <1>2, <2>1, <2>2 DEF WireInv, SameCourse
  <2>12. CASE Refused(d, reply)
    <3>1. d.target = s.target /\ t \in {Failed(d), Stopped(d)}
      BY <2>2, <2>3, <2>12, RefusedFails DEF SameCourse
    <3>2. InvOf(t, "off", Idle, pr, hosts)
      BY <3>1, EndedKeeps
    <3>3. t.faulted
      <4>1. Ended(d) \in SessionTypes
        BY <2>2, EndedTypes
      <4> QED BY <2>3, <2>12, <4>1, RefusedFails DEF Failed, SessionTypes
    <3> QED BY <3>2, <3>3
  <2>13. CASE ~Refused(d, reply)
    BY <1>2, <2>3, <2>5, <2>10, <2>11, <2>13, ReceivedKeeps
  <2> QED BY <2>12, <2>13
<1> QED BY <1>1, <1>2

-----------------------------------------------------------------------------
(* The status deadline.                                                    *)
LEMMA StaleFields ==
  ASSUME NEW s \in SessionTypes, NEW t, t = [s EXCEPT !.fresh = FALSE]
  PROVE  /\ t \in SessionTypes /\ SameCourse(s, t) /\ SameReport(s, t)
         /\ t.confirmed = s.confirmed /\ t.have = s.have /\ ~t.fresh /\ t.state = s.state
         /\ t.linked = s.linked /\ t.pair = s.pair /\ t.flight = s.flight /\ t.sleepDone = s.sleepDone
<1>1. t \in SessionTypes
  BY ZenonT(30) DEF SessionTypes
<1>2. SameCourse(s, t) /\ SameReport(s, t)
  BY DEF SameCourse, SameReport, SessionTypes
<1>3. /\ t.confirmed = s.confirmed /\ t.have = s.have /\ ~t.fresh /\ t.state = s.state
      /\ t.linked = s.linked /\ t.pair = s.pair /\ t.flight = s.flight /\ t.sleepDone = s.sleepDone
  BY DEF SessionTypes
<1> QED BY <1>1, <1>2, <1>3

LEMMA AgedFaulted ==
  ASSUME NEW s \in SessionTypes PROVE Aged(s).faulted = s.faulted
  BY DEF Aged, Unlinked, Baseline, SessionTypes

LEMMA AgedKeeps ==
  ASSUME NEW s, NEW radio, NEW packet, NEW pr, NEW hosts, InvOf(s, radio, packet, pr, hosts), Alive(s),
         pr.link # "reports" \/ pr.asleep # "none", NEW t, t = Aged(s)
  PROVE  InvOf(t, radio, packet, pr, hosts) /\ Alive(t)
<1> DEFINE old == IF s.confirmed /\ s.have THEN [s EXCEPT !.fresh = FALSE] ELSE s
<1>1. /\ s \in SessionTypes /\ WireInv(s, radio, packet) /\ SessionInv(s)
      /\ PeerInv(s, radio, pr, hosts) /\ HostInv(s, radio, hosts[pr.mode])
      /\ radio \in HalStates /\ packet \in PacketTypes
      /\ pr \in PeerTypes /\ hosts \in [Modes -> HostTypes]
  BY DEF InvOf, TypesOK
<1>2. /\ old \in SessionTypes /\ SameCourse(s, old) /\ SameReport(s, old)
      /\ old.confirmed = s.confirmed /\ old.have = s.have /\ (old.fresh => s.fresh) /\ old.state = s.state
      /\ old.linked = s.linked /\ old.pair = s.pair /\ old.flight = s.flight /\ old.sleepDone = s.sleepDone
  BY <1>1, StaleFields DEF SameCourse, SameReport
<1>3. CASE ~(Regular(s) /\ s.confirmed /\ s.have /\ s.linked)
  <2>1. t = old
    BY <1>3 DEF Aged
  <2> HIDE DEF old
  <2>2. Alive(t) /\ TypesOK(t, radio, packet, pr, hosts)
    BY <1>1, <1>2, <2>1 DEF Alive, TypesOK, SameCourse
  <2>3. WireInv(t, radio, packet)
    BY <1>1, <1>2, <2>1, <2>2 DEF WireInv, Reporting, SameCourse, SameReport
  <2>4. SessionInv(t)
    <3>1. ReportsInv(t)
      BY <1>1, <1>2, <2>1, <2>2 DEF SessionInv, ReportsInv,
         Reporting, AllReleased, SameReport, SameCourse, Alive
    <3>2. UsageInv(t)
      BY <1>1, <1>2, <2>1 DEF SessionInv, UsageInv, SameReport, SameCourse
    <3> QED BY <1>1, <1>2, <2>1, <3>1, <3>2 DEF SessionInv, ToldReports, Spoken, SameReport, SameCourse
  <2>5. PeerInv(t, radio, pr, hosts)
    <3>1. ServedInv(s, radio, hosts[pr.mode]) => ServedInv(t, radio, hosts[pr.mode])
      BY <1>2, <2>1 DEF ServedInv, ListSent, MapSent, UsageSent, SameReport
    <3> QED BY <1>1, <1>2, <2>1, <2>2, <3>1 DEF PeerInv, Spoken, SameReport, SameCourse, Alive
  <2>6. HostInv(t, radio, hosts[pr.mode])
    BY <1>1, <1>2, <2>1 DEF HostInv, ListSent, MapSent, SameReport, SameCourse
  <2> QED BY <2>2, <2>3, <2>4, <2>5, <2>6 DEF InvOf
<1>4. CASE Regular(s) /\ s.confirmed /\ s.have /\ s.linked
  <2>1. t = Unlinked(old)
    BY <1>4 DEF Aged
  <2>2. ~old.fresh
    BY <1>1, <1>4, StaleFields
  <2> HIDE DEF old
  <2>3. /\ t \in SessionTypes
        /\ t.active = old.active /\ t.faulted = old.faulted /\ t.target = old.target
        /\ t.confirmed = old.confirmed /\ t.have = old.have /\ t.fresh = old.fresh /\ t.state = old.state
        /\ t.modeSent = old.modeSent /\ t.flight = old.flight /\ t.sleep = old.sleep
        /\ t.sleepDone = old.sleepDone /\ t.before = old.before /\ t.pair = old.pair
        /\ ~t.linked /\ ~t.reports /\ t.pending /\ t.part = "keys"
        /\ t.committed = Released /\ t.staged = Released
        /\ t.usage = NoUsage /\ t.usageStaged = NoUsage /\ ~t.usagePending
    BY <1>2, <2>1, UnlinkedFields
  <2>4. /\ t.active = s.active /\ t.faulted = s.faulted /\ t.target = s.target
        /\ t.modeSent = s.modeSent /\ t.sleep = s.sleep /\ t.before = s.before /\ t.sleepDone = s.sleepDone
        /\ t.pair = s.pair /\ t.flight = s.flight /\ t.confirmed = s.confirmed /\ ~t.fresh
    BY <1>2, <2>2, <2>3 DEF SameCourse
  <2>5. /\ s.sleep = "none" /\ s.pair = "none" /\ s.target # "usb" /\ s.confirmed
        /\ s.flight \notin {"mode", "sleep", "pair"}
    BY <1>1, <1>4 DEF SessionInv, WireInv, Regular
  <2>6. pr.mode = s.target /\ pr.link # "reports" /\ pr.asleep = "none" /\ Mute(hosts[pr.mode])
    BY <1>1, <1>4, <2>5 DEF PeerInv
  <2>7. Alive(t) /\ TypesOK(t, radio, packet, pr, hosts)
    BY <1>1, <2>3, <2>4 DEF Alive, TypesOK
  <2>8. WireInv(t, radio, packet)
    BY <1>1, <2>3, <2>4, <2>5, <2>7 DEF WireInv, Reporting
  <2>9. SessionInv(t)
    BY <1>1, <2>3, <2>4, <2>5, ReportFacts
       DEF SessionInv, ReportsInv, UsageInv, Spoken, Reporting, AllReleased, ToldReports
  <2>10. PeerInv(t, radio, pr, hosts)
    BY <1>1, <2>4, <2>6, <2>7 DEF PeerInv
  <2>11. HostInv(t, radio, hosts[pr.mode])
    BY <2>6, SilentHost DEF Mute
  <2> QED BY <2>7, <2>8, <2>9, <2>10, <2>11 DEF InvOf
<1> QED BY <1>3, <1>4

-----------------------------------------------------------------------------
(* The owner's calls.                                                      *)
LEMMA OwnerParts ==
  ASSUME WirelessInv
  PROVE  /\ w \in SessionTypes /\ WireInv(w, spi, tx) /\ SessionInv(w)
         /\ PeerInv(w, spi, peer, host) /\ HostInv(w, spi, host[peer.mode])
         /\ spi \in HalStates /\ tx \in PacketTypes
         /\ peer \in PeerTypes /\ host \in [Modes -> HostTypes]
         /\ InvOf(w, spi, tx, peer, host)
  BY DEF WirelessInv, InvOf, TypesOK

LEMMA IdlePacket == Idle \in PacketTypes /\ Idle.kind = "none"
  BY DEF Idle, PacketTypes, NoPacket, Kinds, UsageTypes, Commands

LEMMA OfferFields ==
  ASSUME NEW s \in SessionTypes, NEW report \in SUBSET Keys, NEW t, t = WithReport(s, report)
  PROVE  /\ t \in SessionTypes /\ SameCourse(s, t) /\ SameStatus(s, t)
         /\ t.linked = s.linked /\ t.pair = s.pair /\ t.flight = s.flight /\ t.sleepDone = s.sleepDone
         /\ t.reports = s.reports /\ t.pending /\ t.part = "keys" /\ t.committed = s.committed
         /\ Follows(s.committed, t.staged)
         /\ t.usage = s.usage /\ t.usageStaged = s.usageStaged /\ t.usagePending = s.usagePending
<1>1. PICK next \in ReportTypes : next = Placed(s.committed, report) /\ Follows(s.committed, next)
  BY PlacedFollows DEF SessionTypes
<1>2. t = [s EXCEPT !.staged = next, !.pending = TRUE, !.part = "keys"]
  BY <1>1 DEF WithReport
<1>3. t \in SessionTypes
  <2> DEFINE u == [s EXCEPT !.staged = next]
  <2>1. u \in SessionTypes
    BY DEF SessionTypes
  <2> HIDE DEF u
  <2>2. [u EXCEPT !.pending = TRUE, !.part = "keys"] \in SessionTypes
    BY <2>1 DEF SessionTypes
  <2> QED BY <1>2, <2>2 DEF u
<1>4. SameCourse(s, t) /\ SameStatus(s, t)
  BY <1>2 DEF SameCourse, SameStatus, SessionTypes
<1>5. /\ t.linked = s.linked /\ t.pair = s.pair /\ t.flight = s.flight /\ t.sleepDone = s.sleepDone
      /\ t.reports = s.reports /\ t.pending /\ t.part = "keys" /\ t.committed = s.committed
      /\ t.staged = next
      /\ t.usage = s.usage /\ t.usageStaged = s.usageStaged /\ t.usagePending = s.usagePending
  BY <1>2 DEF SessionTypes
<1> QED BY <1>1, <1>3, <1>4, <1>5

LEMMA ReportKeeps ==
  ASSUME NEW s, InvOf(s, spi, tx, peer, host), Offers(s), NEW report \in SUBSET Keys,
         NEW t, t = WithReport(s, report)
  PROVE  InvOf(t, spi, tx, peer, host)
<1>1. /\ s \in SessionTypes /\ WireInv(s, spi, tx) /\ SessionInv(s)
      /\ PeerInv(s, spi, peer, host) /\ HostInv(s, spi, host[peer.mode])
      /\ spi \in HalStates /\ tx \in PacketTypes
      /\ peer \in PeerTypes /\ host \in [Modes -> HostTypes]
  BY DEF InvOf, TypesOK
<1>2. Eligible(s) /\ ~s.pending
  BY DEF Offers
<1>3. /\ t \in SessionTypes /\ SameCourse(s, t) /\ SameStatus(s, t)
      /\ t.linked = s.linked /\ t.pair = s.pair /\ t.flight = s.flight /\ t.sleepDone = s.sleepDone
      /\ t.reports = s.reports /\ t.pending /\ t.part = "keys" /\ t.committed = s.committed
      /\ Follows(s.committed, t.staged)
      /\ t.usage = s.usage /\ t.usageStaged = s.usageStaged /\ t.usagePending = s.usagePending
  BY <1>1, OfferFields
<1>4. /\ s.linked /\ s.sleep = "none" /\ s.pair = "none" /\ ~Reporting(s)
      /\ s.target # "usb" /\ Alive(s) /\ s.reports
  <2>1. s.linked /\ s.sleep = "none" /\ s.pair = "none"
    BY <1>1, <1>2, ToldIsLinked
  <2> QED BY <1>1, <1>2, <2>1 DEF SessionInv, ReportsInv, Eligible, Alive
<1>5. TypesOK(t, spi, tx, peer, host)
  BY <1>1, <1>3 DEF TypesOK
<1>6. WireInv(t, spi, tx)
  BY <1>1, <1>3, <1>4 DEF WireInv, Reporting, SameCourse, SameStatus, Alive
<1>7. SessionInv(t)
  <2>1. ReportsInv(t)
    BY <1>1, <1>3, <1>4 DEF SessionInv, ReportsInv, Reporting, SameCourse, Alive
  <2>2. UsageInv(t)
    BY <1>1, <1>3 DEF SessionInv, UsageInv, SameCourse
  <2> QED BY <1>1, <1>3, <1>4, <2>1, <2>2 DEF SessionInv, ToldReports, Spoken, SameCourse, SameStatus
<1>8. PeerInv(t, spi, peer, host)
  <2>1. ServedInv(s, spi, host[peer.mode]) => ServedInv(t, spi, host[peer.mode])
    BY <1>2, <1>3, <1>4 DEF ServedInv, ListSent, UsageSent, SameCourse
  <2> QED BY <1>1, <1>3, <1>4, <2>1 DEF PeerInv, SameCourse, Alive
<1>9. HostInv(t, spi, host[peer.mode])
  BY <1>1, <1>2, <1>3, <1>4 DEF HostInv, ListSent, MapSent, Reporting, SameCourse
<1> QED BY <1>5, <1>6, <1>7, <1>8, <1>9 DEF InvOf

LEMMA OfferKeeps ==
  ASSUME WirelessInv, NEW report \in SUBSET Keys, Offer(report) PROVE WirelessInv'
  BY ReportKeeps DEF WirelessInv, Offer

(* The encoder's usage and the battery's percentage have a place of their  *)
(* own in the session.                                                     *)
WithUsage(s, v) == [s EXCEPT !.usageStaged = v, !.usagePending = TRUE]
LEMMA UsageKeeps ==
  ASSUME NEW s, InvOf(s, spi, tx, peer, host), Eligible(s), ~s.usagePending, NEW v \in UsageTypes,
         NEW t, t = WithUsage(s, v)
  PROVE  InvOf(t, spi, tx, peer, host)
<1>1. /\ s \in SessionTypes /\ WireInv(s, spi, tx) /\ SessionInv(s)
      /\ PeerInv(s, spi, peer, host) /\ HostInv(s, spi, host[peer.mode])
  BY DEF InvOf, TypesOK
<1>2. t \in SessionTypes
  BY <1>1 DEF WithUsage, SessionTypes
<1>3. /\ SameCourse(s, t) /\ SameStatus(s, t)
      /\ t.reports = s.reports /\ t.pending = s.pending /\ t.part = s.part
      /\ t.committed = s.committed /\ t.staged = s.staged /\ t.usage = s.usage
      /\ t.linked = s.linked /\ t.pair = s.pair /\ t.flight = s.flight /\ t.sleepDone = s.sleepDone
  BY <1>1 DEF WithUsage, SameCourse, SameStatus, SessionTypes
<1>4. s.linked /\ s.sleep = "none" /\ s.flight # "consumer"
  BY <1>1, ToldIsLinked DEF SessionInv, UsageInv
<1>5. TypesOK(t, spi, tx, peer, host)
  BY <1>2 DEF InvOf, TypesOK
<1>6. WireInv(t, spi, tx)
  BY <1>1, <1>3, <1>4 DEF WireInv, Reporting, SameCourse, SameStatus, Alive
<1>7. SessionInv(t)
  <2>1. ReportsInv(t)
    BY <1>1, <1>3 DEF SessionInv, ReportsInv, Reporting, AllReleased, SameCourse, Alive
  <2>2. UsageInv(t)
    BY <1>1, <1>3, <1>4 DEF SessionInv, UsageInv, SameCourse
  <2> QED BY <1>1, <1>3, <2>1, <2>2 DEF SessionInv, ToldReports, Spoken, SameCourse, SameStatus
<1>8. PeerInv(t, spi, peer, host)
  <2>1. ServedInv(s, spi, host[peer.mode]) => ServedInv(t, spi, host[peer.mode])
    BY <1>3, <1>4 DEF ServedInv, ListSent, MapSent, UsageSent
  <2> QED BY <1>1, <1>3, <2>1 DEF PeerInv, Spoken, SameCourse, Alive
<1>9. HostInv(t, spi, host[peer.mode])
  BY <1>1, <1>3 DEF HostInv, ListSent, MapSent
<1> QED BY <1>5, <1>6, <1>7, <1>8, <1>9 DEF InvOf

LEMMA ConsumerKeeps ==
  ASSUME WirelessInv, NEW v \in UsageTypes, Consumer(v) PROVE WirelessInv'
<1>1. /\ InvOf(w, spi, tx, peer, host) /\ Eligible(w) /\ ~w.usagePending /\ w' = WithUsage(w, v)
      /\ spi' = spi /\ tx' = tx /\ peer' = peer /\ host' = host
  BY DEF WirelessInv, Consumer, TakesUsage, WithUsage
<1>2. InvOf(w', spi, tx, peer, host)
  BY <1>1, UsageKeeps
<1> QED BY <1>1, <1>2 DEF WirelessInv

LEMMA AlikeKeeps ==
  ASSUME NEW s, NEW radio, NEW packet, NEW pr, NEW hosts, InvOf(s, radio, packet, pr, hosts),
         NEW t \in SessionTypes, SameCourse(s, t), SameReport(s, t), SameStatus(s, t),
         t.linked = s.linked, t.pair = s.pair, t.flight = s.flight, t.sleepDone = s.sleepDone
  PROVE  InvOf(t, radio, packet, pr, hosts)
<1>1. TypesOK(t, radio, packet, pr, hosts)
  BY DEF InvOf, TypesOK
<1>2. WireInv(t, radio, packet)
  BY DEF InvOf, WireInv, Reporting, SameCourse, SameStatus, SameReport, Alive
<1>3. SessionInv(t)
  <2>1. ReportsInv(t)
    BY DEF InvOf, SessionInv, ReportsInv, Reporting, AllReleased, SameCourse, SameReport, Alive
  <2>2. UsageInv(t)
    BY DEF InvOf, SessionInv, UsageInv, SameCourse, SameReport
  <2> QED BY <2>1, <2>2 DEF InvOf, SessionInv, ToldReports, Spoken, SameCourse, SameStatus, SameReport
<1>4. PeerInv(t, radio, pr, hosts)
  <2>1. ServedInv(s, radio, hosts[pr.mode]) => ServedInv(t, radio, hosts[pr.mode])
    BY DEF ServedInv, ListSent, MapSent, UsageSent, SameReport
  <2> QED BY <2>1 DEF InvOf, PeerInv, Spoken, SameCourse, SameReport, Alive
<1>5. HostInv(t, radio, hosts[pr.mode])
  BY DEF InvOf, HostInv, ListSent, MapSent, SameCourse, SameReport
<1> QED BY <1>1, <1>2, <1>3, <1>4, <1>5 DEF InvOf

LEMMA BatteryKeeps ==
  ASSUME WirelessInv, NEW valid \in BOOLEAN, Battery(valid) PROVE WirelessInv'
<1>1. w \in SessionTypes /\ InvOf(w, spi, tx, peer, host)
  BY OwnerParts
<1>2. PICK battery \in {"none", "due", "flying", "sent"} : w' = [w EXCEPT !.battery = battery]
  BY DEF Battery
<1>3. spi' = spi /\ tx' = tx /\ peer' = peer /\ host' = host
  BY DEF Battery
<1>4. w' \in SessionTypes
  BY <1>1, <1>2 DEF SessionTypes
<1>5. SameCourse(w, w') /\ SameReport(w, w') /\ SameStatus(w, w')
  BY <1>1, <1>2 DEF SameCourse, SameReport, SameStatus, SessionTypes
<1>6. w'.linked = w.linked /\ w'.pair = w.pair /\ w'.flight = w.flight /\ w'.sleepDone = w.sleepDone
  BY <1>1, <1>2 DEF SessionTypes
<1> QED BY <1>1, <1>3, <1>4, <1>5, <1>6, AlikeKeeps DEF WirelessInv

LEMMA StopKeeps == ASSUME WirelessInv, Stop PROVE WirelessInv'
<1>1. InvOf(w, spi, tx, peer, host) /\ w' \in {Failed(w), Stopped(w)}
  BY OwnerParts DEF Stop
<1>2. InvOf(w', "off", Idle, peer, host)
  BY <1>1, EndedKeeps
<1> QED BY <1>2 DEF WirelessInv, Stop

LEMMA InitKeeps == ASSUME WirelessInv, NEW m \in Modes, WirelessInit(m) PROVE WirelessInv'
<1>1. /\ w \in SessionTypes /\ WireInv(w, spi, tx) /\ PeerInv(w, spi, peer, host)
      /\ tx \in PacketTypes /\ peer \in PeerTypes /\ host \in [Modes -> HostTypes]
  BY OwnerParts
<1>2. /\ ~w.active /\ spi = "ready" /\ w' = Session(m)
      /\ spi' = spi /\ tx' = tx /\ peer' = peer /\ host' = host
  BY DEF WirelessInit
<1>4. tx.kind = "none" /\ peer.asleep = "none"
  BY <1>1, <1>2 DEF WireInv, PeerInv, Alive
<1>5. peer.link = "reports" => peer.mode # "usb" /\ Silenced(host[peer.mode])
  BY <1>1, <1>2, QuietHost DEF PeerInv, Alive
<1>6. TypesOK(w', "ready", tx, peer, host)
  BY <1>1, <1>2, SessionFields DEF TypesOK, HalStates
<1>7. InvOf(w', "ready", tx, peer, host)
  BY <1>2, <1>4, <1>5, <1>6, BegunKeeps
<1> QED BY <1>2, <1>7 DEF WirelessInv

LEMMA WokenPeer ==
  ASSUME peer \in PeerTypes, peer' = [peer EXCEPT !.asleep = "none"]
  PROVE  peer' \in PeerTypes /\ peer'.mode = peer.mode /\ peer'.link = peer.link /\ peer'.asleep = "none"
  BY DEF PeerTypes, Commands

LEMMA ResumeKeeps == ASSUME WirelessInv, ResumeRetained PROVE WirelessInv'
<1>1. /\ w \in SessionTypes /\ WireInv(w, spi, tx) /\ SessionInv(w) /\ InvOf(w, spi, tx, peer, host)
      /\ tx \in PacketTypes /\ peer \in PeerTypes /\ host \in [Modes -> HostTypes]
  BY OwnerParts
<1>2. /\ w.sleep = "retain" /\ w.flight = "none" /\ spi = "ready" /\ Alive(w)
      /\ w' = Session(w.target) /\ peer' = [peer EXCEPT !.asleep = "none"]
      /\ spi' = spi /\ tx' = tx /\ host' = host
  BY DEF ResumeRetained, LocalIdle, Healthy, NoPacket, Alive
<1>3. w.target \in Modes
  BY <1>1 DEF SessionTypes
<1>4. /\ peer' \in PeerTypes /\ peer'.mode = peer.mode /\ peer'.link = peer.link
      /\ peer'.asleep = "none"
  BY <1>1, <1>2, WokenPeer
<1>5. tx.kind = "none"
  BY <1>1, <1>2 DEF WireInv
<1>6. peer.link = "reports" => peer.mode # "usb" /\ Silenced(host[peer.mode])
  BY <1>1, <1>2, SilencedHost DEF SessionInv, ReportsInv, UsageInv, InvOf, PeerInv
<1>7. TypesOK(w', "ready", tx, peer', host)
  BY <1>1, <1>2, <1>3, <1>4, SessionFields DEF TypesOK, HalStates
<1>8. InvOf(w', "ready", tx, peer', host)
  BY <1>2, <1>3, <1>4, <1>5, <1>6, <1>7, BegunKeeps
<1> QED BY <1>2, <1>8 DEF WirelessInv

LEMMA NoBatteryTypes ==
  ASSUME NEW s \in SessionTypes PROVE [s EXCEPT !.battery = "none"] \in SessionTypes
  BY DEF SessionTypes

LEMMA RetargetedFields ==
  ASSUME NEW m \in Modes, w \in SessionTypes, NEW t, t = Retargeted(m)
  PROVE  /\ t \in SessionTypes /\ t.active = w.active /\ t.faulted = w.faulted
         /\ t.target = m /\ ~t.confirmed /\ ~t.linked /\ ~t.reports /\ t.part = "keys"
         /\ t.committed = Released /\ t.staged = Released
         /\ t.usage = NoUsage /\ t.usageStaged = NoUsage /\ ~t.usagePending /\ (t.pending <=> m # "usb")
         /\ t.flight = w.flight /\ t.sleep = w.sleep /\ t.sleepDone = w.sleepDone
         /\ t.before = w.before /\ t.pair = w.pair
<1> DEFINE u == Baseline(w)
<1>1. PICK pending \in BOOLEAN : pending = (m # "usb")
  OBVIOUS
<1>2. /\ u \in SessionTypes /\ u.active = w.active /\ u.faulted = w.faulted
      /\ ~u.reports /\ u.part = "keys" /\ u.committed = Released /\ u.staged = Released
      /\ u.usage = NoUsage /\ u.usageStaged = NoUsage /\ ~u.usagePending
      /\ u.flight = w.flight /\ u.sleep = w.sleep /\ u.sleepDone = w.sleepDone
      /\ u.before = w.before /\ u.pair = w.pair
  BY BaselineFields
<1> HIDE DEF u
<1> DEFINE u1 == [u EXCEPT !.target = m, !.confirmed = FALSE, !.have = FALSE]
           u2 == [u1 EXCEPT !.fresh = TRUE, !.state = "search", !.modeSent = FALSE]
<1>3. u \in SessionTypes
  BY <1>2
<1>4. u1 \in SessionTypes
  BY <1>3, ZenonT(30) DEF SessionTypes
<1> HIDE DEF u1
<1>5. u2 \in SessionTypes
  BY <1>4, ZenonT(30) DEF SessionTypes
<1> HIDE DEF u2
<1>6. [u2 EXCEPT !.linked = FALSE, !.battery = "none"] \in SessionTypes
  <2> DEFINE v == [u2 EXCEPT !.linked = FALSE]
  <2>1. v \in SessionTypes
    BY <1>5, ZenonT(30) DEF SessionTypes
  <2> HIDE DEF v
  <2>2. [v EXCEPT !.battery = "none"] \in SessionTypes
    BY <2>1, NoBatteryTypes
  <2> QED BY <2>2 DEF v
<1> DEFINE u3 == [u2 EXCEPT !.linked = FALSE, !.battery = "none"]
<1> HIDE DEF u3
<1>7. u3 \in SessionTypes
  BY <1>6 DEF u3
<1>8. [u3 EXCEPT !.pending = pending, !.paired = FALSE] \in SessionTypes
  BY <1>7, ZenonT(30) DEF SessionTypes
<1>9. t = [u EXCEPT !.target = m, !.confirmed = FALSE, !.have = FALSE, !.fresh = TRUE,
                    !.state = "search", !.modeSent = FALSE, !.linked = FALSE, !.battery = "none",
                    !.pending = pending, !.paired = FALSE]
  BY <1>1 DEF Retargeted, u
<1>10. t \in SessionTypes
  BY <1>8, <1>9 DEF u1, u2, u3
<1>11. t.target = m /\ ~t.confirmed /\ ~t.linked /\ t.pending = pending
  BY <1>3, <1>9 DEF SessionTypes
<1>12. /\ t.active = u.active /\ t.faulted = u.faulted /\ t.reports = u.reports /\ t.part = u.part
       /\ t.committed = u.committed /\ t.staged = u.staged
       /\ t.usage = u.usage /\ t.usageStaged = u.usageStaged /\ t.usagePending = u.usagePending
       /\ t.flight = u.flight /\ t.sleep = u.sleep /\ t.sleepDone = u.sleepDone
       /\ t.before = u.before /\ t.pair = u.pair
  BY <1>3, <1>9 DEF SessionTypes
<1> QED BY <1>1, <1>2, <1>10, <1>11, <1>12

LEMMA SwitchReadyHost ==
  ASSUME WirelessInv, SwitchReady
  PROVE  /\ AllReleased(w) /\ Alive(w) /\ w.flight = "none" /\ spi = "ready"
         /\ w.sleep = "none" /\ w.pair = "none" /\ peer.asleep = "none"
         /\ w.usage = NoUsage /\ (w.usagePending => w.usageStaged = NoUsage)
         /\ peer.link = "reports" => Silenced(host[peer.mode])
<1>1. SessionInv(w) /\ PeerInv(w, spi, peer, host) /\ InvOf(w, spi, tx, peer, host)
  BY OwnerParts
<1>2. /\ AllReleased(w) /\ Alive(w) /\ w.flight = "none" /\ spi = "ready"
      /\ w.sleep = "none" /\ w.pair = "none" /\ w.before = "none"
      /\ w.usage = NoUsage /\ (w.usagePending => w.usageStaged = NoUsage)
  BY <1>1 DEF SwitchReady, Healthy, Alive, AllReleased, SessionInv, ReportsInv, NoPacket
<1>3. peer.asleep = "none"
  BY <1>1, <1>2 DEF PeerInv
<1>4. peer.link = "reports" => Silenced(host[peer.mode])
  BY <1>1, <1>2, SilencedHost
<1> QED BY <1>2, <1>3, <1>4

LEMMA SelectKeeps == ASSUME WirelessInv, NEW m \in Modes, Select(m) PROVE WirelessInv'
<1>1. /\ w \in SessionTypes /\ WireInv(w, spi, tx) /\ SessionInv(w) /\ PeerInv(w, spi, peer, host)
      /\ spi \in HalStates /\ tx \in PacketTypes /\ peer \in PeerTypes /\ host \in [Modes -> HostTypes]
  BY OwnerParts
<1>2. SwitchReady /\ w' = Retargeted(m) /\ spi' = spi /\ tx' = tx /\ peer' = peer /\ host' = host
  BY DEF Select
<1>3. /\ AllReleased(w) /\ Alive(w) /\ w.flight = "none" /\ spi = "ready"
      /\ w.sleep = "none" /\ w.pair = "none" /\ peer.asleep = "none"
      /\ w.usage = NoUsage /\ (w.usagePending => w.usageStaged = NoUsage)
      /\ peer.link = "reports" => Silenced(host[peer.mode])
  BY <1>2, SwitchReadyHost
<1>4. /\ w' \in SessionTypes /\ w'.active = w.active /\ w'.faulted = w.faulted
      /\ w'.target = m /\ ~w'.confirmed /\ ~w'.linked /\ ~w'.reports /\ w'.part = "keys"
      /\ w'.committed = Released /\ w'.staged = Released
      /\ w'.usage = NoUsage /\ w'.usageStaged = NoUsage /\ ~w'.usagePending /\ (w'.pending <=> m # "usb")
      /\ w'.flight = w.flight /\ w'.sleep = w.sleep /\ w'.sleepDone = w.sleepDone
      /\ w'.before = w.before /\ w'.pair = w.pair
  BY <1>1, <1>2, RetargetedFields
<1>5. Alive(w') /\ TypesOK(w', spi, tx, peer, host)
  BY <1>1, <1>3, <1>4 DEF Alive, TypesOK
<1>6. WireInv(w', spi, tx)
  BY <1>1, <1>3, <1>4, <1>5 DEF WireInv, Reporting
<1>7. SessionInv(w')
  BY <1>1, <1>3, <1>4, ReportFacts
     DEF SessionInv, ReportsInv, UsageInv, Spoken, Reporting, AllReleased, ToldReports
<1>8. PeerInv(w', spi, peer, host)
  <2>1. peer.link = "reports" => ServedInv(w', spi, host[peer.mode])
    BY <1>3, <1>4, SilencedIsServed DEF AllReleased
  <2> QED BY <1>1, <1>3, <1>4, <1>5, <2>1 DEF PeerInv, Spoken
<1>9. HostInv(w', spi, host[peer.mode])
  BY <1>3, <1>4 DEF HostInv, ListSent, MapSent
<1> QED BY <1>2, <1>5, <1>6, <1>7, <1>8, <1>9 DEF WirelessInv, InvOf

Pairing(s) ==
    [s EXCEPT !.pair = "queued", !.paired = FALSE, !.linked = FALSE, !.confirmed = FALSE,
              !.have = FALSE, !.battery = "none", !.pending = FALSE]
LEMMA PairFields ==
  ASSUME NEW s \in SessionTypes, NEW t, t = Pairing(s)
  PROVE  /\ t \in SessionTypes /\ SameCourse(s, t)
         /\ ~t.confirmed /\ ~t.linked /\ ~t.pending /\ t.pair = "queued" /\ t.flight = s.flight
         /\ t.sleepDone = s.sleepDone /\ t.reports = s.reports /\ t.part = s.part
         /\ t.committed = s.committed /\ t.staged = s.staged
         /\ t.usage = s.usage /\ t.usageStaged = s.usageStaged /\ t.usagePending = s.usagePending
<1> DEFINE u == [s EXCEPT !.pair = "queued", !.paired = FALSE, !.linked = FALSE]
           v == [u EXCEPT !.confirmed = FALSE, !.have = FALSE]
<1>1. u \in SessionTypes
  BY ZenonT(30) DEF SessionTypes
<1> HIDE DEF u
<1>2. v \in SessionTypes
  BY <1>1, ZenonT(30) DEF SessionTypes
<1> HIDE DEF v
<1>3. [v EXCEPT !.battery = "none", !.pending = FALSE] \in SessionTypes
  <2> DEFINE x == [v EXCEPT !.battery = "none"]
  <2>1. x \in SessionTypes
    BY <1>2, NoBatteryTypes
  <2> HIDE DEF x
  <2>2. [x EXCEPT !.pending = FALSE] \in SessionTypes
    BY <2>1, ZenonT(30) DEF SessionTypes
  <2> QED BY <2>2 DEF x
<1>4. t \in SessionTypes
  BY <1>3 DEF Pairing, u, v
<1>5. SameCourse(s, t)
  BY DEF Pairing, SameCourse, SessionTypes
<1>6. /\ ~t.confirmed /\ ~t.linked /\ ~t.pending /\ t.pair = "queued" /\ t.flight = s.flight
      /\ t.sleepDone = s.sleepDone /\ t.reports = s.reports /\ t.part = s.part
      /\ t.committed = s.committed /\ t.staged = s.staged
      /\ t.usage = s.usage /\ t.usageStaged = s.usageStaged /\ t.usagePending = s.usagePending
  BY DEF Pairing, SessionTypes
<1> QED BY <1>4, <1>5, <1>6

LEMMA PairKeeps == ASSUME WirelessInv, RequestPair PROVE WirelessInv'
<1>1. /\ w \in SessionTypes /\ WireInv(w, spi, tx) /\ SessionInv(w) /\ PeerInv(w, spi, peer, host)
      /\ HostInv(w, spi, host[peer.mode])
      /\ spi \in HalStates /\ tx \in PacketTypes /\ peer \in PeerTypes /\ host \in [Modes -> HostTypes]
  BY OwnerParts
<1>2. /\ SwitchReady /\ spi' = spi /\ tx' = tx /\ peer' = peer /\ host' = host
      /\ w' = Pairing(w)
  BY DEF RequestPair, Pairing
<1>3. /\ AllReleased(w) /\ Alive(w) /\ w.flight = "none" /\ spi = "ready"
      /\ w.sleep = "none" /\ w.pair = "none" /\ peer.asleep = "none"
      /\ w.usage = NoUsage /\ (w.usagePending => w.usageStaged = NoUsage)
      /\ peer.link = "reports" => Silenced(host[peer.mode])
  BY <1>2, SwitchReadyHost
<1>4. /\ w' \in SessionTypes /\ SameCourse(w, w')
      /\ ~w'.confirmed /\ ~w'.linked /\ ~w'.pending /\ w'.pair = "queued" /\ w'.flight = w.flight
      /\ w'.sleepDone = w.sleepDone /\ w'.reports = w.reports /\ w'.part = w.part
      /\ w'.committed = w.committed /\ w'.staged = w.staged
      /\ w'.usage = w.usage /\ w'.usageStaged = w.usageStaged /\ w'.usagePending = w.usagePending
  BY <1>1, <1>2, PairFields
<1>5. Alive(w') /\ TypesOK(w', spi, tx, peer, host)
  BY <1>1, <1>3, <1>4 DEF Alive, TypesOK, SameCourse
<1>6. WireInv(w', spi, tx)
  BY <1>1, <1>3, <1>4, <1>5 DEF WireInv, Reporting, SameCourse
<1>7. SessionInv(w')
  BY <1>1, <1>3, <1>4, ReportFacts
     DEF SessionInv, ReportsInv, UsageInv, Spoken, Reporting, AllReleased, ToldReports, SameCourse
<1>8. PeerInv(w', spi, peer, host)
  <2>1. ServedInv(w, spi, host[peer.mode]) => ServedInv(w', spi, host[peer.mode])
    BY <1>3, <1>4, ReportFacts DEF ServedInv, ListSent, MapSent, UsageSent, AllReleased
  <2> QED BY <1>1, <1>3, <1>4, <1>5, <2>1 DEF PeerInv, Spoken, SameCourse
<1>9. HostInv(w', spi, host[peer.mode])
  BY <1>1, <1>3, <1>4, ReportFacts DEF HostInv, ListSent, MapSent, SameCourse, AllReleased
<1> QED BY <1>2, <1>5, <1>6, <1>7, <1>8, <1>9 DEF WirelessInv, InvOf

WithSleep(s, command) ==
    [s EXCEPT !.before = s.sleep, !.sleep = command, !.sleepDone = FALSE,
              !.pending = FALSE, !.battery = "none"]
LEMMA SleepFields ==
  ASSUME NEW s \in SessionTypes, NEW command \in {"sleep", "retain"}, NEW t, t = WithSleep(s, command)
  PROVE  /\ t \in SessionTypes /\ SameStatus(s, t)
         /\ t.active = s.active /\ t.faulted = s.faulted /\ t.target = s.target
         /\ t.modeSent = s.modeSent /\ t.linked = s.linked /\ t.pair = s.pair
         /\ t.flight = s.flight /\ t.before = s.sleep /\ t.sleep = command /\ ~t.sleepDone
         /\ ~t.pending /\ t.part = s.part /\ t.reports = s.reports
         /\ t.committed = s.committed /\ t.staged = s.staged
         /\ t.usage = s.usage /\ t.usageStaged = s.usageStaged /\ t.usagePending = s.usagePending
<1> DEFINE u == [s EXCEPT !.before = s.sleep, !.sleep = command]
<1>1. command \in Commands /\ s.sleep \in Commands
  BY DEF SessionTypes, Commands
<1>2. u \in SessionTypes
  BY <1>1, ZenonT(30) DEF SessionTypes
<1> HIDE DEF u
<1>3. [u EXCEPT !.sleepDone = FALSE, !.pending = FALSE, !.battery = "none"] \in SessionTypes
  <2> DEFINE v == [u EXCEPT !.sleepDone = FALSE, !.pending = FALSE]
  <2>1. v \in SessionTypes
    BY <1>2, ZenonT(30) DEF SessionTypes
  <2> HIDE DEF v
  <2>2. [v EXCEPT !.battery = "none"] \in SessionTypes
    BY <2>1, NoBatteryTypes
  <2> QED BY <2>2 DEF v
<1>4. t \in SessionTypes
  BY <1>3 DEF WithSleep, u
<1>5. SameStatus(s, t)
  BY DEF WithSleep, SameStatus, SessionTypes
<1>6. /\ t.active = s.active /\ t.faulted = s.faulted /\ t.target = s.target
      /\ t.modeSent = s.modeSent /\ t.linked = s.linked /\ t.pair = s.pair
      /\ t.flight = s.flight /\ t.part = s.part /\ t.reports = s.reports
      /\ t.committed = s.committed /\ t.staged = s.staged
      /\ t.usage = s.usage /\ t.usageStaged = s.usageStaged /\ t.usagePending = s.usagePending
  BY DEF WithSleep, SessionTypes
<1>7. t.before = s.sleep /\ t.sleep = command /\ ~t.sleepDone /\ ~t.pending
  BY DEF WithSleep, SessionTypes
<1> QED BY <1>4, <1>5, <1>6, <1>7

LEMMA SleepKeeps ==
  ASSUME WirelessInv, NEW command \in {"sleep", "retain"}, RequestSleep(command) PROVE WirelessInv'
<1>1. /\ w \in SessionTypes /\ WireInv(w, spi, tx) /\ SessionInv(w) /\ PeerInv(w, spi, peer, host)
      /\ HostInv(w, spi, host[peer.mode])
      /\ spi \in HalStates /\ tx \in PacketTypes /\ peer \in PeerTypes /\ host \in [Modes -> HostTypes]
  BY OwnerParts
<1>2. /\ MaySleep(command) /\ spi' = spi /\ tx' = tx /\ peer' = peer /\ host' = host
      /\ w' = WithSleep(w, command)
  BY DEF RequestSleep, WithSleep
<1>3. /\ AllReleased(w) /\ Alive(w) /\ w.flight = "none" /\ spi = "ready" /\ w.pair = "none"
      /\ (w.reports => ~w.pending) /\ command # "none" /\ w.usage = NoUsage /\ ~w.usagePending
  BY <1>1, <1>2 DEF MaySleep, Healthy, Alive, AllReleased, SessionInv, ReportsInv, NoPacket
<1>4. /\ w' \in SessionTypes /\ SameStatus(w, w')
      /\ w'.active = w.active /\ w'.faulted = w.faulted /\ w'.target = w.target
      /\ w'.modeSent = w.modeSent /\ w'.linked = w.linked /\ w'.pair = w.pair
      /\ w'.flight = w.flight /\ w'.before = w.sleep /\ w'.sleep = command /\ ~w'.sleepDone
      /\ ~w'.pending /\ w'.part = w.part /\ w'.reports = w.reports
      /\ w'.committed = w.committed /\ w'.staged = w.staged
      /\ w'.usage = w.usage /\ w'.usageStaged = w.usageStaged /\ w'.usagePending = w.usagePending
  BY <1>1, <1>2, SleepFields
<1>5. Alive(w') /\ TypesOK(w', spi, tx, peer, host)
  BY <1>1, <1>3, <1>4 DEF Alive, TypesOK
<1>6. WireInv(w', spi, tx)
  BY <1>1, <1>3, <1>4, <1>5 DEF WireInv, Reporting
<1>7. SessionInv(w')
  <2>1. ReportsInv(w')
    BY <1>1, <1>3, <1>4 DEF SessionInv, ReportsInv, Reporting, AllReleased
  <2>2. UsageInv(w')
    BY <1>1, <1>3, <1>4 DEF SessionInv, UsageInv
  <2> QED BY <1>1, <1>3, <1>4, <2>1, <2>2 DEF SessionInv, ToldReports, Spoken, SameStatus
<1>8. PeerInv(w', spi, peer, host)
  <2>1. ServedInv(w, spi, host[peer.mode]) => ServedInv(w', spi, host[peer.mode])
    BY <1>3, <1>4 DEF ServedInv, ListSent, MapSent, UsageSent
  <2> QED BY <1>1, <1>3, <1>4, <1>5, <2>1 DEF PeerInv, Spoken
<1>9. HostInv(w', spi, host[peer.mode])
  BY <1>1, <1>3, <1>4 DEF HostInv, ListSent, MapSent
<1> QED BY <1>2, <1>5, <1>6, <1>7, <1>8, <1>9 DEF WirelessInv, InvOf

LEMMA CancelKeeps == ASSUME WirelessInv, CancelSleep PROVE WirelessInv'
<1>1. /\ w \in SessionTypes /\ WireInv(w, spi, tx) /\ SessionInv(w) /\ PeerInv(w, spi, peer, host)
      /\ HostInv(w, spi, host[peer.mode])
      /\ spi \in HalStates /\ tx \in PacketTypes /\ peer \in PeerTypes /\ host \in [Modes -> HostTypes]
  BY OwnerParts
<1>2. /\ Alive(w) /\ w.sleep # "none" /\ ~w.sleepDone /\ w.flight # "sleep"
      /\ spi' = spi /\ tx' = tx /\ peer' = peer /\ host' = host
  BY DEF CancelSleep, Healthy, Alive
<1>3. /\ w.flight = "none" /\ w.pair = "none" /\ AllReleased(w) /\ ~w.pending
  BY <1>1, <1>2 DEF WireInv, SessionInv, ReportsInv
<1>4. CASE w.before # "none"
  <2>1. w' = [w EXCEPT !.sleep = w.before, !.sleepDone = TRUE, !.before = "none"]
    BY <1>4 DEF CancelSleep
  <2>2. w.before \in Commands /\ "none" \in Commands
    BY <1>1 DEF SessionTypes, Commands
  <2>3. w' \in SessionTypes
    BY <1>1, <2>1, <2>2, ZenonT(30) DEF SessionTypes
  <2>4. SameReport(w, w') /\ SameStatus(w, w')
    BY <1>1, <2>1 DEF SameReport, SameStatus, SessionTypes
  <2>5. /\ w'.active = w.active /\ w'.faulted = w.faulted /\ w'.target = w.target
        /\ w'.modeSent = w.modeSent /\ w'.linked = w.linked /\ w'.pair = w.pair
        /\ w'.flight = w.flight /\ w'.sleep = w.before /\ w'.sleepDone /\ w'.before = "none"
    BY <1>1, <2>1 DEF SessionTypes
  <2>6. Alive(w') /\ TypesOK(w', spi, tx, peer, host)
    BY <1>1, <1>2, <2>3, <2>5 DEF Alive, TypesOK
  <2>7. WireInv(w', spi, tx)
    BY <1>1, <1>2, <1>3, <2>5 DEF WireInv, Reporting
  <2>8. SessionInv(w')
    <3>1. ReportsInv(w')
      BY <1>1, <1>3, <1>4, <2>4, <2>5 DEF SessionInv, ReportsInv, Reporting, AllReleased, SameReport
    <3>2. UsageInv(w')
      BY <1>1, <1>2, <1>3, <2>4, <2>5 DEF SessionInv, UsageInv, SameReport
    <3> QED BY <1>1, <1>3, <1>4, <2>4, <2>5, <3>1, <3>2
            DEF SessionInv, ToldReports, Spoken, SameStatus, SameReport
  <2>9. PeerInv(w', spi, peer, host)
    <3>1. ServedInv(w, spi, host[peer.mode]) => ServedInv(w', spi, host[peer.mode])
      BY <2>4, <2>5 DEF ServedInv, ListSent, MapSent, UsageSent, SameReport
    <3> QED BY <1>1, <1>2, <1>4, <2>4, <2>5, <2>6, <3>1 DEF PeerInv, Spoken, SameReport
  <2>10. HostInv(w', spi, host[peer.mode])
    BY <1>1, <2>4, <2>5 DEF HostInv, ListSent, MapSent, SameReport
  <2> QED BY <1>2, <2>6, <2>7, <2>8, <2>9, <2>10 DEF WirelessInv, InvOf
<1>5. CASE w.before = "none"
  <2>1. PICK pending \in BOOLEAN : pending = (w.pending \/ ~w.reports)
    BY <1>1 DEF SessionTypes
  <2>2. PICK part \in {"keys", "bitmap"} : part = IF w.reports THEN w.part ELSE "keys"
    BY <1>1 DEF SessionTypes
  <2>3. w' = [w EXCEPT !.sleep = "none", !.pending = pending, !.part = part]
    BY <1>5, <2>1, <2>2 DEF CancelSleep
  <2>4. "none" \in Commands
    BY DEF Commands
  <2>5. w' \in SessionTypes
    <3> DEFINE u == [w EXCEPT !.sleep = "none", !.pending = pending]
    <3>1. u \in SessionTypes
      BY <1>1, <2>4 DEF SessionTypes
    <3> HIDE DEF u
    <3>2. [u EXCEPT !.part = part] \in SessionTypes
      BY <3>1 DEF SessionTypes
    <3> QED BY <2>3, <3>2 DEF u
  <2>6. SameStatus(w, w')
    BY <1>1, <2>3 DEF SameStatus, SessionTypes
  <2>7. /\ w'.active = w.active /\ w'.faulted = w.faulted /\ w'.target = w.target
        /\ w'.modeSent = w.modeSent /\ w'.linked = w.linked /\ w'.pair = w.pair
        /\ w'.flight = w.flight /\ w'.sleepDone = w.sleepDone /\ w'.before = w.before
        /\ w'.committed = w.committed /\ w'.staged = w.staged
        /\ w'.usage = w.usage /\ w'.usageStaged = w.usageStaged
        /\ w'.usagePending = w.usagePending /\ w'.reports = w.reports
    BY <1>1, <2>3 DEF SessionTypes
  <2>8. w'.sleep = "none" /\ w'.pending = pending /\ w'.part = part
    BY <1>1, <2>3 DEF SessionTypes
  <2>9. Alive(w') /\ TypesOK(w', spi, tx, peer, host)
    BY <1>1, <1>2, <2>5, <2>7 DEF Alive, TypesOK
  <2>10. WireInv(w', spi, tx)
    BY <1>1, <1>2, <1>3, <2>7, <2>8 DEF WireInv, Reporting
  <2>11. SessionInv(w')
    <3>1. ReportsInv(w')
      BY <1>1, <1>3, <2>1, <2>2, <2>7, <2>8 DEF SessionInv, ReportsInv, Reporting, AllReleased
    <3>2. UsageInv(w')
      BY <1>1, <1>2, <1>3, <2>7 DEF SessionInv, UsageInv
    <3> QED BY <1>1, <1>3, <1>5, <2>1, <2>2, <2>6, <2>7, <2>8, <3>1, <3>2
            DEF SessionInv, ToldReports, Spoken, SameStatus
  <2>12. PeerInv(w', spi, peer, host)
    <3>1. ServedInv(w, spi, host[peer.mode]) => ServedInv(w', spi, host[peer.mode])
      BY <1>3, <2>7, <2>8 DEF ServedInv, ListSent, MapSent, UsageSent
    <3>2. Spoken(w') => Spoken(w)
      BY <1>3, <2>1, <2>2, <2>7, <2>8 DEF Spoken
    <3> QED BY <1>1, <1>2, <1>3, <1>5, <2>7, <2>9, <3>1, <3>2 DEF PeerInv
  <2>13. HostInv(w', spi, host[peer.mode])
    BY <1>1, <1>3, <2>1, <2>2, <2>7, <2>8 DEF HostInv, ListSent, MapSent
  <2> QED BY <1>2, <2>9, <2>10, <2>11, <2>12, <2>13 DEF WirelessInv, InvOf
<1> QED BY <1>4, <1>5

-----------------------------------------------------------------------------
(* The peer, its hosts and the pulse on PA15.                              *)
LEMMA QuietHosts ==
  ASSUME host \in [Modes -> HostTypes], NEW m \in Modes, NEW hosts, hosts = [host EXCEPT ![m] = Quiet]
  PROVE  hosts \in [Modes -> HostTypes] /\ hosts[m] = Quiet
  BY QuietHost

LEMMA PeerFields ==
  ASSUME peer \in PeerTypes, NEW asleep \in Commands, NEW link \in {"search", "reports", "pairing"},
         NEW pr, pr = [peer EXCEPT !.asleep = asleep, !.link = link]
  PROVE  pr \in PeerTypes /\ pr.mode = peer.mode /\ pr.link = link /\ pr.asleep = asleep
  BY DEF PeerTypes

LEMMA LinkUpKeeps == ASSUME WirelessInv, LinkUp PROVE WirelessInv'
<1>1. /\ w \in SessionTypes /\ WireInv(w, spi, tx) /\ SessionInv(w) /\ PeerInv(w, spi, peer, host)
      /\ spi \in HalStates /\ tx \in PacketTypes /\ peer \in PeerTypes /\ host \in [Modes -> HostTypes]
  BY OwnerParts
<1>2. /\ peer.asleep = "none" /\ peer.mode # "usb" /\ peer' = [peer EXCEPT !.link = "reports"]
      /\ host' = [host EXCEPT ![peer.mode] = Quiet] /\ w' = w /\ spi' = spi /\ tx' = tx
  BY DEF LinkUp
<1>3. /\ peer' \in PeerTypes /\ peer'.mode = peer.mode /\ peer'.asleep = "none" /\ peer'.link = "reports"
      /\ peer.mode \in Modes
  BY <1>1, <1>2 DEF PeerTypes
<1>4. host' \in [Modes -> HostTypes] /\ host'[peer'.mode] = Quiet
  BY <1>1, <1>2, <1>3, QuietHosts
<1>5. TypesOK(w, spi, tx, peer', host')
  BY <1>1, <1>3, <1>4 DEF TypesOK
<1>6. PeerInv(w, spi, peer', host')
  BY <1>1, <1>2, <1>3, <1>4, QuietHost DEF PeerInv
<1>7. HostInv(w, spi, host'[peer'.mode])
  BY <1>4, QuietHost
<1> QED BY <1>1, <1>2, <1>5, <1>6, <1>7 DEF WirelessInv, InvOf

LEMMA LinkDownKeeps == ASSUME WirelessInv, LinkDown PROVE WirelessInv'
<1>1. /\ w \in SessionTypes /\ WireInv(w, spi, tx) /\ SessionInv(w) /\ PeerInv(w, spi, peer, host)
      /\ spi \in HalStates /\ tx \in PacketTypes /\ peer \in PeerTypes /\ host \in [Modes -> HostTypes]
  BY OwnerParts
<1>2. /\ peer' = [peer EXCEPT !.link = "search"]
      /\ host' = [host EXCEPT ![peer.mode] = Quiet] /\ w' = w /\ spi' = spi /\ tx' = tx
  BY DEF LinkDown
<1>3. /\ peer' \in PeerTypes /\ peer'.mode = peer.mode /\ peer'.asleep = peer.asleep
      /\ peer'.link = "search" /\ peer.mode \in Modes
  BY <1>1, <1>2 DEF PeerTypes
<1>4. host' \in [Modes -> HostTypes] /\ host'[peer'.mode] = Quiet
  BY <1>1, <1>2, <1>3, QuietHosts
<1>5. TypesOK(w, spi, tx, peer', host')
  BY <1>1, <1>3, <1>4 DEF TypesOK
<1>6. PeerInv(w, spi, peer', host')
  BY <1>1, <1>2, <1>3, <1>4, QuietHost DEF PeerInv
<1>7. HostInv(w, spi, host'[peer'.mode])
  BY <1>4, QuietHost
<1> QED BY <1>1, <1>2, <1>5, <1>6, <1>7 DEF WirelessInv, InvOf

LEMMA PulseKeeps == ASSUME WirelessInv, RadioInit PROVE WirelessInv'
<1>1. /\ w \in SessionTypes /\ WireInv(w, spi, tx) /\ SessionInv(w) /\ PeerInv(w, spi, peer, host)
      /\ peer \in PeerTypes /\ host \in [Modes -> HostTypes]
  BY OwnerParts
<1>2. /\ spi \in {"off", "fault"} /\ peer' = [peer EXCEPT !.asleep = "none", !.link = "search"]
      /\ host' = [host EXCEPT ![peer.mode] = Quiet] /\ w' = w /\ spi' = "pulse" /\ tx' = Idle
  BY DEF RadioInit
<1>3. peer' \in PeerTypes /\ peer'.mode = peer.mode /\ peer'.link = "search" /\ peer'.asleep = "none"
  BY <1>1, <1>2, PeerFields DEF Commands
<1>4. host' \in [Modes -> HostTypes] /\ host'[peer'.mode] = Quiet
  <2>1. peer.mode \in Modes
    BY <1>1 DEF PeerTypes
  <2> QED BY <1>1, <1>2, <1>3, <2>1, QuietHosts
<1>5. TypesOK(w, "pulse", Idle, peer', host')
  BY <1>1, <1>3, <1>4, IdlePacket DEF TypesOK, HalStates
<1>6. WireInv(w, "pulse", Idle)
  BY <1>1, <1>2, IdlePacket DEF WireInv, Reporting
<1>7. PeerInv(w, "pulse", peer', host')
  BY <1>1, <1>3, <1>4, QuietHost DEF PeerInv
<1>8. HostInv(w, "pulse", host'[peer'.mode])
  BY <1>4, QuietHost
<1> QED BY <1>1, <1>2, <1>5, <1>6, <1>7, <1>8 DEF WirelessInv, InvOf

(* An idle HAL may change its state as long as it stays powered.           *)
LEMMA IdleHalKeeps ==
  ASSUME NEW s, NEW radio, NEW packet, NEW pr, NEW hosts, InvOf(s, radio, packet, pr, hosts),
         radio \in {"pulse", "ready"}, NEW next \in {"pulse", "ready", "fault"}
  PROVE  InvOf(s, next, packet, pr, hosts)
<1>1. TypesOK(s, next, packet, pr, hosts)
  BY DEF InvOf, TypesOK, HalStates
<1>2. WireInv(s, next, packet)
  BY DEF InvOf, WireInv
<1>3. PeerInv(s, next, pr, hosts)
  BY DEF InvOf, PeerInv, ServedInv, ListSent, MapSent, UsageSent
<1>4. HostInv(s, next, hosts[pr.mode])
  BY DEF InvOf, HostInv, ListSent, MapSent
<1> QED BY <1>1, <1>2, <1>3, <1>4 DEF InvOf

LEMMA PulseEndsKeeps == ASSUME WirelessInv, PulseEnds PROVE WirelessInv'
  BY IdleHalKeeps DEF WirelessInv, PulseEnds
LEMMA ExchangeFaultsKeeps == ASSUME WirelessInv, ExchangeFaults PROVE WirelessInv'
  BY IdleHalKeeps DEF WirelessInv, ExchangeFaults

(* A packet reaches the peer.                                              *)
LEMMA ToldFields ==
  ASSUME host \in [Modes -> HostTypes], NEW m \in Modes, NEW p \in PacketTypes, NEW late \in BOOLEAN,
         NEW hosts, hosts = [host EXCEPT ![m] = Told(@, p, late)]
  PROVE  /\ hosts \in [Modes -> HostTypes]
         /\ hosts[m].list = IF p.kind = "keys" /\ ~p.over THEN p.list ELSE host[m].list
         /\ hosts[m].map = IF p.kind = "bitmap" THEN p.map ELSE host[m].map
         /\ hosts[m].usage = IF p.kind = "consumer" THEN p.usage ELSE host[m].usage
         /\ hosts[m].stray = IF p.kind = "consumer" THEN late ELSE host[m].stray
         /\ hosts[m].torn =
              IF p.kind = "keys" /\ ~p.over
              THEN IF late THEN "torn" ELSE IF host[m].torn = "no" THEN "no" ELSE "mending"
              ELSE IF p.kind = "bitmap"
              THEN IF late THEN "torn" ELSE IF host[m].torn = "mending" THEN "no" ELSE host[m].torn
              ELSE host[m].torn
         /\ p.kind \notin {"keys", "bitmap", "consumer"} => hosts[m] = host[m]
<1> DEFINE h == host[m]
           n == Told(h, p, late)
<1>1. h \in HostTypes /\ p.list \in SUBSET Keys /\ p.map \in SUBSET Keys /\ p.usage \in UsageTypes
      /\ p.over \in BOOLEAN
  BY DEF PacketTypes
<1>2. /\ n \in HostTypes
      /\ n.list = IF p.kind = "keys" /\ ~p.over THEN p.list ELSE h.list
      /\ n.map = IF p.kind = "bitmap" THEN p.map ELSE h.map
      /\ n.usage = IF p.kind = "consumer" THEN p.usage ELSE h.usage
      /\ n.stray = IF p.kind = "consumer" THEN late ELSE h.stray
      /\ n.torn = IF p.kind = "keys" /\ ~p.over
                  THEN IF late THEN "torn" ELSE IF h.torn = "no" THEN "no" ELSE "mending"
                  ELSE IF p.kind = "bitmap"
                  THEN IF late THEN "torn" ELSE IF h.torn = "mending" THEN "no" ELSE h.torn
                  ELSE h.torn
      /\ p.kind \notin {"keys", "bitmap", "consumer"} => n = h
  <2> HIDE DEF h
  <2>1. CASE p.kind = "keys" /\ ~p.over
    <3>1. PICK torn \in {"no", "torn", "mending"} :
             torn = IF late THEN "torn" ELSE IF h.torn = "no" THEN "no" ELSE "mending"
      OBVIOUS
    <3>2. n = [h EXCEPT !.list = p.list, !.torn = torn]
      BY <1>1, <2>1, <3>1 DEF Told, HostTypes
    <3> HIDE DEF n
    <3> QED BY <1>1, <2>1, <3>1, <3>2 DEF HostTypes
  <2>2. CASE p.kind = "bitmap"
    <3>1. PICK torn \in {"no", "torn", "mending"} :
             torn = IF late THEN "torn" ELSE IF h.torn = "mending" THEN "no" ELSE h.torn
      BY <1>1 DEF HostTypes
    <3>2. n = [h EXCEPT !.map = p.map, !.torn = torn]
      BY <1>1, <2>2, <3>1 DEF Told, HostTypes
    <3> HIDE DEF n
    <3> QED BY <1>1, <2>2, <3>1, <3>2 DEF HostTypes
  <2>3. CASE p.kind = "consumer"
    BY <1>1, <2>3 DEF Told, HostTypes
  <2>4. CASE p.kind \notin {"keys", "bitmap", "consumer"} \/ (p.kind = "keys" /\ p.over)
    BY <1>1, <2>4 DEF Told
  <2> QED BY <1>1, <2>1, <2>2, <2>3, <2>4
<1>3. hosts = [host EXCEPT ![m] = n]
  OBVIOUS
<1> HIDE DEF n
<1>4. hosts \in [Modes -> HostTypes] /\ hosts[m] = n
  BY <1>2, <1>3
<1> QED BY <1>2, <1>4 DEF h

(* What the served host makes of each of the three packets meant for it.   *)
LEMMA ToldKeys ==
  ASSUME NEW s, NEW packet, NEW h, NEW n, s.flight = "keys", packet.kind = "keys",
         WireInv(s, "transfer", packet), ReportsInv(s), ServedInv(s, "transfer", h),
         HostInv(s, "transfer", h),
         n.list = IF ~packet.over THEN packet.list ELSE h.list,
         n.map = h.map, n.usage = h.usage, n.stray = h.stray,
         n.torn = IF ~packet.over
                  THEN IF ~s.linked THEN "torn" ELSE IF h.torn = "no" THEN "no" ELSE "mending"
                  ELSE h.torn
  PROVE  ServedInv(s, "done", n) /\ HostInv(s, "done", n)
<1>1. /\ s.pending /\ (s.linked => s.part = "keys")
      /\ s.linked => packet.list = s.staged.list /\ packet.over = s.staged.over
      /\ ~s.linked => AllReleased(s) /\ Holds(h) = {}
      /\ ~s.reports => AllReleased(s)
  BY DEF WireInv, ReportsInv, ServedInv, Reporting
<1>2. Holds(n) = n.list \cup n.map /\ Holds(h) = h.list \cup h.map
  BY DEF Holds
<1>3. ServedInv(s, "done", n)
  BY <1>1, <1>2, ReportFacts DEF ServedInv, ListSent, MapSent, UsageSent, AllReleased
<1>4. HostInv(s, "done", n)
  BY <1>1, <1>2, ReportFacts DEF HostInv, ListSent, MapSent, AllReleased
<1> QED BY <1>3, <1>4

LEMMA ToldMap ==
  ASSUME NEW s, NEW packet, NEW h, NEW n, s.flight = "bitmap", packet.kind = "bitmap",
         WireInv(s, "transfer", packet), ReportsInv(s), ServedInv(s, "transfer", h),
         HostInv(s, "transfer", h),
         n.list = h.list, n.map = packet.map, n.usage = h.usage, n.stray = h.stray,
         n.torn = IF ~s.linked THEN "torn" ELSE IF h.torn = "mending" THEN "no" ELSE h.torn
  PROVE  ServedInv(s, "done", n) /\ HostInv(s, "done", n)
<1>1. /\ s.pending /\ (s.linked => s.part = "bitmap" /\ packet.map = s.staged.map)
      /\ ~s.linked => AllReleased(s)
      /\ ~s.reports => AllReleased(s)
  BY DEF WireInv, ReportsInv, Reporting
<1>2. Holds(n) = n.list \cup n.map /\ Holds(h) = h.list \cup h.map
  BY DEF Holds
<1>3. ServedInv(s, "done", n)
  BY <1>1, <1>2, ReportFacts DEF ServedInv, HostInv, ListSent, MapSent, UsageSent, AllReleased
<1>4. HostInv(s, "done", n)
  BY <1>1, <1>2, ReportFacts DEF ServedInv, HostInv, ListSent, MapSent, AllReleased
<1> QED BY <1>3, <1>4

LEMMA ToldUsage ==
  ASSUME NEW s, NEW packet, NEW h, NEW n, s.flight = "consumer", packet.kind = "consumer",
         WireInv(s, "transfer", packet), ServedInv(s, "transfer", h), HostInv(s, "transfer", h),
         n.list = h.list, n.map = h.map, n.usage = packet.usage, n.stray = ~s.linked, n.torn = h.torn
  PROVE  ServedInv(s, "done", n) /\ HostInv(s, "done", n)
<1>1. s.linked => packet.usage = s.usageStaged
  BY DEF WireInv
<1>2. ServedInv(s, "done", n)
  BY <1>1 DEF ServedInv, Holds, ListSent, MapSent, UsageSent
<1>3. HostInv(s, "done", n)
  BY DEF HostInv, ListSent, MapSent
<1> QED BY <1>2, <1>3

LEMMA WireDoneKeeps == ASSUME WirelessInv, WireDone PROVE WirelessInv'
<1>1. /\ w \in SessionTypes /\ WireInv(w, spi, tx) /\ SessionInv(w) /\ PeerInv(w, spi, peer, host)
      /\ HostInv(w, spi, host[peer.mode])
      /\ tx \in PacketTypes /\ peer \in PeerTypes /\ host \in [Modes -> HostTypes]
  BY OwnerParts
<1>2. spi = "transfer" /\ spi' = "done" /\ w' = w /\ tx' = tx /\ peer' = Steered(tx)
  BY DEF WireDone
<1>3. /\ w.flight # "none" /\ tx.kind = w.flight /\ Alive(w) /\ peer.mode \in Modes
      /\ w.target \in Modes /\ w.sleep \in Commands
      /\ peer.link \in {"search", "reports", "pairing"} /\ GivenUp \in BOOLEAN
  BY <1>1, <1>2 DEF WireInv, PeerTypes, SessionTypes, GivenUp
<1>4. WireInv(w, "done", tx)
  BY <1>1, <1>2 DEF WireInv
<1>5. ASSUME NEW pr, NEW hosts, pr = peer', hosts = host', pr \in PeerTypes,
             hosts \in [Modes -> HostTypes], PeerInv(w, "done", pr, hosts),
             HostInv(w, "done", hosts[pr.mode])
      PROVE  WirelessInv'
  <2>1. TypesOK(w, "done", tx, pr, hosts)
    BY <1>1, <1>5 DEF TypesOK, HalStates
  <2> QED BY <1>1, <1>2, <1>4, <1>5, <2>1 DEF WirelessInv, InvOf
<1>6. CASE tx.kind = "pair"
  <2>1. peer' = [peer EXCEPT !.link = "pairing"] /\ host' = [host EXCEPT ![peer.mode] = Quiet]
    BY <1>2, <1>6 DEF WireDone, Steered
  <2>2. /\ peer' \in PeerTypes /\ peer'.mode = peer.mode /\ peer'.link = "pairing"
        /\ peer'.asleep = peer.asleep
    BY <1>1, <2>1 DEF PeerTypes
  <2>3. host' \in [Modes -> HostTypes] /\ host'[peer'.mode] = Quiet
    BY <1>1, <1>3, <2>1, <2>2, QuietHosts
  <2>4. PeerInv(w, "done", peer', host')
    BY <1>1, <1>3, <2>2, <2>3, QuietHost DEF PeerInv
  <2> QED BY <1>5, <2>2, <2>3, <2>4, QuietHost
<1>7. CASE tx.kind = "mode" /\ tx.arg # peer.mode
  <2>1. tx.arg = w.target /\ ~w.linked /\ ~Spoken(w) /\ w.flight = "mode"
    BY <1>1, <1>3, <1>7 DEF WireInv, SessionInv
  <2>2. peer' = [peer EXCEPT !.mode = w.target, !.link = "search"]
    BY <1>2, <1>7, <2>1 DEF Steered
  <2>3. /\ peer' \in PeerTypes /\ peer'.mode = w.target /\ peer'.link = "search"
        /\ peer'.asleep = peer.asleep
    BY <1>1, <1>3, <2>2 DEF PeerTypes
  <2>4. host' \in [Modes -> HostTypes]
    BY <1>1, <1>3, <1>7, ToldFields DEF WireDone
  <2>5. PeerInv(w, "done", peer', host')
    BY <1>1, <1>3, <2>1, <2>3 DEF PeerInv
  <2>6. HostInv(w, "done", host'[peer'.mode])
    BY <2>1 DEF HostInv, ListSent, MapSent, Spoken
  <2> QED BY <1>5, <2>3, <2>4, <2>5, <2>6
<1>8. CASE tx.kind # "pair" /\ ~(tx.kind = "mode" /\ tx.arg # peer.mode)
  <2>1. /\ peer' \in PeerTypes /\ peer'.mode = peer.mode /\ peer'.link = peer.link
        /\ IF tx.kind = "sleep" THEN peer'.asleep = w.sleep ELSE peer'.asleep = peer.asleep
    <3>1. CASE tx.kind = "sleep"
      <4>1. peer' = [peer EXCEPT !.asleep = w.sleep]
        BY <1>1, <1>2, <1>3, <3>1 DEF Steered, WireInv
      <4> QED BY <1>1, <1>3, <3>1, <4>1 DEF PeerTypes
    <3>2. CASE tx.kind # "sleep"
      BY <1>1, <1>2, <1>8, <3>2 DEF Steered
    <3> QED BY <3>1, <3>2
  <2>2. /\ WireInv(w, "transfer", tx) /\ ReportsInv(w) /\ UsageInv(w)
        /\ w.flight \in {"keys", "bitmap", "consumer"} => Spoken(w)
    BY <1>1, <1>2 DEF SessionInv, Spoken
  <2>3. CASE peer.link # "reports"
    <3>1. host' = host
      BY <1>8, <2>3 DEF WireDone
    <3>2. PeerInv(w, "done", peer', host')
      BY <1>1, <1>3, <2>1, <2>3, <3>1 DEF PeerInv
    <3>3. HostInv(w, "done", host[peer.mode])
      <4>1. CASE w.flight \in {"keys", "bitmap", "consumer"}
        BY <1>1, <2>2, <2>3, <4>1, SilentHost DEF PeerInv, Mute
      <4>2. CASE w.flight \notin {"keys", "bitmap", "consumer"}
        BY <1>1, <1>2, <4>2 DEF HostInv, ListSent, MapSent
      <4> QED BY <4>1, <4>2
    <3> QED BY <1>1, <1>5, <2>1, <3>1, <3>2, <3>3
  <2>4. CASE peer.link = "reports"
    <3> DEFINE h == host[peer.mode]
               n == host'[peer.mode]
    <3>1. /\ ServedInv(w, "transfer", h) /\ HostInv(w, "transfer", h)
      BY <1>1, <1>2, <1>3, <2>4 DEF PeerInv
    <3>2. /\ host' \in [Modes -> HostTypes]
          /\ n.list = IF tx.kind = "keys" /\ ~tx.over THEN tx.list ELSE h.list
          /\ n.map = IF tx.kind = "bitmap" THEN tx.map ELSE h.map
          /\ n.usage = IF tx.kind = "consumer" THEN tx.usage ELSE h.usage
          /\ n.stray = IF tx.kind = "consumer" THEN GivenUp ELSE h.stray
          /\ n.torn =
               IF tx.kind = "keys" /\ ~tx.over
               THEN IF GivenUp THEN "torn" ELSE IF h.torn = "no" THEN "no" ELSE "mending"
               ELSE IF tx.kind = "bitmap"
               THEN IF GivenUp THEN "torn" ELSE IF h.torn = "mending" THEN "no" ELSE h.torn
               ELSE h.torn
          /\ tx.kind \notin {"keys", "bitmap", "consumer"} => n = h
      <4>1. host' = [host EXCEPT ![peer.mode] = Told(@, tx, GivenUp)]
        BY <1>8, <2>4 DEF WireDone
      <4>2. PICK late \in BOOLEAN : late = GivenUp
        BY <1>3
      <4> HIDE DEF h, n
      <4> QED BY <1>1, <1>3, <4>1, <4>2, ToldFields DEF h, n
    <3> HIDE DEF h, n
    <3>3. ServedInv(w, "done", n) /\ HostInv(w, "done", n)
      <4>1. CASE w.flight = "keys"
        BY <1>3, <2>2, <3>1, <3>2, <4>1, ToldKeys DEF GivenUp
      <4>2. CASE w.flight = "bitmap"
        BY <1>3, <2>2, <3>1, <3>2, <4>2, ToldMap DEF GivenUp
      <4>3. CASE w.flight = "consumer"
        BY <1>3, <2>2, <3>1, <3>2, <4>3, ToldUsage DEF GivenUp
      <4>4. CASE w.flight \notin {"keys", "bitmap", "consumer"}
        BY <1>3, <3>1, <3>2, <4>4 DEF ServedInv, HostInv, ListSent, MapSent, UsageSent
      <4> QED BY <4>1, <4>2, <4>3, <4>4
    <3>4. PeerInv(w, "done", peer', host')
      BY <1>1, <1>3, <2>1, <2>4, <3>3 DEF PeerInv, n
    <3> QED BY <1>5, <2>1, <3>2, <3>3, <3>4 DEF n
  <2> QED BY <2>3, <2>4
<1> QED BY <1>6, <1>7, <1>8

-----------------------------------------------------------------------------
(* m1_wireless_service: complete, age, send.                               *)
LEMMA SettledKeeps ==
  ASSUME WirelessInv, Healthy, NEW reply \in Answers, NEW s, s = Settled(reply)
  PROVE  /\ spi = "done" => \/ InvOf(s, "ready", Idle, peer, host) /\ Alive(s)
                            \/ s.faulted /\ InvOf(s, "off", Idle, peer, host)
         /\ spi # "done" => s = w /\ Alive(s) /\ ~s.faulted
<1>1. Alive(w) /\ ~w.faulted
  BY DEF Healthy, Alive
<1>2. CASE spi # "done"
  BY <1>1, <1>2 DEF Settled
<1>3. CASE spi = "done"
  <2>1. WireInv(w, "done", tx) /\ InvOf(w, "done", tx, peer, host) /\ peer \in PeerTypes
    BY <1>3, OwnerParts
  <2>2. s = Completed(w, reply)
    BY <1>3, <2>1 DEF Settled, WireInv, NoPacket
  <2>3. w.flight = "poll" => ReplyOf(reply, peer)
    BY <1>3, <2>1 DEF Answers, Replies, ReplyOf, PeerTypes, States
  <2> QED BY <1>1, <1>3, <2>1, <2>2, <2>3, CompletedKeeps
<1> QED BY <1>2, <1>3

LEMMA TimedKeeps ==
  ASSUME NEW s, NEW radio, NEW packet, InvOf(s, radio, packet, peer, host), Alive(s), NEW t \in Timed(s)
  PROVE  InvOf(t, radio, packet, peer, host) /\ Alive(t)
<1>1. CASE t = s
  BY <1>1
<1>2. CASE t = Aged(s) /\ SilentPeer
  BY <1>2, AgedKeeps DEF SilentPeer
<1> QED BY <1>1, <1>2 DEF Timed

LEMMA FailsKeeps == ASSUME WirelessInv, ServiceFails PROVE WirelessInv'
<1>1. InvOf(w, spi, tx, peer, host) /\ w' \in {Failed(w), Stopped(w)}
  BY OwnerParts DEF ServiceFails
<1>2. InvOf(w', "off", Idle, peer, host)
  BY <1>1, EndedKeeps
<1> QED BY <1>2 DEF WirelessInv, ServiceFails

LEMMA RefusesKeeps == ASSUME WirelessInv, ServiceRefuses PROVE WirelessInv'
<1>1. Healthy /\ spi' = "off" /\ tx' = Idle /\ peer' = peer /\ host' = host
  BY DEF ServiceRefuses
<1>2. PICK reply \in Answers :
         LET s == Settled(reply)
         IN  \/ s.faulted /\ w' = s
             \/ ~s.faulted /\ Regular(s) /\ ~s.confirmed /\ w' = Failed(s)
  BY DEF ServiceRefuses
<1> DEFINE s == Settled(reply)
<1>3. /\ spi = "done" => \/ InvOf(s, "ready", Idle, peer, host) /\ Alive(s)
                         \/ s.faulted /\ InvOf(s, "off", Idle, peer, host)
      /\ spi # "done" => s = w /\ Alive(s) /\ ~s.faulted
  BY <1>1, SettledKeeps
<1>4. \/ s.faulted /\ w' = s
      \/ ~s.faulted /\ w' = Failed(s)
  BY <1>2
<1>5. InvOf(w, spi, tx, peer, host)
  BY OwnerParts
<1> HIDE DEF s
<1>6. CASE s.faulted /\ w' = s
  BY <1>1, <1>3, <1>6 DEF WirelessInv, Alive
<1>7. CASE ~s.faulted /\ w' = Failed(s)
  <2>1. PICK radio, packet : InvOf(s, radio, packet, peer, host)
    BY <1>3, <1>5, <1>7
  <2>2. w' \in {Failed(s), Stopped(s)}
    BY <1>7
  <2>3. InvOf(w', "off", Idle, peer, host)
    BY <2>1, <2>2, EndedKeeps
  <2> QED BY <1>1, <2>3 DEF WirelessInv
<1> QED BY <1>4, <1>6, <1>7

(* What a service starts from: the session with its packet completed and   *)
(* its deadlines judged, over a HAL that has been served too.              *)
LEMMA ServedSession ==
  ASSUME WirelessInv, Healthy, NEW reply \in Answers, ~Settled(reply).faulted,
         NEW s \in Timed(Settled(reply))
  PROVE  /\ Alive(s)
         /\ spi = "done" => InvOf(s, "ready", Idle, peer, host)
         /\ spi # "done" => InvOf(s, spi, tx, peer, host)
<1> DEFINE d == Settled(reply)
<1>1. /\ spi = "done" => \/ InvOf(d, "ready", Idle, peer, host) /\ Alive(d)
                         \/ d.faulted /\ InvOf(d, "off", Idle, peer, host)
      /\ spi # "done" => d = w /\ Alive(d) /\ ~d.faulted
  BY SettledKeeps
<1>2. InvOf(w, spi, tx, peer, host) /\ ~d.faulted /\ s \in Timed(d)
  BY OwnerParts
<1> HIDE DEF d
<1>3. CASE spi = "done"
  BY <1>1, <1>2, <1>3, TimedKeeps
<1>4. CASE spi # "done"
  BY <1>1, <1>2, <1>4, TimedKeeps
<1> QED BY <1>3, <1>4

LEMMA WaitsKeeps == ASSUME WirelessInv, ServiceWaits PROVE WirelessInv'
<1>1. /\ Healthy /\ spi' \in {spi, Pin} /\ (spi' = spi => spi # "done") /\ peer' = peer /\ host' = host
      /\ tx' = IF spi = "done" THEN Idle ELSE tx
  BY DEF ServiceWaits
<1>2. PICK reply \in Answers : ~Settled(reply).faulted /\ w' \in Timed(Settled(reply))
  BY DEF ServiceWaits
<1>3. /\ spi = "done" => InvOf(w', "ready", Idle, peer, host)
      /\ spi # "done" => InvOf(w', spi, tx, peer, host)
  BY <1>1, <1>2, ServedSession
<1>4. CASE spi = "done"
  <2>1. spi' = "ready" /\ tx' = Idle
    BY <1>1, <1>4 DEF Pin
  <2> QED BY <1>1, <1>3, <1>4, <2>1 DEF WirelessInv
<1>5. CASE spi = "pulse"
  <2>1. spi' \in {"pulse", "ready"} /\ tx' = tx /\ InvOf(w', spi, tx, peer, host)
    BY <1>1, <1>3, <1>5 DEF Pin
  <2>2. InvOf(w', spi', tx, peer, host)
    BY <1>5, <2>1, IdleHalKeeps
  <2> QED BY <1>1, <2>1, <2>2 DEF WirelessInv
<1>6. CASE spi \notin {"done", "pulse"}
  <2>1. spi' = spi /\ tx' = tx
    BY <1>1, <1>6 DEF Pin
  <2> QED BY <1>1, <1>3, <1>6, <2>1 DEF WirelessInv
<1> QED BY <1>4, <1>5, <1>6

LEMMA SentPacket ==
  ASSUME WirelessInv, ServiceSends
  PROVE  \E reply \in Answers : \E s \in Timed(Settled(reply)) : \E packet, k :
            /\ InvOf(s, "ready", packet, peer, host) /\ Alive(s) /\ k \in Sendable(s)
            /\ w' = Flying(s, k) /\ tx' = Packet(s, k)
<1>1. /\ Healthy /\ Pin = "ready" /\ spi' = "transfer" /\ peer' = peer /\ host' = host
  BY DEF ServiceSends
<1>2. PICK reply \in Answers : \E s \in Timed(Settled(reply)) :
          /\ ~s.faulted /\ s.flight = NoPacket
          /\ \E k \in Sendable(s) : w' = Flying(s, k) /\ tx' = Packet(s, k)
  BY DEF ServiceSends
<1>3. PICK s \in Timed(Settled(reply)) :
          /\ ~s.faulted /\ s.flight = NoPacket
          /\ \E k \in Sendable(s) : w' = Flying(s, k) /\ tx' = Packet(s, k)
  BY <1>2
<1>4. PICK k \in Sendable(s) : w' = Flying(s, k) /\ tx' = Packet(s, k)
  BY <1>3
<1>5. ~Settled(reply).faulted
  <2> DEFINE d == Settled(reply)
  <2>1. InvOf(w, spi, tx, peer, host)
    BY OwnerParts
  <2>2. d \in SessionTypes
    BY <1>1, <2>1, SettledKeeps DEF InvOf, TypesOK
  <2>3. s \in {d, Aged(d)} /\ ~s.faulted
    BY <1>3 DEF Timed
  <2> HIDE DEF d
  <2>4. Aged(d).faulted = d.faulted
    BY <2>2, AgedFaulted
  <2> QED BY <2>3, <2>4 DEF d
<1>6. /\ Alive(s)
      /\ spi = "done" => InvOf(s, "ready", Idle, peer, host)
      /\ spi # "done" => InvOf(s, spi, tx, peer, host)
  BY <1>1, <1>5, ServedSession
<1>7. PICK packet : InvOf(s, "ready", packet, peer, host)
  <2>1. CASE spi = "pulse"
    BY <1>6, <2>1, IdleHalKeeps
  <2>2. CASE spi # "pulse"
    BY <1>1, <1>6, <2>2 DEF Pin
  <2> QED BY <2>1, <2>2
<1> QED BY <1>4, <1>6, <1>7

LEMMA SendsKeeps == ASSUME WirelessInv, ServiceSends PROVE WirelessInv'
<1>1. PICK s, packet, k :
            /\ InvOf(s, "ready", packet, peer, host) /\ Alive(s) /\ k \in Sendable(s)
            /\ w' = Flying(s, k) /\ tx' = Packet(s, k)
  BY SentPacket
<1>2. InvOf(w', "transfer", Packet(s, k), peer, host)
  BY <1>1, FlyingKeeps
<1> QED BY <1>1, <1>2 DEF WirelessInv, ServiceSends

-----------------------------------------------------------------------------
(* The invariant of the specification.                                     *)
LEMMA InitEstablishesInv == ASSUME WirelessInitial PROVE WirelessInv
<1> DEFINE u == Session("usb")
<1>1. /\ u \in SessionTypes /\ ~u.linked /\ ~u.confirmed /\ ~u.reports /\ u.flight = "none"
      /\ u.sleep = "none" /\ u.before = "none" /\ u.pair = "none" /\ u.part = "keys"
      /\ u.committed = Released /\ u.staged = Released
      /\ u.usage = NoUsage /\ u.usageStaged = NoUsage /\ ~u.usagePending
  BY SessionFields, WirelessConstants DEF Session, NoPacket
<1>2. w = [u EXCEPT !.active = FALSE, !.pending = FALSE]
  BY DEF WirelessInitial
<1> HIDE DEF u
<1>3. u \in SessionTypes
  BY <1>1
<1>4. w \in SessionTypes
  BY <1>2, <1>3, ZenonT(30) DEF SessionTypes
<1>5. /\ ~Alive(w) /\ ~w.linked /\ ~w.confirmed /\ ~w.pending /\ ~w.reports /\ w.flight = "none"
      /\ w.sleep = "none" /\ w.before = "none" /\ w.pair = "none" /\ w.part = "keys"
      /\ w.committed = Released /\ w.staged = Released
      /\ w.usage = NoUsage /\ w.usageStaged = NoUsage /\ ~w.usagePending
  BY <1>1, <1>2 DEF SessionTypes, Alive
<1>6. spi = "off" /\ tx = Idle
  BY DEF WirelessInitial
<1>7. peer \in PeerTypes /\ host \in [Modes -> HostTypes]
  BY QuietHost DEF WirelessInitial, PeerTypes, Commands
<1>8. TypesOK(w, spi, tx, peer, host) /\ tx.kind = "none"
  BY <1>4, <1>6, <1>7, IdlePacket DEF TypesOK, HalStates
<1>9. WireInv(w, spi, tx)
  BY <1>5, <1>6, <1>8 DEF WireInv, Reporting
<1>10. SessionInv(w)
  BY <1>5, ReportFacts DEF SessionInv, ReportsInv, UsageInv, Spoken, Reporting, AllReleased, ToldReports
<1>11. PeerInv(w, spi, peer, host) /\ HostInv(w, spi, host[peer.mode])
  <2>1. peer.link = "search"
    BY DEF WirelessInitial
  <2> QED BY <1>5, <1>6, <2>1 DEF PeerInv, HostInv, ListSent, MapSent, Spoken
<1> QED BY <1>8, <1>9, <1>10, <1>11 DEF WirelessInv, InvOf

LEMMA NextKeepsInv == ASSUME WirelessInv, WirelessNext PROVE WirelessInv'
<1>1. CASE WirelessService
  BY <1>1, FailsKeeps, RefusesKeeps, WaitsKeeps, SendsKeeps, ExchangeFaultsKeeps DEF WirelessService
<1>2. CASE PeerStep
  BY <1>2, WireDoneKeeps, LinkUpKeeps, LinkDownKeeps DEF PeerStep
<1>3. CASE RadioInit \/ PulseEnds \/ Stop \/ ResumeRetained \/ RequestPair \/ CancelSleep
  BY <1>3, PulseKeeps, PulseEndsKeeps, StopKeeps, ResumeKeeps, PairKeeps, CancelKeeps
<1>4. CASE \E m \in Modes : WirelessInit(m) \/ Select(m)
  BY <1>4, InitKeeps, SelectKeeps
<1>5. CASE \E report \in SUBSET Keys : Offer(report)
  BY <1>5, OfferKeeps
<1>6. CASE \E u \in Usages \cup {NoUsage} : Consumer(u)
  BY <1>6, ConsumerKeeps DEF UsageTypes
<1>7. CASE \E valid \in BOOLEAN : Battery(valid)
  BY <1>7, BatteryKeeps
<1>8. CASE \E command \in {"sleep", "retain"} : RequestSleep(command)
  BY <1>8, SleepKeeps
<1> QED BY <1>1, <1>2, <1>3, <1>4, <1>5, <1>6, <1>7, <1>8 DEF WirelessNext, Calls

(* Whatever the order of services, packets, calls and the peer's moves, the *)
(* scheduler's session agrees with what is on the wire, with the peer and  *)
(* with the host's keys (m1_wireless.c, m1_radio_hal.c).                   *)
THEOREM WirelessInvariant == WirelessSpec => []WirelessInv
<1>1. WirelessInv /\ [WirelessNext]_wirelessVars => WirelessInv'
  <2>1. ASSUME WirelessInv, UNCHANGED wirelessVars PROVE WirelessInv'
    BY <2>1 DEF WirelessInv, wirelessVars
  <2> QED BY <2>1, NextKeepsInv
<1> QED BY InitEstablishesInv, <1>1, PTL DEF WirelessSpec

-----------------------------------------------------------------------------
(* The host of the served slot holds only keys of the last report and of   *)
(* the one being sent, for every set of usages and every length of the     *)
(* list: m1_radio_keyboard.c's moves between list and bitmap lose no key.  *)
THEOREM HostCorrect == WirelessSpec => []HostIsKnownUnlessTorn
<1>1. ASSUME WirelessInv PROVE HostIsKnownUnlessTorn
  <2> SUFFICES ASSUME host[peer.mode].torn = "no", w.reports, ~w.committed.over
               PROVE  Held(peer.mode) \subseteq Carried(w.committed) \cup Carried(w.staged)
    BY DEF HostIsKnownUnlessTorn, HostIsKnown
  <2>1. HostInv(w, spi, host[peer.mode])
    BY <1>1, OwnerParts
  <2>2. host[peer.mode].list \subseteq w.committed.list \cup w.staged.list
    BY <2>1 DEF HostInv
  <2>3. host[peer.mode].map \subseteq w.committed.map \cup w.staged.map
    BY <2>1 DEF HostInv
  <2> QED BY <2>2, <2>3 DEF Held, Carried
<1> QED BY <1>1, WirelessInvariant, PTL

(* A peer that sleeps with a link serves a host without keys: sleep is     *)
(* asked for, sent and resumed only around released reports.               *)
THEOREM SleepCorrect == WirelessSpec => []AsleepMeansReleased
<1>1. ASSUME WirelessInv PROVE AsleepMeansReleased
  <2> SUFFICES ASSUME host[peer.mode].torn = "no", Healthy, peer.asleep # "none", peer.link = "reports"
               PROVE  Held(peer.mode) = {}
    BY DEF AsleepMeansReleased
  <2>1. /\ Alive(w) /\ InvOf(w, spi, tx, peer, host) /\ SessionInv(w) /\ WireInv(w, spi, tx)
        /\ PeerInv(w, spi, peer, host)
    BY <1>1, OwnerParts DEF Healthy, Alive
  <2>2. AllReleased(w) /\ ~MapSent(w, spi)
    BY <2>1 DEF PeerInv, SessionInv, ReportsInv, WireInv, MapSent
  <2>3. Holds(host[peer.mode]) = {}
    BY <2>1, <2>2, ReleasedHost
  <2> QED BY <2>3 DEF Held, Holds
<1> QED BY <1>1, WirelessInvariant, PTL

(* Nothing but a sleep command is handed to the bus while the peer sleeps: *)
(* the sleep request silences polls, queries and reports, also those a     *)
(* completed packet or an expired deadline makes due in the same service.  *)
THEOREM SilenceCorrect == WirelessSpec => SleepingPeerIsLeftAlone
<1>1. ASSUME WirelessInv, WirelessNext, spi' = "transfer", spi # "transfer", peer.asleep # "none"
      PROVE  tx'.kind = "sleep"
  <2>1. ServiceSends
    <3>1. CASE WirelessService
      BY <1>1, <3>1 DEF WirelessService, ServiceFails, ServiceRefuses, ServiceWaits, Pin, ExchangeFaults
    <3>2. CASE PeerStep
      BY <1>1, <3>2 DEF PeerStep, WireDone, LinkUp, LinkDown
    <3>3. CASE RadioInit \/ PulseEnds \/ Stop \/ ResumeRetained \/ RequestPair \/ CancelSleep
      BY <1>1, <3>3 DEF RadioInit, PulseEnds, Stop, ResumeRetained, RequestPair, CancelSleep
    <3>4. CASE \E m \in Modes : WirelessInit(m) \/ Select(m)
      BY <1>1, <3>4 DEF WirelessInit, Select
    <3>5. CASE \E report \in SUBSET Keys : Offer(report)
      BY <1>1, <3>5 DEF Offer
    <3>6. CASE \E v \in Usages \cup {NoUsage} : Consumer(v)
      BY <1>1, <3>6 DEF Consumer
    <3>7. CASE \E valid \in BOOLEAN : Battery(valid)
      <4>1. spi' = spi
        BY <3>7 DEF Battery
      <4> QED BY <1>1, <4>1
    <3>8. CASE \E command \in {"sleep", "retain"} : RequestSleep(command)
      BY <1>1, <3>8 DEF RequestSleep
    <3> QED BY <1>1, <3>1, <3>2, <3>3, <3>4, <3>5, <3>6, <3>7, <3>8 DEF WirelessNext, Calls
  <2>2. PICK s, packet : \E k \in Sendable(s) :
           InvOf(s, "ready", packet, peer, host) /\ Alive(s) /\ tx' = Packet(s, k)
    BY <1>1, <2>1, SentPacket
  <2>3. PICK k \in Sendable(s) : tx' = Packet(s, k)
    BY <2>2
  <2>4. s \in SessionTypes /\ SessionInv(s) /\ PeerInv(s, "ready", peer, host)
    BY <2>2 DEF InvOf, TypesOK
  <2>5. s.part \in {"keys", "bitmap"} /\ s.sleep # "none"
    BY <1>1, <2>2, <2>4 DEF SessionTypes, PeerInv
  <2>6. k = "sleep"
    BY <2>4, <2>5, SentInTurn
  <2> QED BY <2>3, <2>4, <2>6, PacketFields DEF Kinds
<1>2. WirelessInv /\ [WirelessNext]_wirelessVars
        => [spi' = "transfer" /\ spi # "transfer" /\ peer.asleep # "none" => tx'.kind = "sleep"]_wirelessVars
  BY <1>1
<1> QED BY <1>2, WirelessInvariant, PTL DEF WirelessSpec, SleepingPeerIsLeftAlone

(* A key of both reports stays down at the host between their halves: the  *)
(* list arrives before the bitmap, and m1_radio_keyboard_update keeps a    *)
(* held key where it was (m1_radio_keyboard.c:15).                         *)
StaysDown ==
    WireDone /\ tx.kind \in {"keys", "bitmap"} /\ ~w.staged.over =>
        \A k \in Carried(w.committed) \cap Carried(w.staged) :
            k \in Held(peer.mode) => k \in (host'[peer.mode].list \cup host'[peer.mode].map)
THEOREM HeldKeysCorrect == WirelessSpec => HeldKeysStay
<1>1. ASSUME WirelessInv, WirelessNext PROVE StaysDown
  <2> SUFFICES ASSUME WireDone, tx.kind \in {"keys", "bitmap"}, ~w.staged.over,
                      NEW k \in Carried(w.committed) \cap Carried(w.staged), k \in Held(peer.mode)
               PROVE  k \in (host'[peer.mode].list \cup host'[peer.mode].map)
    BY DEF StaysDown
  <2>1. /\ WireInv(w, spi, tx) /\ SessionInv(w) /\ PeerInv(w, spi, peer, host)
        /\ HostInv(w, spi, host[peer.mode]) /\ tx \in PacketTypes /\ peer \in PeerTypes
        /\ host \in [Modes -> HostTypes] /\ spi = "transfer" /\ tx.kind = w.flight
    BY <1>1, OwnerParts DEF WireDone, WireInv
  <2>2. /\ w.linked /\ w.reports /\ w.committed # Released /\ Follows(w.committed, w.staged)
        /\ w.pending /\ w.part = w.flight /\ peer.mode \in Modes
    BY <2>1, ReportFacts DEF SessionInv, ReportsInv, AllReleased, Reporting, PeerTypes
  <2>3. /\ w.flight = "keys" => tx.list = w.staged.list
        /\ w.flight = "bitmap" => tx.map = w.staged.map
    BY <2>1, <2>2 DEF WireInv, Reporting
  <2>4. CASE peer.link # "reports"
    BY <2>1, <2>4 DEF WireDone, Held
  <2>5. CASE peer.link = "reports"
    <3>1. /\ host'[peer.mode].list = IF tx.kind = "keys" /\ ~tx.over THEN tx.list ELSE host[peer.mode].list
          /\ host'[peer.mode].map = IF tx.kind = "bitmap" THEN tx.map ELSE host[peer.mode].map
      <4>1. host' = [host EXCEPT ![peer.mode] = Told(@, tx, GivenUp)]
        BY <2>1, <2>5 DEF WireDone
      <4>2. PICK late \in BOOLEAN : late = GivenUp
        BY <2>2 DEF GivenUp
      <4> QED BY <2>1, <2>2, <4>1, <4>2, ToldFields
    <3>2. CASE w.flight = "keys"
      BY <2>1, <2>2, <2>3, <3>1, <3>2 DEF HostInv, ListSent, MapSent, Follows, Carried, Held
    <3>3. CASE w.flight = "bitmap"
      BY <2>1, <2>2, <2>3, <3>1, <3>3 DEF HostInv, ListSent, MapSent, Follows, Carried, Held
    <3> QED BY <2>1, <3>2, <3>3
  <2> QED BY <2>4, <2>5
<1>2. WirelessInv /\ [WirelessNext]_wirelessVars => [StaysDown]_wirelessVars
  BY <1>1
<1> QED BY <1>2, WirelessInvariant, PTL DEF WirelessSpec, HeldKeysStay, StaysDown
=============================================================================
