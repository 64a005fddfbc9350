---------------------------- MODULE M1LinkProofs ----------------------------
(***************************************************************************)
(* Proofs about the M1's output path for every set of transports, keys and *)
(* usages, every number of list slots and every glitch of the peer, over   *)
(* the invariant of the radio's scheduler.  The only assumption is         *)
(* WirelessConstants.                                                      *)
(***************************************************************************)
EXTENDS M1Link, M1WirelessProofs

-----------------------------------------------------------------------------
(* Types.                                                                  *)
UsbTypes ==
    [state : {"off", "on"}, stale : BOOLEAN, busy : BOOLEAN, hid : SUBSET Keys,
     cbusy : BOOLEAN, cons : UsageTypes]
ControlTypes ==
    [current : Modes, target : Modes \cup {"none"}, phase : {"idle", "choosing", "switching"},
     pairing : BOOLEAN, neutral : BOOLEAN]
TransportTypes ==
    [starting : BOOLEAN, selecting : BOOLEAN, pairing : BOOLEAN, requested : Modes \cup {"none"}]
ApplicationTypes == [armed : BOOLEAN, down : SUBSET Keys, sent : SUBSET Keys, sentValid : BOOLEAN]
AuxTypes == [release : BOOLEAN, usage : UsageTypes, pending : UsageTypes, allowed : BOOLEAN]
OwnerTypes ==
    [enabled : BOOLEAN, attempted : BOOLEAN, fault : BOOLEAN, ready : BOOLEAN, fresh : BOOLEAN]
LinkTypeOK ==
    /\ pc \in {"input", "output", "controls"}
    /\ u \in UsbTypes /\ c \in ControlTypes /\ t \in TransportTypes
    /\ a \in ApplicationTypes /\ x \in AuxTypes /\ l \in OwnerTypes

(* A physical selection has been tried and is not over, or was given up,   *)
(* which is a fault for good: then nothing holds anything.                 *)
Parted == l.attempted \/ l.fault
SwitchInv ==
    /\ l.fault => ~l.enabled
    /\ l.attempted /\ ~l.fault => c.phase = "switching"
    /\ c.phase # "idle" => c.target \in Modes /\ ~a.armed
    /\ RadioFollowsControls

(* The session has nothing down and nothing to press; one that has told    *)
(* its host no report yet has told it no usage either.                     *)
Unsaid(s) ==
    /\ AllReleased(s) /\ s.usage = NoUsage
    /\ s.usagePending \/ s.flight = "consumer" => s.usageStaged = NoUsage
Mild(s) ==
    ~s.reports => s.usage = NoUsage /\ (s.flight = "consumer" => s.usageStaged = NoUsage)

(* Whom the keyboard does not serve now: another host, any host while it   *)
(* switches, and a radio's that the session has not spoken to.             *)
Left(h) == h # c.current \/ Parted \/ (c.current # "usb" /\ Alive(w) /\ ~Spoken(w))
SilenceInv ==
    /\ Parted \/ c.current = "usb" => Unsaid(w)
    /\ Mild(w)
    /\ Parted \/ c.current # "usb" => u.hid = {} /\ u.cons = NoUsage
    /\ Parted => x.usage = NoUsage /\ (a.sentValid => a.sent = {})
    /\ \A h \in Modes : Left(h) => Silenced(host[h])

(* The USB host holds what the application counts as sent, as far as the   *)
(* endpoint has delivered it.                                              *)
EndpointInv ==
    /\ host["usb"].map = {} /\ host["usb"].torn = "no" /\ ~host["usb"].stray
    /\ ~u.busy => u.hid = {}
    /\ ~u.cbusy => u.cons = NoUsage
UsbSentInv ==
    c.current = "usb" /\ UsbReady =>
        /\ a.sentValid => IF u.busy THEN u.hid = a.sent ELSE host["usb"].list \subseteq a.sent
        /\ ~x.release => IF u.cbusy THEN u.cons = x.usage ELSE host["usb"].usage \in {NoUsage, x.usage}
UsbInv == EndpointInv /\ UsbSentInv

LinkInv == WirelessInv /\ LinkTypeOK /\ SwitchInv /\ SilenceInv /\ UsbInv

-----------------------------------------------------------------------------
(* What one service of the radio makes of the session: it serves the same  *)
(* target and does not begin to say anything.                              *)
Leads(s, s1) ==
    s1.target = s.target /\ (Unsaid(s) => Unsaid(s1)) /\ (Mild(s) => Mild(s1))

LEMMA LeadsOn ==
  ASSUME NEW s, NEW s1, NEW s2, Leads(s, s1), Leads(s1, s2) PROVE Leads(s, s2)
  BY DEF Leads

LEMMA SameLeads ==
  ASSUME NEW s, NEW s1, SameCourse(s, s1), SameReport(s, s1), s1.flight \in {s.flight, "none"}
  PROVE  Leads(s, s1)
  BY DEF SameCourse, SameReport, Leads, Unsaid, Mild, AllReleased

LEMMA RestartLeads ==
  ASSUME NEW s, NEW s1, s1.target = s.target, s1.committed = Released, s1.staged = Released,
         s1.usage = NoUsage, s1.usageStaged = NoUsage
  PROVE  Leads(s, s1) /\ Unsaid(s1) /\ Mild(s1)
  BY DEF Leads, Unsaid, Mild, AllReleased

LEMMA EndedLeads ==
  ASSUME NEW s, s.target \in Modes, NEW s1, s1 \in {Failed(s), Stopped(s)}
  PROVE  Leads(s, s1) /\ Unsaid(s1) /\ Mild(s1) /\ ~Alive(s1)
<1> DEFINE begun == Session(s.target)
<1>1. begun \in SessionTypes /\ begun.target = s.target
  BY SessionFields DEF Session
<1>2. s1.target = s.target
  <2>1. s1 \in {[[begun EXCEPT !.pending = FALSE] EXCEPT !.faulted = TRUE],
                [[begun EXCEPT !.pending = FALSE] EXCEPT !.active = FALSE]}
    BY DEF Failed, Stopped, Ended
  <2> HIDE DEF begun
  <2> QED BY <1>1, <2>1 DEF SessionTypes
<1> QED BY <1>2, EndedFields, RestartLeads

LEMMA AgedLeads ==
  ASSUME NEW s \in SessionTypes PROVE Leads(s, Aged(s))
<1> DEFINE old == IF s.confirmed /\ s.have THEN [s EXCEPT !.fresh = FALSE] ELSE s
<1>1. old \in SessionTypes /\ SameCourse(s, old) /\ SameReport(s, old) /\ old.flight = s.flight
  BY StaleFields DEF SameCourse, SameReport
<1>2. Leads(s, old)
  BY <1>1, SameLeads
<1>3. Aged(s) \in {old, Unlinked(old)}
  BY DEF Aged
<1> HIDE DEF old
<1>4. Leads(old, Unlinked(old))
  BY <1>1, UnlinkedFields, RestartLeads
<1> QED BY <1>2, <1>3, <1>4, LeadsOn

LEMMA FlyingLeads ==
  ASSUME NEW s \in SessionTypes, SessionInv(s), Alive(s), s.flight = "none",
         NEW k \in Kinds, k \in Sendable(s)
  PROVE  Leads(s, Flying(s, k))
<1> DEFINE s1 == Flying(s, k)
<1>1. /\ s1.target = s.target /\ s1.flight = k /\ s1.reports = s.reports
      /\ s1.committed = s.committed /\ s1.staged = s.staged
      /\ s1.usage = s.usage /\ s1.usageStaged = s.usageStaged /\ s1.usagePending = s.usagePending
  BY FlyingFields
<1> HIDE DEF s1
<1>2. k = "consumer" => s.usagePending /\ s.reports
  <2> SUFFICES ASSUME k = "consumer" PROVE s.usagePending /\ s.reports
    OBVIOUS
  <2>1. s.part \in {"keys", "bitmap"}
    BY DEF SessionTypes
  <2>2. s.usagePending /\ Eligible(s) /\ (s.pending => s.reports)
    BY <2>1 DEF Sendable
  <2> QED BY <2>2 DEF Eligible, SessionInv, ReportsInv
<1> QED BY <1>1, <1>2 DEF Leads, Unsaid, Mild, AllReleased, s1

LEMMA ReceivedLeads ==
  ASSUME NEW s \in SessionTypes, SessionInv(s), s.flight = "none", NEW pr, NEW reply,
         ReplyOf(reply, pr), s.linked => pr.mode = s.target
  PROVE  Leads(s, Received(s, reply))
<1> DEFINE s1 == Received(s, reply)
<1>1. CASE reply.kind = "other"
  BY <1>1 DEF Received, Leads
<1>2. CASE Refused(s, reply)
  <2>1. s1 = Failed(s) /\ s.target \in Modes
    BY <1>2, RefusedFails DEF SessionTypes
  <2> QED BY <2>1, EndedLeads
<1>3. CASE reply.kind = "status" /\ ~Refused(s, reply)
  <2>1. /\ SameCourse(s, s1) /\ s1.flight = s.flight
        /\ AnswerKept(s, s1, reply) \/ AnswerRestarts(s, s1, reply)
    BY <1>3, ReceivedFields
  <2> HIDE DEF s1
  <2>2. CASE AnswerKept(s, s1, reply)
    BY <2>1, <2>2, SameLeads DEF AnswerKept, s1
  <2>3. CASE AnswerRestarts(s, s1, reply)
    BY <2>1, <2>3, RestartLeads DEF AnswerRestarts, SameCourse, s1
  <2> QED BY <2>1, <2>2, <2>3 DEF s1
<1> QED BY <1>1, <1>2, <1>3 DEF ReplyOf

LEMMA CompletedLeads ==
  ASSUME NEW s, NEW packet, NEW pr, NEW hosts, InvOf(s, "done", packet, pr, hosts), Alive(s),
         NEW reply, s.flight = "poll" => ReplyOf(reply, pr)
  PROVE  Leads(s, Completed(s, reply))
<1>1. s \in SessionTypes /\ WireInv(s, "done", packet) /\ SessionInv(s) /\ PeerInv(s, "done", pr, hosts)
  BY DEF InvOf, TypesOK
<1>2. s.flight # "none" /\ s.flight \in Kinds
  BY <1>1 DEF WireInv, SessionTypes
<1>3. CASE s.flight # "poll"
  <2> DEFINE s1 == Completed(s, reply)
  <2>1. /\ s1.target = s.target /\ s1.flight = "none" /\ s1.staged = s.staged
        /\ s1.usageStaged = s.usageStaged
        /\ IF s.flight = "bitmap" THEN s1.committed = s.staged /\ s1.reports
           ELSE s1.committed = s.committed /\ s1.reports = s.reports
        /\ IF s.flight = "consumer" THEN s1.usage = s.usageStaged /\ ~s1.usagePending
           ELSE s1.usage = s.usage /\ s1.usagePending = s.usagePending
    BY <1>1, <1>2, <1>3, CompletedFields
  <2> HIDE DEF s1
  <2> QED BY <2>1 DEF Leads, Unsaid, Mild, AllReleased, s1
<1>4. CASE s.flight = "poll"
  <2> DEFINE d == [s EXCEPT !.flight = NoPacket]
  <2>1. /\ d \in SessionTypes /\ SameCourse(s, d) /\ SameReport(s, d) /\ SameStatus(s, d)
        /\ d.linked = s.linked /\ d.pair = s.pair /\ d.flight = "none"
    BY <1>1, LandedFields
  <2>2. Completed(s, reply) = Received(d, reply)
    BY <1>4 DEF Completed
  <2> HIDE DEF d
  <2>3. SessionInv(d)
    <3>1. ReportsInv(d)
      BY <1>1, <1>4, <2>1 DEF SessionInv, ReportsInv, Reporting, AllReleased, SameReport, SameCourse, Alive
    <3>2. UsageInv(d)
      BY <1>1, <1>4, <2>1 DEF SessionInv, UsageInv, SameReport, SameCourse
    <3> QED BY <1>1, <1>4, <2>1, <3>1, <3>2
            DEF SessionInv, ToldReports, Spoken, SameStatus, SameReport, SameCourse
  <2>4. Leads(d, Received(d, reply))
    BY <1>1, <1>4, <2>1, <2>3, ReceivedLeads DEF PeerInv, SameCourse
  <2>5. Leads(s, d)
    BY <2>1, SameLeads
  <2> QED BY <2>2, <2>4, <2>5, LeadsOn
<1> QED BY <1>3, <1>4

LEMMA SettledLeads ==
  ASSUME WirelessInv, Healthy, NEW reply \in Answers
  PROVE  /\ Leads(w, Settled(reply)) /\ Settled(reply) \in SessionTypes
         /\ Settled(reply).target \in Modes
<1>1. /\ InvOf(w, spi, tx, peer, host) /\ WireInv(w, spi, tx) /\ peer \in PeerTypes
      /\ w \in SessionTypes /\ Alive(w)
  BY OwnerParts DEF Healthy, Alive
<1>2. Settled(reply) \in SessionTypes
  BY <1>1, SettledKeeps DEF InvOf, TypesOK
<1>3. CASE spi = "done"
  <2>1. Settled(reply) = Completed(w, reply)
    BY <1>1, <1>3 DEF Settled, WireInv, NoPacket
  <2>2. w.flight = "poll" => ReplyOf(reply, peer)
    BY <1>1, <1>3 DEF Answers, Replies, ReplyOf, PeerTypes, States
  <2> QED BY <1>1, <1>2, <1>3, <2>1, <2>2, CompletedLeads DEF SessionTypes
<1>4. CASE spi # "done"
  BY <1>1, <1>2, <1>4 DEF Settled, Leads, SessionTypes
<1> QED BY <1>3, <1>4

LEMMA TimedLeads ==
  ASSUME WirelessInv, Healthy, NEW reply \in Answers, NEW s \in Timed(Settled(reply))
  PROVE  Leads(w, s)
<1>1. Leads(w, Settled(reply)) /\ Leads(Settled(reply), Aged(Settled(reply)))
  BY SettledLeads, AgedLeads
<1>2. s \in {Settled(reply), Aged(Settled(reply))}
  BY DEF Timed
<1> QED BY <1>1, <1>2, LeadsOn

(* m1_wireless_service as the loop sees it.                                *)
LEMMA ServiceLeads ==
  ASSUME WirelessInv, WirelessService
  PROVE  /\ WirelessInv' /\ Leads(w, w') /\ peer' = peer /\ host' = host
         /\ Healthy' => Healthy
         /\ Alive(w') => Alive(w) /\ (Healthy \/ w' = w)
<1>0. w \in SessionTypes /\ w.target \in Modes /\ SessionInv(w)
  BY OwnerParts DEF SessionTypes
<1>1. CASE ServiceFails
  <2>1. w' \in {Failed(w), Stopped(w)} /\ peer' = peer /\ host' = host
    BY <1>1 DEF ServiceFails
  <2>2. Leads(w, w') /\ ~Alive(w')
    BY <1>0, <2>1, EndedLeads
  <2> QED BY <1>1, <2>1, <2>2, FailsKeeps DEF Healthy, Alive
<1>2. CASE ServiceRefuses
  <2>1. PICK reply \in Answers :
           LET s == Settled(reply)
           IN  \/ s.faulted /\ w' = s
               \/ ~s.faulted /\ Regular(s) /\ ~s.confirmed /\ w' = Failed(s)
    BY <1>2 DEF ServiceRefuses
  <2>2. Healthy /\ spi' = "off" /\ peer' = peer /\ host' = host
    BY <1>2 DEF ServiceRefuses
  <2> DEFINE s == Settled(reply)
  <2>3. Leads(w, s) /\ s.target \in Modes
    BY <2>2, SettledLeads
  <2>4. (s.faulted /\ w' = s) \/ w' \in {Failed(s), Stopped(s)}
    BY <2>1
  <2> HIDE DEF s
  <2>5. Leads(w, w')
    BY <2>3, <2>4, EndedLeads, LeadsOn
  <2>6. ~Alive(w')
    BY <2>3, <2>4, EndedLeads DEF Alive
  <2> QED BY <1>2, <2>2, <2>5, <2>6, RefusesKeeps
          DEF Healthy, Alive
<1>3. CASE ServiceWaits
  <2>1. Healthy /\ peer' = peer /\ host' = host
    BY <1>3 DEF ServiceWaits
  <2>2. PICK reply \in Answers : w' \in Timed(Settled(reply))
    BY <1>3 DEF ServiceWaits
  <2>3. Leads(w, w')
    BY <2>1, <2>2, TimedLeads
  <2> QED BY <1>3, <2>1, <2>3, WaitsKeeps DEF Healthy, Alive
<1>4. CASE ServiceSends
  <2>1. Healthy /\ peer' = peer /\ host' = host
    BY <1>4 DEF ServiceSends
  <2>2. PICK reply \in Answers : \E s \in Timed(Settled(reply)) : \E packet, k :
           /\ InvOf(s, "ready", packet, peer, host) /\ Alive(s) /\ k \in Sendable(s)
           /\ w' = Flying(s, k)
    BY <1>4, SentPacket
  <2> DEFINE Sends(s, packet, k) ==
               /\ InvOf(s, "ready", packet, peer, host) /\ Alive(s) /\ k \in Sendable(s)
               /\ w' = Flying(s, k)
  <2>3. PICK s \in Timed(Settled(reply)) : \E packet, k : Sends(s, packet, k)
    BY <2>2
  <2>4. PICK packet, k : Sends(s, packet, k)
    BY <2>3
  <2>5. s \in SessionTypes /\ SessionInv(s) /\ s.flight = "none"
    BY <2>4 DEF InvOf, TypesOK, WireInv
  <2>6. k \in Kinds
    BY <2>4, <2>5 DEF Sendable, Kinds, SessionTypes
  <2>7. Leads(w, s) /\ Leads(s, w')
    BY <2>1, <2>4, <2>5, <2>6, FlyingLeads, TimedLeads
  <2> QED BY <1>4, <2>1, <2>7, LeadsOn, SendsKeeps DEF Healthy, Alive
<1>5. CASE ExchangeFaults
  BY <1>5, ExchangeFaultsKeeps DEF ExchangeFaults, Leads, Healthy
<1> QED BY <1>1, <1>2, <1>3, <1>4, <1>5 DEF WirelessService

-----------------------------------------------------------------------------
(* The ends of an input, and what a frame makes of the controls and of the *)
(* application.                                                            *)
LEMMA AbandonedFields ==
  ASSUME NEW k \in ControlTypes
  PROVE  /\ Abandoned(k) \in ControlTypes /\ Abandoned(k).current = k.current
         /\ Abandoned(k).phase = "idle"
  BY DEF ControlTypes, Abandoned

LEMMA CancelledFields ==
  ASSUME NEW k \in AuxTypes
  PROVE  /\ AuxCancelled(k) \in AuxTypes /\ AuxCancelled(k).release
         /\ AuxCancelled(k).usage = k.usage /\ ~AuxCancelled(k).allowed
  BY DEF AuxTypes, AuxCancelled, UsageTypes

LEMMA AbortedFields ==
  ASSUME NEW b \in ApplicationTypes
  PROVE  /\ Disarmed(b) \in ApplicationTypes /\ ~Disarmed(b).armed
         /\ Disarmed(b).sent = b.sent /\ Disarmed(b).sentValid = b.sentValid
         /\ Aborted(b) \in ApplicationTypes /\ ~Aborted(b).armed /\ ~Aborted(b).sentValid
<1>1. /\ Disarmed(b) \in ApplicationTypes /\ ~Disarmed(b).armed
      /\ Disarmed(b).sent = b.sent /\ Disarmed(b).sentValid = b.sentValid
  BY DEF ApplicationTypes, Disarmed
<1> DEFINE d == Disarmed(b)
<1>2. d \in ApplicationTypes /\ ~d.armed /\ Aborted(b) = [d EXCEPT !.sentValid = FALSE, !.sent = {}]
  BY <1>1 DEF Aborted
<1> HIDE DEF d
<1> QED BY <1>1, <1>2 DEF ApplicationTypes

LEMMA BlamedFields ==
  ASSUME NEW k \in OwnerTypes
  PROVE  /\ Blamed(k) \in OwnerTypes /\ Blamed(k).attempted = k.attempted
         /\ Blamed(k).fault = (k.fault \/ k.attempted)
         /\ Blamed(k).enabled = (k.enabled /\ ~k.attempted)
         /\ Blamed(k).fresh = k.fresh
  BY DEF OwnerTypes, Blamed

(* Whatever a frame does, a switch goes on, what was sent is not another   *)
(* report, and a control surface in use keeps the engine disarmed.         *)
Framed(k, b, k1, b1) ==
    /\ k1 \in ControlTypes /\ b1 \in ApplicationTypes
    /\ k1.current = k.current
    /\ k.phase = "switching" => k1.phase = "switching"
    /\ k1.phase # "idle" => k1.target \in Modes /\ ~b1.armed
    /\ b1.sentValid => b.sentValid /\ b1.sent = b.sent

LEMMA FrameKeeps ==
  ASSUME NEW k \in ControlTypes, NEW b \in ApplicationTypes, NEW keys \in SUBSET Keys,
         k.phase # "idle" => k.target \in Modes, NEW f \in Frames(k, b, keys)
  PROVE  Framed(k, b, f[1], f[2])
<1> DEFINE consumed == Disarmed(b)
           released == Aborted(b)
<1>1. /\ consumed \in ApplicationTypes /\ ~consumed.armed
      /\ consumed.sent = b.sent /\ consumed.sentValid = b.sentValid
      /\ released \in ApplicationTypes /\ ~released.armed /\ ~released.sentValid
  BY AbortedFields
<1>2. \/ k.phase = "switching" /\ f = <<k, consumed>>
      \/ /\ k.phase # "switching" /\ k.neutral
         /\ f \in {<<[k EXCEPT !.neutral = keys # {}], consumed>>, <<k, consumed>>}
      \/ /\ k.phase = "choosing"
         /\ f \in {<<[k EXCEPT !.pairing = p], consumed>> : p \in {k.pairing, k.target # "usb"}}
      \/ k.phase = "choosing" /\ f = <<Abandoned(k), consumed>>
      \/ k.phase = "choosing" /\ f = <<Requested(k), released>>
      \/ k.phase = "idle" /\ f = <<k, Engine(b, keys)>>
      \/ k.phase = "idle" /\ \E m \in Modes : f = <<Chosen(k, m), consumed>>
  BY DEF Frames, ControlTypes
<1> HIDE DEF consumed, released
<1>3. CASE k.phase = "switching" /\ f = <<k, consumed>>
  BY <1>1, <1>3 DEF Framed
<1>4. CASE /\ k.phase # "switching"
           /\ f \in {<<[k EXCEPT !.neutral = keys # {}], consumed>>, <<k, consumed>>}
  <2>1. PICK some \in BOOLEAN : some = (keys # {})
    OBVIOUS
  <2>2. f[1] \in {k, [k EXCEPT !.neutral = some]} /\ f[2] = consumed
    BY <1>4, <2>1
  <2>3. [k EXCEPT !.neutral = some] \in ControlTypes
    BY DEF ControlTypes
  <2>4. f[1] \in ControlTypes /\ f[1].current = k.current /\ f[1].phase = k.phase /\ f[1].target = k.target
    BY <2>2, <2>3 DEF ControlTypes
  <2> QED BY <1>1, <1>4, <2>2, <2>4 DEF Framed
<1>5. CASE /\ k.phase = "choosing"
           /\ f \in {<<[k EXCEPT !.pairing = p], consumed>> : p \in {k.pairing, k.target # "usb"}}
  <2>0. PICK radio \in BOOLEAN : radio = (k.target # "usb")
    OBVIOUS
  <2>1. PICK p \in {k.pairing, radio} : f = <<[k EXCEPT !.pairing = p], consumed>>
    BY <1>5, <2>0
  <2>2. f[1] \in ControlTypes /\ f[1].current = k.current /\ f[1].phase = k.phase /\ f[1].target = k.target
    BY <2>0, <2>1 DEF ControlTypes
  <2> QED BY <1>1, <1>5, <2>1, <2>2 DEF Framed
<1>6. CASE k.phase = "choosing" /\ f = <<Abandoned(k), consumed>>
  BY <1>1, <1>6, AbandonedFields DEF Framed
<1>7. CASE k.phase = "choosing" /\ f = <<Requested(k), released>>
  <2>1. /\ Requested(k) \in ControlTypes /\ Requested(k).current = k.current
        /\ Requested(k).target = k.target
    BY DEF Requested, ControlTypes
  <2> QED BY <1>1, <1>7, <2>1 DEF Framed
<1>8. CASE k.phase = "idle" /\ f = <<k, Engine(b, keys)>>
  <2>1. PICK free \in BOOLEAN : free = (keys = {})
    OBVIOUS
  <2>2. Engine(b, keys) \in {[b EXCEPT !.down = keys], [b EXCEPT !.armed = free]}
    BY <2>1 DEF Engine
  <2>3. /\ Engine(b, keys) \in ApplicationTypes
        /\ Engine(b, keys).sent = b.sent /\ Engine(b, keys).sentValid = b.sentValid
    BY <2>2 DEF ApplicationTypes
  <2> QED BY <1>8, <2>3 DEF Framed
<1>9. CASE k.phase = "idle" /\ \E m \in Modes : f = <<Chosen(k, m), consumed>>
  <2>1. PICK m \in Modes : f = <<Chosen(k, m), consumed>>
    BY <1>9
  <2>2. /\ Chosen(k, m) \in ControlTypes /\ Chosen(k, m).current = k.current
        /\ Chosen(k, m).target = m
    BY DEF Chosen, ControlTypes
  <2> QED BY <1>1, <1>9, <2>1, <2>2 DEF Framed
<1> QED BY <1>2, <1>3, <1>4, <1>5, <1>6, <1>7, <1>8, <1>9

-----------------------------------------------------------------------------
(* The parts of the invariant, and steps that several actions share.       *)
LEMMA LinkParts ==
  ASSUME LinkInv
  PROVE  /\ WirelessInv /\ SwitchInv /\ SilenceInv /\ EndpointInv /\ UsbSentInv
         /\ pc \in {"input", "output", "controls"}
         /\ u \in UsbTypes /\ c \in ControlTypes /\ t \in TransportTypes
         /\ a \in ApplicationTypes /\ x \in AuxTypes /\ l \in OwnerTypes
         /\ c.current \in Modes
  BY DEF LinkInv, LinkTypeOK, UsbInv, ControlTypes

(* A radio's host that the session, once it has spoken to it, forgets what *)
(* it has said, has heard of a release or hears of it for the first time.  *)
LEMMA ForgottenHost ==
  ASSUME LinkInv, WirelessInv', Mild(w'), ~Parted, c.current # "usb", Spoken(w), Healthy,
         peer' = peer, host' = host, Alive(w'), ~Spoken(w')
  PROVE  Silenced(host[c.current])
<1>1. PeerInv(w, spi, peer, host) /\ w.target = c.current
  <2>1. RadioFollowsControls
    BY DEF LinkInv, SwitchInv
  <2> QED BY <2>1, OwnerParts DEF LinkInv, RadioFollowsControls, Parted
<1>2. peer.mode = c.current /\ (peer.link = "reports" \/ Mute(host[c.current]))
  BY <1>1 DEF PeerInv
<1>3. InvOf(w', spi', tx', peer, host)
  BY DEF WirelessInv
<1>4. CASE peer.link = "reports"
  <2>1. ServedInv(w', spi', host[c.current])
    BY <1>2, <1>3, <1>4 DEF InvOf, PeerInv
  <2>2. ~w'.reports /\ w'.flight # "consumer" /\ w'.usage = NoUsage
    BY DEF Spoken, Mild
  <2> QED BY <2>1, <2>2 DEF ServedInv, Silenced, UsageSent
<1> QED BY <1>2, <1>4 DEF Mute, Silenced

LEMMA RadioServedKeeps ==
  ASSUME LinkInv, RadioServed
  PROVE  /\ WirelessInv' /\ Leads(w, w') /\ peer' = peer /\ host' = host
         /\ Healthy' => Healthy
         /\ Alive(w') => Alive(w) /\ (Healthy \/ w' = w)
<1>1. WirelessInv
  BY LinkParts
<1>2. CASE WirelessService
  BY <1>1, <1>2, ServiceLeads
<1>3. CASE PulseEnds
  BY <1>1, <1>3, PulseEndsKeeps DEF PulseEnds, Leads, Healthy
<1>4. CASE UNCHANGED wirelessVars
  BY <1>1, <1>4 DEF wirelessVars, WirelessInv, Leads, Healthy
<1> QED BY <1>2, <1>3, <1>4 DEF RadioServed

-----------------------------------------------------------------------------
(* The first step of a pass: epoch, radio, readiness edge and frame.       *)
LEMMA InputFields ==
  ASSUME LinkInv, LoopInput
  PROVE  \E late, lost \in BOOLEAN :
           /\ lost => late
           /\ u.stale /\ c.current = "usb" /\ ~l.attempted => late
           /\ l.attempted /\ late => lost
           /\ l' \in OwnerTypes /\ l'.attempted = l.attempted
           /\ l'.fault = (l.fault \/ (lost /\ l.attempted))
           /\ l'.enabled = (l.enabled /\ ~(lost /\ l.attempted))
           /\ x' \in AuxTypes /\ x'.usage = x.usage
           /\ IF late THEN x'.release ELSE x' = x
           /\ c' \in ControlTypes /\ a' \in ApplicationTypes /\ c'.current = c.current
           /\ ~late /\ c.phase = "switching" => c'.phase = "switching"
           /\ c'.phase # "idle" => c'.target \in Modes /\ ~a'.armed
           /\ a'.sentValid => ~late /\ a.sentValid /\ a'.sent = a.sent
<1>1. /\ c \in ControlTypes /\ a \in ApplicationTypes /\ x \in AuxTypes /\ l \in OwnerTypes
      /\ c.phase # "idle" => c.target \in Modes /\ ~a.armed
  BY LinkParts DEF SwitchInv
<1>2. PICK reset \in BOOLEAN, lost \in BOOLEAN, ready \in BOOLEAN :
        LET c1 == IF reset \/ lost THEN Abandoned(c) ELSE c
            a1 == IF reset \/ lost THEN Aborted(a) ELSE a
        IN  /\ reset = (u.stale /\ c.current = "usb" /\ ~l.attempted)
            /\ l' = [IF lost THEN Blamed(l) ELSE l EXCEPT !.ready = ready]
            /\ x' = IF reset \/ lost THEN AuxCancelled(x) ELSE x
            /\ \/ c' = c1 /\ a' = a1
               \/ \E keys \in SUBSET Keys : \E f \in Frames(c1, a1, keys) : c' = f[1] /\ a' = f[2]
  <2>1. PICK m \in {c.current}, gap \in BOOLEAN :
        LET reset == u.stale /\ m = "usb" /\ ~l.attempted
            ready == OutputReady(m)'
            lost == gap \/ (ready # l.ready /\ (reset \/ c.phase # "switching"))
            c1 == IF reset \/ lost THEN Abandoned(c) ELSE c
            a1 == IF reset \/ lost THEN Aborted(a) ELSE a
        IN  /\ l' = [IF lost THEN Blamed(l) ELSE l EXCEPT !.ready = ready]
            /\ x' = IF reset \/ lost THEN AuxCancelled(x) ELSE x
            /\ \/ c' = c1 /\ a' = a1
               \/ \E keys \in SUBSET Keys : \E f \in Frames(c1, a1, keys) : c' = f[1] /\ a' = f[2]
    BY DEF LoopInput
  <2>2. PICK reset \in BOOLEAN : reset = (u.stale /\ c.current = "usb" /\ ~l.attempted)
    OBVIOUS
  <2>3. PICK ready \in BOOLEAN : ready = OutputReady(m)'
    BY DEF OutputReady, UsbReady, UsbUp, RadioMode, Healthy, Eligible
  <2>4. PICK lost \in BOOLEAN : lost = (gap \/ (ready # l.ready /\ (reset \/ c.phase # "switching")))
    OBVIOUS
  <2> QED BY <2>1, <2>2, <2>3, <2>4
<1> DEFINE late == reset \/ lost
           c1 == IF late THEN Abandoned(c) ELSE c
           a1 == IF late THEN Aborted(a) ELSE a
<1>3. /\ c1 \in ControlTypes /\ c1.current = c.current
      /\ c1.phase # "idle" => c1.target \in Modes /\ ~a1.armed
      /\ IF late THEN c1.phase = "idle" ELSE c1.phase = c.phase
      /\ a1 \in ApplicationTypes
      /\ a1.sentValid => ~late /\ a.sentValid /\ a1.sent = a.sent
  BY <1>1, AbandonedFields, AbortedFields
<1>4. \/ c' = c1 /\ a' = a1
      \/ \E keys \in SUBSET Keys : \E f \in Frames(c1, a1, keys) : c' = f[1] /\ a' = f[2]
  BY <1>2
<1>5. /\ reset = (u.stale /\ c.current = "usb" /\ ~l.attempted)
      /\ l' = [IF lost THEN Blamed(l) ELSE l EXCEPT !.ready = ready]
      /\ x' = IF late THEN AuxCancelled(x) ELSE x
  BY <1>2
<1> HIDE DEF c1, a1
<1>6. /\ l' \in OwnerTypes /\ l'.attempted = l.attempted
      /\ l'.fault = (l.fault \/ (lost /\ l.attempted))
      /\ l'.enabled = (l.enabled /\ ~(lost /\ l.attempted))
  <2> DEFINE l1 == IF lost THEN Blamed(l) ELSE l
  <2>1. /\ l1 \in OwnerTypes /\ l1.attempted = l.attempted
        /\ l1.fault = (l.fault \/ (lost /\ l.attempted))
        /\ l1.enabled = (l.enabled /\ ~(lost /\ l.attempted))
    <3>1. CASE lost
      BY <1>1, <3>1, BlamedFields
    <3>2. CASE ~lost
      BY <1>1, <3>2 DEF OwnerTypes
    <3> QED BY <3>1, <3>2
  <2>2. l' = [l1 EXCEPT !.ready = ready]
    BY <1>5
  <2> HIDE DEF l1
  <2> QED BY <2>1, <2>2 DEF OwnerTypes
<1>7. x' \in AuxTypes /\ x'.usage = x.usage /\ IF late THEN x'.release ELSE x' = x
  BY <1>1, <1>5, CancelledFields
<1>8. Framed(c1, a1, c', a')
  <2>1. CASE c' = c1 /\ a' = a1
    BY <1>3, <2>1 DEF Framed
  <2>2. CASE \E keys \in SUBSET Keys : \E f \in Frames(c1, a1, keys) : c' = f[1] /\ a' = f[2]
    BY <1>3, <2>2, FrameKeeps
  <2> QED BY <1>4, <2>1, <2>2
<1>9. late \in BOOLEAN /\ lost \in BOOLEAN /\ (lost => late)
  BY <1>2
<1>10. (u.stale /\ c.current = "usb" /\ ~l.attempted => late) /\ (l.attempted /\ late => lost)
  BY <1>5
<1> HIDE DEF late
<1> QED BY <1>3, <1>6, <1>7, <1>8, <1>9, <1>10 DEF Framed

LEMMA LoopInputKeeps == ASSUME LinkInv, LoopInput PROVE LinkInv'
<1>1. /\ SwitchInv /\ SilenceInv /\ EndpointInv /\ UsbSentInv
      /\ u \in UsbTypes /\ t \in TransportTypes /\ x \in AuxTypes /\ l \in OwnerTypes
      /\ c.current \in Modes
  BY LinkParts
<1>2. PICK late \in BOOLEAN, lost \in BOOLEAN :
         /\ lost => late
         /\ u.stale /\ c.current = "usb" /\ ~l.attempted => late
         /\ l.attempted /\ late => lost
         /\ l' \in OwnerTypes /\ l'.attempted = l.attempted
         /\ l'.fault = (l.fault \/ (lost /\ l.attempted))
         /\ l'.enabled = (l.enabled /\ ~(lost /\ l.attempted))
         /\ x' \in AuxTypes /\ x'.usage = x.usage
         /\ IF late THEN x'.release ELSE x' = x
         /\ c' \in ControlTypes /\ a' \in ApplicationTypes /\ c'.current = c.current
         /\ ~late /\ c.phase = "switching" => c'.phase = "switching"
         /\ c'.phase # "idle" => c'.target \in Modes /\ ~a'.armed
         /\ a'.sentValid => ~late /\ a.sentValid /\ a'.sent = a.sent
  BY InputFields
<1>3. /\ WirelessInv' /\ Leads(w, w') /\ peer' = peer /\ host' = host
      /\ Healthy' => Healthy
      /\ Alive(w') => Alive(w) /\ (Healthy \/ w' = w)
  BY RadioServedKeeps DEF LoopInput
<1>4. /\ u' \in UsbTypes /\ u'.state = u.state /\ ~u'.stale /\ u'.busy = u.busy /\ u'.hid = u.hid
      /\ u'.cbusy = u.cbusy /\ u'.cons = u.cons
      /\ t' = t /\ pc' = "output"
  <2>1. u' = [u EXCEPT !.stale = FALSE] /\ t' = t /\ pc' = "output"
    BY DEF LoopInput
  <2> QED BY <1>1, <2>1 DEF UsbTypes
<1>5. LinkTypeOK'
  BY <1>1, <1>2, <1>4 DEF LinkTypeOK
<1>6. Parted' <=> Parted
  BY <1>2 DEF Parted
<1>7. SwitchInv'
  <2>1. RadioFollowsControls'
    BY <1>1, <1>2, <1>3 DEF SwitchInv, RadioFollowsControls, Leads
  <2> QED BY <1>1, <1>2, <2>1 DEF SwitchInv
<1>8. SilenceInv'
  <2>1. Mild(w') /\ (Unsaid(w) => Unsaid(w'))
    BY <1>1, <1>3 DEF SilenceInv, Leads
  <2>2. ASSUME NEW h \in Modes, Left(h)' PROVE Silenced(host'[h])
    <3>1. CASE h # c.current \/ Parted
      BY <1>1, <1>3, <2>2, <3>1 DEF SilenceInv, Left
    <3>2. CASE h = c.current /\ ~Parted
      <4>1. c.current # "usb" /\ Alive(w') /\ ~Spoken(w')
        BY <1>2, <1>6, <2>2, <3>2 DEF Left
      <4>2. CASE Spoken(w)
        BY <1>3, <2>1, <3>2, <4>1, <4>2, ForgottenHost
      <4>3. CASE ~Spoken(w)
        BY <1>1, <1>3, <2>2, <3>2, <4>1, <4>3 DEF SilenceInv, Left
      <4> QED BY <4>2, <4>3
    <3> QED BY <3>1, <3>2
  <2> QED BY <1>1, <1>2, <1>4, <1>6, <2>1, <2>2 DEF SilenceInv
<1>9. EndpointInv'
  BY <1>1, <1>3, <1>4 DEF EndpointInv
<1>10. UsbSentInv'
  <2> SUFFICES ASSUME c.current = "usb", UsbUp
               PROVE  /\ a'.sentValid => IF u.busy THEN u.hid = a'.sent
                                         ELSE host["usb"].list \subseteq a'.sent
                      /\ ~x'.release => IF u.cbusy THEN u.cons = x'.usage
                                        ELSE host["usb"].usage \in {NoUsage, x'.usage}
    BY <1>2, <1>3, <1>4 DEF UsbSentInv, UsbReady, UsbUp
  <2>1. CASE ~u.stale
    BY <1>1, <1>2, <2>1 DEF UsbSentInv, UsbReady
  <2>2. CASE u.stale /\ ~l.attempted
    BY <1>2, <2>2
  <2>3. CASE l.attempted
    <3>1. Silenced(host["usb"]) /\ u.hid = {} /\ u.cons = NoUsage
      BY <1>1, <2>3, WirelessConstants DEF SilenceInv, Left, Parted
    <3>2. host["usb"].list = {} /\ host["usb"].usage = NoUsage
      BY <1>1, <3>1 DEF Silenced, EndpointInv, Holds
    <3>3. x.usage = NoUsage /\ (a.sentValid => a.sent = {})
      BY <1>1, <2>3 DEF SilenceInv, Parted
    <3> QED BY <1>2, <3>1, <3>2, <3>3
  <2> QED BY <2>1, <2>2, <2>3
<1> QED BY <1>3, <1>5, <1>7, <1>8, <1>9, <1>10 DEF LinkInv, UsbInv

-----------------------------------------------------------------------------
(* The second step: the report and the consumer control.                   *)
LEMMA NothingPlaced == Placed(Released, {}) = Released
<1> DEFINE keep == Kept(Released, {})
           extended == ({} \ LowKeys) \ keep.list
           low == ({} \cap LowKeys) \ (keep.list \cup keep.map)
           room == ListSlots - Cardinality(keep.list)
           first == Smallest(extended, room)
           then == Smallest(low, room - Cardinality(first))
<1>1. extended = {} /\ low = {} /\ keep.list = {} /\ keep.map = {}
  BY ReportFacts DEF Kept
<1>2. first = {} /\ then = {}
  BY <1>1 DEF Smallest
<1>3. Placed(Released, {}) = [list |-> keep.list \cup first \cup then,
                             map |-> keep.map \cup (low \ then), over |-> first # extended]
  BY DEF Placed
<1> HIDE DEF keep, extended, low, first, then
<1>4. keep.list \cup first \cup then = {} /\ keep.map \cup (low \ then) = {} /\ (first # extended) = FALSE
  BY <1>1, <1>2
<1> QED BY <1>3, <1>4 DEF Released

(* What the session is to its host, but for the parts of a report.         *)
SameVoice(s, s1) ==
    /\ s1.active = s.active /\ s1.faulted = s.faulted /\ s1.target = s.target
    /\ s1.flight = s.flight /\ s1.reports = s.reports /\ s1.usage = s.usage
    /\ ~Spoken(s1) => ~Spoken(s)

LEMMA ReportTaken ==
  ASSUME LinkInv, NEW report \in SUBSET Keys, TakesReport(report),
         NEW s, s = RadioWithReport(w, report)
  PROVE  /\ InvOf(s, spi, tx, peer, host) /\ SameVoice(w, s)
         /\ Mild(s) /\ (report = {} /\ Unsaid(w) => Unsaid(s))
         /\ c.current = "usb" => s = w
<1>1. InvOf(w, spi, tx, peer, host) /\ w \in SessionTypes /\ SessionInv(w) /\ Mild(w)
  BY LinkParts, OwnerParts DEF SilenceInv
<1>2. CASE c.current = "usb" \/ Absorbed(w, report)
  BY <1>1, <1>2 DEF RadioWithReport, SameVoice
<1>3. CASE c.current # "usb" /\ ~Absorbed(w, report)
  <2>1. Offers(w) /\ s = WithReport(w, report)
    BY <1>3 DEF TakesReport, RadioWithReport
  <2>2. InvOf(s, spi, tx, peer, host)
    BY <1>1, <2>1, ReportKeeps
  <2>3. /\ SameCourse(w, s) /\ s.flight = w.flight /\ s.reports = w.reports /\ s.committed = w.committed
        /\ s.usage = w.usage /\ s.usageStaged = w.usageStaged /\ s.usagePending = w.usagePending
    BY <1>1, <2>1, OfferFields
  <2>4. w.reports
    BY <1>1, <2>1 DEF Offers, Eligible, SessionInv, ReportsInv, Alive
  <2>5. s.staged = Placed(w.committed, report)
    BY <1>1, <2>1 DEF WithReport, SessionTypes
  <2>6. report = {} /\ Unsaid(w) => s.staged = Released
    BY <2>5, NothingPlaced DEF Unsaid, AllReleased
  <2> QED BY <1>1, <1>3, <2>2, <2>3, <2>4, <2>6 DEF SameVoice, SameCourse, Spoken, Mild, Unsaid, AllReleased
<1> QED BY <1>2, <1>3

LEMMA UsageTaken ==
  ASSUME LinkInv, NEW s0, InvOf(s0, spi, tx, peer, host), SameVoice(w, s0), Mild(s0),
         c.current = "usb" => s0 = w,
         NEW v \in UsageTypes, TakesConsumer(s0, v), NEW s, s = RadioWithUsage(s0, v)
  PROVE  /\ InvOf(s, spi, tx, peer, host) /\ SameVoice(w, s)
         /\ Mild(s) /\ (v = NoUsage /\ Unsaid(s0) => Unsaid(s))
         /\ c.current = "usb" => s = w
<1>1. CASE c.current = "usb" \/ UsageDone(s0, v)
  BY <1>1 DEF RadioWithUsage
<1>2. CASE c.current # "usb" /\ ~UsageDone(s0, v)
  <2>1. s0 \in SessionTypes /\ SessionInv(s0)
    BY DEF InvOf, TypesOK
  <2>2. Eligible(s0) /\ ~s0.usagePending /\ s = WithUsage(s0, v)
    BY <1>2 DEF TakesConsumer, TakesUsage, RadioWithUsage, WithUsage
  <2>3. InvOf(s, spi, tx, peer, host)
    BY <2>2, UsageKeeps
  <2>4. /\ s.active = s0.active /\ s.faulted = s0.faulted /\ s.target = s0.target
        /\ s.flight = s0.flight /\ s.reports = s0.reports /\ s.usage = s0.usage
        /\ s.pending = s0.pending /\ s.part = s0.part
        /\ s.committed = s0.committed /\ s.staged = s0.staged /\ s.usageStaged = v
    BY <2>1, <2>2 DEF WithUsage, SessionTypes
  <2>5. s0.flight # "consumer"
    BY <2>1, <2>2 DEF SessionInv, UsageInv, ToldReports, Eligible
  <2> QED BY <1>2, <2>3, <2>4, <2>5 DEF SameVoice, Spoken, Mild, Unsaid, AllReleased
<1> QED BY <1>1, <1>2

(* The knob, as one service sees it: a release is due, or what it holds.   *)
LEMMA KnobFields ==
  ASSUME NEW x0 \in AuxTypes, NEW allowed \in BOOLEAN, NEW k \in Pulses(Watched(x0, allowed))
  PROVE  /\ k \in AuxTypes /\ k.usage = x0.usage /\ k.allowed = allowed
         /\ ~k.release => ~x0.release
         /\ Wanted(k) \in UsageTypes
         /\ x0.usage = NoUsage /\ ~allowed /\ Wants(k) => Wanted(k) = NoUsage
<1> DEFINE k0 == IF ~allowed /\ x0.allowed THEN AuxCancelled(x0) ELSE x0
           k1 == Watched(x0, allowed)
<1>1. k0 \in AuxTypes /\ k0.usage = x0.usage /\ (~k0.release => ~x0.release)
  BY CancelledFields
<1>2. k1 = [k0 EXCEPT !.allowed = allowed]
  BY DEF Watched
<1> HIDE DEF k0
<1>3. k1 \in AuxTypes /\ k1.usage = x0.usage /\ (~k1.release => ~x0.release) /\ k1.allowed = allowed
  BY <1>1, <1>2 DEF AuxTypes
<1>4. k \in {k1, [k1 EXCEPT !.release = TRUE]}
  BY DEF Pulses
<1> HIDE DEF k1
<1>5. /\ k \in AuxTypes /\ k.usage = x0.usage /\ k.allowed = allowed
      /\ ~k.release => ~x0.release
  BY <1>3, <1>4 DEF AuxTypes
<1>6. Wanted(k) \in UsageTypes
  BY <1>5 DEF Wanted, AuxTypes, UsageTypes
<1> QED BY <1>5, <1>6 DEF Wanted, Wants

LEMMA TurnedFields ==
  ASSUME NEW k \in AuxTypes, NEW k1 \in Turned(k)
  PROVE  k1 \in AuxTypes /\ k1.usage = k.usage /\ k1.release = k.release
  BY DEF Turned, AuxTypes, UsageTypes

LEMMA PulsedFields ==
  ASSUME NEW k \in AuxTypes, Wants(k)
  PROVE  Pulsed(k) \in AuxTypes /\ Pulsed(k).usage = Wanted(k) /\ ~Pulsed(k).release
<1>1. CASE k.release
  BY <1>1 DEF Pulsed, Wanted, AuxTypes, UsageTypes
<1>2. CASE ~k.release
  BY <1>2 DEF Pulsed, Wanted, AuxTypes, UsageTypes
<1> QED BY <1>1, <1>2

(* What the second step comes to: a report that was sent or not, and a     *)
(* usage that was taken or not.                                            *)
Output(sent, took, armed, report, v) ==
    /\ InvOf(w', spi, tx, peer, host) /\ SameVoice(w, w') /\ Mild(w')
    /\ (sent => report = {}) /\ (took => v = NoUsage) /\ Unsaid(w) => Unsaid(w')
    /\ c.current = "usb" => w' = w
    /\ armed => a.armed /\ l.enabled
    /\ ~armed => report = {}
    /\ ~armed /\ x.usage = NoUsage /\ took => v = NoUsage
    /\ a' \in ApplicationTypes /\ a'.armed = armed
    /\ IF sent THEN a'.sentValid /\ a'.sent = report
       ELSE a'.sentValid = a.sentValid /\ a'.sent = a.sent
    /\ u' \in UsbTypes /\ u'.state = u.state /\ u'.stale = u.stale
    /\ IF sent /\ c.current = "usb" THEN ~u.busy /\ u'.busy /\ u'.hid = report
       ELSE u'.busy = u.busy /\ u'.hid = u.hid
    /\ IF took /\ c.current = "usb" THEN u'.cbusy /\ u'.cons = v
       ELSE u'.cbusy = u.cbusy /\ u'.cons = u.cons
    /\ x' \in AuxTypes
    /\ IF took THEN x'.usage = v ELSE x'.usage = x.usage /\ (~x'.release => ~x.release)
    /\ l' \in OwnerTypes /\ l'.attempted = l.attempted /\ l'.fault = l.fault
    /\ l'.enabled = l.enabled

LEMMA OutputFields ==
  ASSUME LinkInv, LoopOut
  PROVE  \E sent, took, armed \in BOOLEAN, report \in SUBSET Keys, v \in UsageTypes :
            Output(sent, took, armed, report, v)
<1>1. /\ u \in UsbTypes /\ c \in ControlTypes /\ a \in ApplicationTypes /\ x \in AuxTypes
      /\ l \in OwnerTypes /\ InvOf(w, spi, tx, peer, host) /\ Mild(w)
  BY LinkParts DEF WirelessInv, SilenceInv
<1>2. PICK fresh \in BOOLEAN, sent \in BOOLEAN :
        LET b == IF fresh THEN a ELSE Disarmed(a)
            report == Report(b)
            u1 == IF sent THEN UsbWithReport(u, report) ELSE u
            w1 == IF sent THEN RadioWithReport(w, report) ELSE w
        IN  /\ fresh => l.enabled
            /\ IF TakesReport(report) THEN sent \/ (b.sentValid /\ b.sent = report) ELSE ~sent
            /\ l' = [l EXCEPT !.fresh = fresh]
            /\ a' = Sent(b, report, sent)
            /\ \E k \in Pulses(Watched(x, fresh /\ OutputReady(c.current) /\ b.armed /\ c.phase = "idle")) :
                  IF Wants(k) /\ TakesConsumer(w1, Wanted(k))
                  THEN /\ x' \in Turned(Pulsed(k))
                       /\ u' = UsbWithUsage(u1, Wanted(k)) /\ w' = RadioWithUsage(w1, Wanted(k))
                  ELSE x' \in Turned(k) /\ u' = u1 /\ w' = w1
  BY DEF LoopOut
<1> DEFINE b == IF fresh THEN a ELSE Disarmed(a)
           report == Report(b)
           u1 == IF sent THEN UsbWithReport(u, report) ELSE u
           w1 == IF sent THEN RadioWithReport(w, report) ELSE w
<1>3. PICK allowed \in BOOLEAN :
         allowed = (fresh /\ OutputReady(c.current) /\ b.armed /\ c.phase = "idle")
  OBVIOUS
<1>4. /\ fresh => l.enabled
      /\ sent => TakesReport(report)
      /\ l' = [l EXCEPT !.fresh = fresh]
      /\ a' = Sent(b, report, sent)
  BY <1>2
<1>5. PICK k \in Pulses(Watched(x, allowed)) :
         IF Wants(k) /\ TakesConsumer(w1, Wanted(k))
         THEN /\ x' \in Turned(Pulsed(k))
              /\ u' = UsbWithUsage(u1, Wanted(k)) /\ w' = RadioWithUsage(w1, Wanted(k))
         ELSE x' \in Turned(k) /\ u' = u1 /\ w' = w1
  BY <1>2, <1>3
<1>6. /\ b \in ApplicationTypes /\ b.sent = a.sent /\ b.sentValid = a.sentValid
      /\ b.armed => a.armed /\ l.enabled
      /\ report \in SUBSET Keys /\ (~b.armed => report = {})
  BY <1>1, <1>4, AbortedFields DEF Report, ApplicationTypes
<1>7. allowed => b.armed
  BY <1>3
<1> HIDE DEF b, report
<1>8. /\ a' \in ApplicationTypes /\ a'.armed = b.armed
      /\ IF sent THEN a'.sentValid /\ a'.sent = report
         ELSE a'.sentValid = a.sentValid /\ a'.sent = a.sent
  BY <1>4, <1>6 DEF Sent, ApplicationTypes
<1>9. /\ l' \in OwnerTypes /\ l'.attempted = l.attempted /\ l'.fault = l.fault
      /\ l'.enabled = l.enabled
  BY <1>1, <1>4 DEF OwnerTypes
<1>10. /\ u1 \in UsbTypes /\ u1.state = u.state /\ u1.stale = u.stale
       /\ IF sent /\ c.current = "usb" THEN ~u.busy /\ u1.busy /\ u1.hid = report
          ELSE u1.busy = u.busy /\ u1.hid = u.hid
       /\ u1.cbusy = u.cbusy /\ u1.cons = u.cons
  <2>1. CASE sent /\ c.current = "usb"
    <3>1. u1 = [u EXCEPT !.busy = TRUE, !.hid = report] /\ ~u.busy
      BY <1>4, <2>1 DEF UsbWithReport, TakesReport
    <3> QED BY <1>1, <1>6, <2>1, <3>1 DEF UsbTypes
  <2>2. CASE ~(sent /\ c.current = "usb")
    BY <1>1, <2>2 DEF UsbWithReport
  <2> QED BY <2>1, <2>2
<1>11. /\ InvOf(w1, spi, tx, peer, host) /\ SameVoice(w, w1) /\ Mild(w1)
       /\ (sent => report = {}) /\ Unsaid(w) => Unsaid(w1)
       /\ c.current = "usb" => w1 = w
  <2>1. CASE sent
    BY <1>4, <1>6, <2>1, ReportTaken
  <2>2. CASE ~sent
    BY <1>1, <2>2 DEF SameVoice
  <2> QED BY <2>1, <2>2
<1> HIDE DEF u1, w1
<1>12. /\ k \in AuxTypes /\ k.usage = x.usage /\ k.allowed = allowed
       /\ ~k.release => ~x.release
       /\ Wanted(k) \in UsageTypes
       /\ x.usage = NoUsage /\ ~allowed /\ Wants(k) => Wanted(k) = NoUsage
  BY <1>1, KnobFields
<1>13. PICK took \in BOOLEAN : took = (Wants(k) /\ TakesConsumer(w1, Wanted(k)))
  OBVIOUS
<1> DEFINE v == Wanted(k)
<1>14. CASE took
  <2>1. x' \in Turned(Pulsed(k)) /\ u' = UsbWithUsage(u1, v) /\ w' = RadioWithUsage(w1, v)
        /\ Wants(k) /\ TakesConsumer(w1, v)
    BY <1>5, <1>13, <1>14
  <2>2. x' \in AuxTypes /\ x'.usage = v
    BY <1>12, <2>1, PulsedFields, TurnedFields
  <2>3. /\ u' \in UsbTypes /\ u'.state = u1.state /\ u'.stale = u1.stale
        /\ u'.busy = u1.busy /\ u'.hid = u1.hid
        /\ IF c.current = "usb" THEN u'.cbusy /\ u'.cons = v
           ELSE u'.cbusy = u1.cbusy /\ u'.cons = u1.cons
    <3>1. CASE c.current = "usb"
      <4>1. u' = [u1 EXCEPT !.cbusy = TRUE, !.cons = v]
        BY <2>1, <3>1 DEF UsbWithUsage
      <4> HIDE DEF v
      <4> QED BY <1>10, <1>12, <3>1, <4>1 DEF UsbTypes, v
    <3>2. CASE c.current # "usb"
      BY <1>10, <2>1, <3>2 DEF UsbWithUsage
    <3> QED BY <3>1, <3>2
  <2>4. /\ InvOf(w', spi, tx, peer, host) /\ SameVoice(w, w')
        /\ Mild(w') /\ (v = NoUsage /\ Unsaid(w1) => Unsaid(w'))
        /\ c.current = "usb" => w' = w
    BY <1>11, <1>12, <2>1, UsageTaken
  <2> HIDE DEF v
  <2>5. v \in UsageTypes /\ (~b.armed /\ x.usage = NoUsage => v = NoUsage)
    BY <1>7, <1>12, <2>1 DEF v
  <2>6. Output(sent, took, b.armed, report, v)
    BY <1>6, <1>8, <1>9, <1>10, <1>11, <1>14, <2>2, <2>3, <2>4, <2>5 DEF Output
  <2> QED BY <1>6, <2>5, <2>6 DEF ApplicationTypes
<1>15. CASE ~took
  <2>1. x' \in Turned(k) /\ u' = u1 /\ w' = w1
    BY <1>5, <1>13, <1>15
  <2>2. x' \in AuxTypes /\ x'.usage = k.usage /\ x'.release = k.release
    BY <1>12, <2>1, TurnedFields
  <2>3. Output(sent, took, b.armed, report, NoUsage)
    BY <1>6, <1>8, <1>9, <1>10, <1>11, <1>12, <1>15, <2>1, <2>2 DEF Output
  <2> QED BY <1>6, <2>3 DEF ApplicationTypes, UsageTypes
<1> QED BY <1>14, <1>15

LEMMA LoopOutKeeps == ASSUME LinkInv, LoopOut PROVE LinkInv'
<1>1. /\ SwitchInv /\ SilenceInv /\ EndpointInv /\ UsbSentInv
      /\ u \in UsbTypes /\ c \in ControlTypes /\ t \in TransportTypes /\ x \in AuxTypes
      /\ l \in OwnerTypes
  BY LinkParts
<1>2. PICK sent \in BOOLEAN, took \in BOOLEAN, armed \in BOOLEAN, report \in SUBSET Keys,
           v \in UsageTypes : Output(sent, took, armed, report, v)
  BY OutputFields
<1>3. /\ spi' = spi /\ tx' = tx /\ peer' = peer /\ host' = host /\ c' = c /\ t' = t
      /\ pc' = "controls"
  BY DEF LoopOut
<1>4. InvOf(w', spi, tx, peer, host) /\ SameVoice(w, w') /\ Mild(w')
  BY <1>2 DEF Output
<1>5. LinkTypeOK'
  BY <1>1, <1>2, <1>3 DEF LinkTypeOK, Output
<1>6. Parted' <=> Parted
  BY <1>2 DEF Parted, Output
<1>7. Parted => report = {} /\ (took => v = NoUsage) /\ x'.usage = NoUsage
  <2>1. Parted => ~armed /\ x.usage = NoUsage
    BY <1>1, <1>2 DEF Parted, SwitchInv, SilenceInv, Output
  <2> QED BY <1>2, <2>1 DEF Output
<1>8. SwitchInv'
  <2>1. RadioFollowsControls'
    BY <1>1, <1>2, <1>3, <1>4 DEF SwitchInv, RadioFollowsControls, Healthy, SameVoice, Output
  <2> QED BY <1>1, <1>2, <1>3, <2>1 DEF SwitchInv, Output
<1>9. SilenceInv'
  <2>1. Parted \/ c.current = "usb" => Unsaid(w')
    BY <1>1, <1>2, <1>7 DEF SilenceInv, Output
  <2>2. Parted \/ c.current # "usb" => u'.hid = {} /\ u'.cons = NoUsage
    BY <1>1, <1>2, <1>7 DEF SilenceInv, Output
  <2>3. Parted => x'.usage = NoUsage /\ (a'.sentValid => a'.sent = {})
    BY <1>1, <1>2, <1>7 DEF SilenceInv, Output
  <2>4. ASSUME NEW h \in Modes, Left(h)' PROVE Silenced(host[h])
    <3>1. Left(h)
      BY <1>3, <1>4, <1>6, <2>4 DEF Left, SameVoice, Alive
    <3> QED BY <1>1, <3>1 DEF SilenceInv
  <2> QED BY <1>3, <1>4, <1>6, <2>1, <2>2, <2>3, <2>4 DEF SilenceInv
<1>10. EndpointInv'
  BY <1>1, <1>2, <1>3 DEF EndpointInv, Output
<1>11. UsbSentInv'
  <2> SUFFICES ASSUME c.current = "usb", UsbReady
               PROVE  /\ a'.sentValid => IF u'.busy THEN u'.hid = a'.sent
                                         ELSE host["usb"].list \subseteq a'.sent
                      /\ ~x'.release => IF u'.cbusy THEN u'.cons = x'.usage
                                        ELSE host["usb"].usage \in {NoUsage, x'.usage}
    BY <1>2, <1>3 DEF UsbSentInv, UsbReady, UsbUp, Output
  <2>1. a'.sentValid => IF u'.busy THEN u'.hid = a'.sent ELSE host["usb"].list \subseteq a'.sent
    BY <1>1, <1>2 DEF UsbSentInv, Output
  <2>2. ~x'.release => IF u'.cbusy THEN u'.cons = x'.usage
                       ELSE host["usb"].usage \in {NoUsage, x'.usage}
    BY <1>1, <1>2 DEF UsbSentInv, Output
  <2> QED BY <2>1, <2>2
<1> QED BY <1>3, <1>4, <1>5, <1>8, <1>9, <1>10, <1>11 DEF LinkInv, UsbInv, WirelessInv

-----------------------------------------------------------------------------
(* The third step: a switch begins only over an output path that holds     *)
(* nothing.                                                                *)
Empty ==
    /\ Unsaid(w) /\ Mild(w)
    /\ u.hid = {} /\ u.cons = NoUsage
    /\ x.usage = NoUsage
    /\ \A h \in Modes : Silenced(host[h])

LEMMA SwitchIsSilent == ASSUME LinkInv, MaySwitch PROVE Empty
<1>1. /\ SwitchInv /\ SilenceInv /\ EndpointInv /\ UsbSentInv /\ WirelessInv /\ c.current \in Modes
      /\ a.sentValid /\ a.sent = {}
  BY LinkParts DEF MaySwitch
<1>2. CASE Parted
  BY <1>1, <1>2 DEF Empty, SilenceInv, Left
<1>3. CASE ~Parted
  <2>1. KnobIdle(x) /\ IF c.current = "usb" THEN UsbReady /\ UsbDrained
                      ELSE RadioMode(c.current) /\ SwitchReady
    BY <1>3 DEF MaySwitch, Drained, Parted
  <2>2. ~x.release /\ x.usage = NoUsage
    BY <2>1 DEF KnobIdle
  <2>3. CASE c.current = "usb"
    <3>1. UsbReady /\ ~u.busy /\ ~u.cbusy
      BY <2>1, <2>3 DEF UsbDrained
    <3>2. Silenced(host["usb"])
      BY <1>1, <2>2, <2>3, <3>1 DEF UsbSentInv, EndpointInv, Silenced, Holds
    <3> QED BY <1>1, <2>2, <2>3, <3>1, <3>2 DEF Empty, SilenceInv, EndpointInv, Left
  <2>4. CASE c.current # "usb"
    <3>1. /\ AllReleased(w) /\ Alive(w) /\ w.flight = "none"
          /\ w.usage = NoUsage /\ (w.usagePending => w.usageStaged = NoUsage)
          /\ peer.link = "reports" => Silenced(host[peer.mode])
      BY <1>1, <2>1, <2>4, SwitchReadyHost
    <3>2. Silenced(host[c.current])
      <4>1. CASE ~Spoken(w)
        BY <1>1, <2>4, <3>1, <4>1 DEF SilenceInv, Left
      <4>2. CASE Spoken(w)
        <5>1. peer.mode = c.current
          BY <1>1, <2>1, <2>4, <4>2, OwnerParts DEF RadioMode, PeerInv
        <5>2. peer.link = "reports" \/ Mute(host[c.current])
          BY <1>1, <4>2, <5>1, OwnerParts DEF PeerInv
        <5> QED BY <3>1, <5>1, <5>2 DEF Mute, Silenced
      <4> QED BY <4>1, <4>2
    <3> QED BY <1>1, <2>2, <2>4, <3>1, <3>2 DEF Empty, SilenceInv, Left, Unsaid
  <2> QED BY <2>3, <2>4
<1> QED BY <1>2, <1>3

(* A switch that is given up: what had begun of it is a fault.             *)
LEMMA SwitchFailsKeeps == ASSUME LinkInv, SwitchFails, pc' = "input" PROVE LinkInv'
<1>1. /\ WirelessInv /\ SwitchInv /\ SilenceInv /\ EndpointInv /\ UsbSentInv
      /\ u \in UsbTypes /\ c \in ControlTypes /\ t \in TransportTypes
      /\ a \in ApplicationTypes /\ x \in AuxTypes /\ l \in OwnerTypes
  BY LinkParts
<1>2. /\ c' = Abandoned(c) /\ x' = AuxCancelled(x) /\ l' = Forgotten(l)
      /\ a' = (IF l.attempted THEN Aborted(a) ELSE a)
      /\ UNCHANGED wirelessVars /\ u' = u /\ t' = t
  BY DEF SwitchFails
<1>3. /\ w' = w /\ spi' = spi /\ tx' = tx /\ peer' = peer /\ host' = host
  BY <1>2 DEF wirelessVars
<1>4. c' \in ControlTypes /\ c'.current = c.current /\ c'.phase = "idle"
  BY <1>1, <1>2, AbandonedFields
<1>5. x' \in AuxTypes /\ x'.release /\ x'.usage = x.usage
  BY <1>1, <1>2, CancelledFields
<1>6. /\ a' \in ApplicationTypes
      /\ a'.sentValid => a' = a
  BY <1>1, <1>2, AbortedFields
<1>7. /\ l' \in OwnerTypes /\ ~l'.attempted /\ l'.fault = (l.fault \/ l.attempted)
      /\ l'.enabled = (l.enabled /\ ~l.attempted)
  <2> DEFINE b == Blamed(l)
  <2>1. /\ b \in OwnerTypes /\ b.fault = (l.fault \/ l.attempted)
        /\ b.enabled = (l.enabled /\ ~l.attempted)
        /\ l' = [b EXCEPT !.fresh = FALSE, !.attempted = FALSE]
    BY <1>1, <1>2, BlamedFields DEF Forgotten
  <2> HIDE DEF b
  <2> QED BY <2>1 DEF OwnerTypes
<1>8. Parted' <=> Parted
  BY <1>7 DEF Parted
<1>9. LinkTypeOK'
  BY <1>1, <1>2, <1>4, <1>5, <1>6, <1>7 DEF LinkTypeOK
<1>10. SwitchInv'
  BY <1>1, <1>3, <1>4, <1>7 DEF SwitchInv, RadioFollowsControls, Healthy
<1>11. SilenceInv'
  BY <1>1, <1>2, <1>3, <1>4, <1>5, <1>6, <1>8 DEF SilenceInv, Left
<1>12. EndpointInv' /\ UsbSentInv'
  BY <1>1, <1>2, <1>3, <1>4, <1>5, <1>6 DEF EndpointInv, UsbSentInv, UsbReady, UsbUp
<1> QED BY <1>1, <1>3, <1>9, <1>10, <1>11, <1>12 DEF LinkInv, UsbInv, WirelessInv

(* No switch is due, or it waits for its conditions.                       *)
Rests ==
    /\ c.phase = "switching" => l.fresh
    /\ c' = IF l.fresh THEN c ELSE Abandoned(c)
    /\ l' = [l EXCEPT !.fresh = FALSE] /\ UNCHANGED <<wirelessVars, u, t, a, x>>

LEMMA RestsKeeps == ASSUME LinkInv, Rests, pc' = "input" PROVE LinkInv'
<1>1. /\ WirelessInv /\ SwitchInv /\ SilenceInv /\ EndpointInv /\ UsbSentInv
      /\ u \in UsbTypes /\ c \in ControlTypes /\ t \in TransportTypes
      /\ a \in ApplicationTypes /\ x \in AuxTypes /\ l \in OwnerTypes
  BY LinkParts
<1>2. /\ w' = w /\ spi' = spi /\ tx' = tx /\ peer' = peer /\ host' = host
      /\ u' = u /\ t' = t /\ a' = a /\ x' = x
  BY DEF Rests, wirelessVars
<1>3. /\ l' \in OwnerTypes /\ l'.attempted = l.attempted /\ l'.fault = l.fault
      /\ l'.enabled = l.enabled
  BY <1>1 DEF Rests, OwnerTypes
<1>4. /\ c' \in ControlTypes /\ c'.current = c.current
      /\ c' = c \/ (c'.phase = "idle" /\ c.phase # "switching")
  BY <1>1, AbandonedFields DEF Rests
<1>5. LinkTypeOK'
  BY <1>1, <1>2, <1>3, <1>4 DEF LinkTypeOK
<1>6. SwitchInv'
  BY <1>1, <1>2, <1>3, <1>4 DEF SwitchInv, RadioFollowsControls, Healthy
<1>7. SilenceInv' /\ EndpointInv' /\ UsbSentInv'
  BY <1>1, <1>2, <1>3, <1>4
     DEF SilenceInv, Left, Parted, EndpointInv, UsbSentInv, UsbReady, UsbUp
<1> QED BY <1>1, <1>2, <1>5, <1>6, <1>7 DEF LinkInv, UsbInv, WirelessInv

(* What a selection does with the radio, and that it tells no host to      *)
(* press anything.                                                         *)
StaysEmpty ==
    /\ WirelessInv' /\ Unsaid(w') /\ Mild(w')
    /\ \A h \in Modes : Silenced(host'[h])
    /\ host'["usb"] \in {host["usb"], Quiet}

LEMMA SelectStartsEmpty ==
  ASSUME LinkInv, Empty, SelectStarts PROVE StaysEmpty /\ t' \in TransportTypes
<1>1. /\ w \in SessionTypes /\ peer \in PeerTypes /\ host \in [Modes -> HostTypes]
      /\ InvOf(w, spi, tx, peer, host) /\ t \in TransportTypes /\ c \in ControlTypes
  BY LinkParts, OwnerParts
<1>2. /\ peer' = [peer EXCEPT !.asleep = "none", !.link = "search"]
      /\ host' = [host EXCEPT ![peer.mode] = Quiet] /\ w' = Stopped(w) /\ spi' = "pulse" /\ tx' = Idle
      /\ t' = [Selecting(t) EXCEPT !.starting = TRUE]
  BY DEF SelectStarts
<1>3. peer' \in PeerTypes /\ peer'.mode = peer.mode /\ peer'.link = "search" /\ peer'.asleep = "none"
  BY <1>1, <1>2, PeerFields DEF Commands
<1>4. host' \in [Modes -> HostTypes] /\ host'[peer'.mode] = Quiet
  <2>1. peer.mode \in Modes
    BY <1>1 DEF PeerTypes
  <2> QED BY <1>1, <1>2, <1>3, <2>1, QuietHosts
<1>5. w.target \in Modes /\ w' \in {Failed(w), Stopped(w)}
  BY <1>1, <1>2 DEF SessionTypes
<1>6. InvOf(w', "off", Idle, peer, host)
  BY <1>1, <1>5, EndedKeeps
<1>7. Unsaid(w') /\ Mild(w') /\ ~Alive(w') /\ ~w'.linked /\ w'.flight = "none"
  BY <1>5, EndedLeads, EndedFields
<1>8. WirelessInv'
  <2>1. TypesOK(w', "pulse", Idle, peer', host')
    BY <1>3, <1>4, <1>6 DEF TypesOK, HalStates, InvOf
  <2>2. WireInv(w', "pulse", Idle) /\ SessionInv(w')
    BY <1>6, <1>7 DEF WireInv, InvOf
  <2>3. PeerInv(w', "pulse", peer', host')
    BY <1>3, <1>4, <1>6, <1>7, QuietHost DEF PeerInv, InvOf
  <2>4. HostInv(w', "pulse", host'[peer'.mode])
    BY <1>4, QuietHost
  <2> QED BY <1>2, <2>1, <2>2, <2>3, <2>4 DEF WirelessInv, InvOf
<1>9. ASSUME NEW h \in Modes PROVE host'[h] \in {host[h], Quiet}
  BY <1>1, <1>2 DEF PeerTypes
<1>10. t' \in TransportTypes
  <2>1. PICK m \in Modes \cup {"none"} : Owner = m
    BY <1>1 DEF Owner, TransportTypes, ControlTypes
  <2>2. Selecting(t) = [t EXCEPT !.selecting = TRUE, !.requested = m]
    BY <2>1 DEF Selecting
  <2> QED BY <1>1, <1>2, <2>2 DEF TransportTypes
<1> QED BY <1>7, <1>8, <1>9, <1>10, QuietHost, WirelessConstants DEF StaysEmpty, Empty

LEMMA SelectingTypes ==
  ASSUME t \in TransportTypes, c \in ControlTypes
  PROVE  Selecting(t) \in TransportTypes /\ Selecting(t).starting = t.starting
<1>1. PICK m \in Modes \cup {"none"} : Owner = m
  BY DEF Owner, TransportTypes, ControlTypes
<1>2. Selecting(t) = [t EXCEPT !.selecting = TRUE, !.requested = m]
  BY <1>1 DEF Selecting
<1> QED BY <1>2 DEF TransportTypes

(* The radio as it is, or with a session that has said nothing yet.        *)
LEMMA SameEmpty ==
  ASSUME LinkInv, Empty, UNCHANGED wirelessVars PROVE StaysEmpty
<1>1. w' = w /\ spi' = spi /\ tx' = tx /\ peer' = peer /\ host' = host
  BY DEF wirelessVars
<1> QED BY <1>1, LinkParts DEF StaysEmpty, Empty, WirelessInv

LEMMA BegunEmpty ==
  ASSUME LinkInv, Empty, WirelessInv', host' = host,
         w'.committed = Released, w'.staged = Released,
         w'.usage = NoUsage, w'.usageStaged = NoUsage
  PROVE  StaysEmpty
  BY DEF StaysEmpty, Empty, Unsaid, Mild, AllReleased

LEMMA SelectEmpty ==
  ASSUME LinkInv, Empty, c.target \in Modes,
         SelectStarts \/ SelectWaits \/ SelectInits \/ SelectSwitches
  PROVE  StaysEmpty /\ t' \in TransportTypes
<1>1. /\ t \in TransportTypes /\ c \in ControlTypes /\ WirelessInv /\ w \in SessionTypes
  BY LinkParts, OwnerParts
<1>2. CASE SelectStarts
  BY <1>2, SelectStartsEmpty
<1>3. CASE SelectWaits
  BY <1>1, <1>3, SameEmpty, SelectingTypes DEF SelectWaits
<1>4. CASE SelectInits
  <2>1. WirelessInit(c.target) /\ t' = [Selecting(t) EXCEPT !.starting = FALSE]
    BY <1>4 DEF SelectInits
  <2>2. t' \in TransportTypes
    <3> DEFINE t1 == Selecting(t)
    <3>1. t1 \in TransportTypes /\ t' = [t1 EXCEPT !.starting = FALSE]
      BY <1>1, <2>1, SelectingTypes
    <3> HIDE DEF t1
    <3> QED BY <3>1 DEF TransportTypes
  <2>3. WirelessInv'
    BY <1>1, <2>1, InitKeeps
  <2>4. w' = Session(c.target) /\ host' = host
    BY <2>1 DEF WirelessInit
  <2> QED BY <2>2, <2>3, <2>4, BegunEmpty DEF Session
<1>5. CASE SelectSwitches
  <2>1. Select(c.target) /\ t' = Selecting(t)
    BY <1>5 DEF SelectSwitches
  <2>2. WirelessInv'
    BY <1>1, <2>1, SelectKeeps
  <2>3. w' = Retargeted(c.target) /\ host' = host
    BY <2>1 DEF Select
  <2>4. /\ w'.committed = Released /\ w'.staged = Released
        /\ w'.usage = NoUsage /\ w'.usageStaged = NoUsage
    BY <1>1, <2>3, RetargetedFields
  <2> QED BY <1>1, <2>1, <2>2, <2>3, <2>4, BegunEmpty, SelectingTypes
<1> QED BY <1>2, <1>3, <1>4, <1>5

LEMMA PairEmpty ==
  ASSUME LinkInv, Empty, RequestPair PROVE StaysEmpty
<1>1. WirelessInv /\ w \in SessionTypes
  BY LinkParts, OwnerParts
<1>2. WirelessInv' /\ w' = Pairing(w) /\ host' = host
  BY <1>1, PairKeeps DEF RequestPair, Pairing
<1>3. /\ w'.flight = w.flight /\ w'.reports = w.reports
      /\ w'.committed = w.committed /\ w'.staged = w.staged
      /\ w'.usage = w.usage /\ w'.usageStaged = w.usageStaged /\ w'.usagePending = w.usagePending
  BY <1>1, <1>2, PairFields
<1> QED BY <1>2, <1>3 DEF StaysEmpty, Empty, Unsaid, Mild, AllReleased

(* A step of a physical selection: the controls stay at it.                *)
LEMMA AttemptKeeps ==
  ASSUME LinkInv, Empty, MaySwitch, StaysEmpty, Attempts, t' \in TransportTypes, u' = u, pc' = "input"
  PROVE  LinkInv'
<1>1. /\ SwitchInv /\ EndpointInv
      /\ u \in UsbTypes /\ c \in ControlTypes
      /\ a \in ApplicationTypes /\ x \in AuxTypes /\ l \in OwnerTypes
  BY LinkParts
<1>2. c' = c /\ a' = a /\ x' = x /\ l' = [l EXCEPT !.attempted = TRUE, !.fresh = FALSE]
  BY DEF Attempts
<1>3. l' \in OwnerTypes /\ l'.attempted /\ l'.fault = l.fault /\ l'.enabled = l.enabled
  BY <1>1, <1>2 DEF OwnerTypes
<1>4. /\ WirelessInv' /\ Unsaid(w') /\ Mild(w') /\ (\A h \in Modes : Silenced(host'[h]))
      /\ host'["usb"] \in {host["usb"], Quiet}
  BY DEF StaysEmpty
<1>5. c.phase = "switching" /\ a.sent = {} /\ x.usage = NoUsage /\ u.hid = {} /\ u.cons = NoUsage
  BY DEF MaySwitch, Empty
<1>6. LinkTypeOK'
  BY <1>1, <1>2, <1>3 DEF LinkTypeOK
<1>7. SwitchInv'
  BY <1>1, <1>2, <1>3, <1>5 DEF SwitchInv, RadioFollowsControls
<1>8. SilenceInv'
  BY <1>2, <1>4, <1>5 DEF SilenceInv
<1>9. EndpointInv'
  BY <1>1, <1>4 DEF EndpointInv, Quiet
<1>10. host'["usb"].list = {} /\ host'["usb"].usage = NoUsage
  BY <1>4, <1>9, WirelessConstants DEF EndpointInv, Silenced, Holds
<1>11. UsbSentInv'
  BY <1>2, <1>5, <1>10 DEF UsbSentInv
<1> QED BY <1>4, <1>6, <1>7, <1>8, <1>9, <1>11 DEF LinkInv, UsbInv

(* A selection that is over: the controls name the radio's target.         *)
LEMMA ChangeKeeps ==
  ASSUME LinkInv, Empty, MaySwitch, Changes, UNCHANGED wirelessVars,
         Healthy => w.target = c.target, t' \in TransportTypes, u' = u, pc' = "input"
  PROVE  LinkInv'
<1>1. /\ WirelessInv /\ SwitchInv /\ EndpointInv
      /\ u \in UsbTypes /\ c \in ControlTypes
      /\ a \in ApplicationTypes /\ x \in AuxTypes /\ l \in OwnerTypes
  BY LinkParts
<1>2. w' = w /\ spi' = spi /\ tx' = tx /\ peer' = peer /\ host' = host
  BY DEF wirelessVars
<1>3. c.target \in Modes
  BY <1>1 DEF SwitchInv, MaySwitch
<1>4. c' \in ControlTypes /\ c'.current = c.target /\ c'.phase = "idle"
  <2> DEFINE k == Abandoned(c)
  <2>1. k \in ControlTypes /\ k.phase = "idle" /\ c' = [k EXCEPT !.current = c.target]
    BY <1>1, AbandonedFields DEF Changes
  <2> HIDE DEF k
  <2> QED BY <1>3, <2>1 DEF ControlTypes
<1>5. a' \in ApplicationTypes /\ ~a'.sentValid
  BY <1>1 DEF Changes, ApplicationTypes
<1>6. x' \in AuxTypes /\ x'.release /\ x'.usage = NoUsage
  BY <1>1, CancelledFields DEF Changes, Empty
<1>7. l' \in OwnerTypes /\ ~l'.attempted /\ l'.fault = l.fault /\ l'.enabled = l.enabled
  BY <1>1 DEF Changes, OwnerTypes
<1>8. LinkTypeOK'
  BY <1>1, <1>4, <1>5, <1>6, <1>7 DEF LinkTypeOK
<1>9. SwitchInv'
  BY <1>1, <1>2, <1>4, <1>7 DEF SwitchInv, RadioFollowsControls, Healthy
<1>10. SilenceInv'
  BY <1>2, <1>5, <1>6 DEF SilenceInv, Empty
<1>11. EndpointInv' /\ UsbSentInv'
  BY <1>1, <1>2, <1>5, <1>6 DEF EndpointInv, UsbSentInv
<1> QED BY <1>1, <1>2, <1>8, <1>9, <1>10, <1>11 DEF LinkInv, UsbInv, WirelessInv

LEMMA LoopControlsKeeps == ASSUME LinkInv, LoopControls PROVE LinkInv'
<1>1. pc' = "input" /\ t \in TransportTypes /\ SwitchInv
  BY LinkParts DEF LoopControls
<1>2. CASE SwitchFails
  BY <1>1, <1>2, SwitchFailsKeeps
<1>3. CASE Rests
  BY <1>1, <1>3, RestsKeeps
<1>4. MaySwitch => Empty /\ c.target \in Modes
  BY <1>1, SwitchIsSilent DEF SwitchInv, MaySwitch
<1>5. CASE LoopSelect
  <2>1. MaySwitch /\ u' = u
    BY <1>5 DEF LoopSelect
  <2>2. CASE Attempts /\ UNCHANGED <<wirelessVars, t>>
    BY <1>1, <1>4, <2>1, <2>2, SameEmpty, AttemptKeeps
  <2>3. CASE (SelectStarts \/ SelectWaits \/ SelectInits \/ SelectSwitches) /\ Attempts
    BY <1>1, <1>4, <2>1, <2>3, SelectEmpty, AttemptKeeps
  <2>4. CASE /\ SelectDone /\ t' = [t EXCEPT !.selecting = FALSE, !.requested = "none"]
             /\ UNCHANGED wirelessVars
             /\ IF c.target = "usb" => UsbReady THEN Changes ELSE Attempts
    <3>1. t' \in TransportTypes
      BY <1>1, <2>4 DEF TransportTypes
    <3>2. Healthy => w.target = c.target
      BY <2>4 DEF SelectDone, Selected
    <3>3. CASE Changes
      BY <1>1, <1>4, <2>1, <2>4, <3>1, <3>2, <3>3, ChangeKeeps
    <3>4. CASE Attempts
      BY <1>1, <1>4, <2>1, <2>4, <3>1, <3>4, SameEmpty, AttemptKeeps
    <3> QED BY <2>4, <3>3, <3>4
  <2> QED BY <1>5, <2>2, <2>3, <2>4 DEF LoopSelect
<1>6. CASE LoopPair
  <2>1. MaySwitch /\ u' = u
    BY <1>6 DEF LoopPair
  <2>2. CASE (SelectStarts \/ SelectWaits \/ SelectInits \/ SelectSwitches) /\ Attempts
    BY <1>1, <1>4, <2>1, <2>2, SelectEmpty, AttemptKeeps
  <2>3. CASE /\ RequestPair /\ Attempts
             /\ t' = [t EXCEPT !.selecting = FALSE, !.pairing = TRUE, !.requested = c.target]
    <3>1. t' \in TransportTypes
      BY <1>1, <1>4, <2>1, <2>3 DEF TransportTypes
    <3> QED BY <1>1, <1>4, <2>1, <2>3, <3>1, PairEmpty, AttemptKeeps
  <2>4. CASE /\ UNCHANGED wirelessVars /\ Attempts
             /\ t' = [t EXCEPT !.selecting = FALSE, !.requested = "none"]
    <3>1. t' \in TransportTypes
      BY <1>1, <2>4 DEF TransportTypes
    <3> QED BY <1>1, <1>4, <2>1, <2>4, <3>1, SameEmpty, AttemptKeeps
  <2>5. CASE /\ UNCHANGED wirelessVars /\ RadioMode(c.target) /\ Changes
             /\ t' = [t EXCEPT !.pairing = FALSE, !.requested = "none"]
    <3>1. t' \in TransportTypes /\ (Healthy => w.target = c.target)
      BY <1>1, <2>5 DEF TransportTypes, RadioMode
    <3> QED BY <1>1, <1>4, <2>1, <2>5, <3>1, ChangeKeeps
  <2>6. CASE UNCHANGED wirelessVars /\ Attempts /\ UNCHANGED t
    BY <1>1, <1>4, <2>1, <2>6, SameEmpty, AttemptKeeps
  <2> QED BY <1>6, <2>2, <2>3, <2>4, <2>5, <2>6 DEF LoopPair
<1> QED BY <1>2, <1>3, <1>5, <1>6 DEF LoopControls, Rests

-----------------------------------------------------------------------------
(* The USB host: the radio's scheduler has nothing to do with it.          *)
LEMMA UsbHostKeeps ==
  ASSUME WirelessInv, w' = w, spi' = spi, tx' = tx, peer' = peer,
         host' \in [Modes -> HostTypes], \A h \in Modes \ {"usb"} : host'[h] = host[h]
  PROVE  WirelessInv'
<1>1. /\ InvOf(w, spi, tx, peer, host) /\ PeerInv(w, spi, peer, host) /\ SessionInv(w)
      /\ HostInv(w, spi, host[peer.mode]) /\ peer.mode \in Modes
  BY OwnerParts DEF PeerTypes
<1>2. CASE peer.mode # "usb"
  <2>1. host'[peer.mode] = host[peer.mode]
    BY <1>1, <1>2
  <2> QED BY <1>1, <2>1 DEF WirelessInv, InvOf, TypesOK, PeerInv
<1>3. CASE peer.mode = "usb"
  <2>1. ~w.linked /\ ~Spoken(w) /\ peer.link # "reports"
    BY <1>1, <1>3 DEF PeerInv, SessionInv
  <2>2. PeerInv(w, spi, peer, host')
    BY <1>1, <2>1 DEF PeerInv
  <2>3. HostInv(w, spi, host'[peer.mode])
    BY <2>1 DEF HostInv, ListSent, MapSent, Spoken
  <2> QED BY <1>1, <2>2, <2>3 DEF WirelessInv, InvOf, TypesOK
<1> QED BY <1>2, <1>3

LEMMA UsbStepKeeps ==
  ASSUME LinkInv, UNCHANGED <<w, spi, tx, peer, pc, c, t, a, x, l>>,
         host' \in [Modes -> HostTypes], \A h \in Modes \ {"usb"} : host'[h] = host[h],
         u' \in UsbTypes, u'.hid \in {u.hid, {}}, u'.cons \in {u.cons, NoUsage},
         Left("usb") => Silenced(host'["usb"]), EndpointInv', UsbSentInv'
  PROVE  LinkInv'
<1>1. WirelessInv /\ SwitchInv /\ SilenceInv /\ LinkTypeOK
  BY LinkParts DEF LinkInv
<1>2. WirelessInv'
  BY <1>1, UsbHostKeeps
<1>3. LinkTypeOK'
  BY <1>1 DEF LinkTypeOK
<1>4. SwitchInv'
  BY <1>1 DEF SwitchInv, RadioFollowsControls, Healthy
<1>5. (Parted' <=> Parted) /\ \A h : Left(h)' <=> Left(h)
  BY DEF Parted, Left
<1>6. SilenceInv'
  BY <1>1, <1>5 DEF SilenceInv
<1> QED BY <1>2, <1>3, <1>4, <1>6 DEF LinkInv, UsbInv

LEMMA UsbInterruptKeeps == ASSUME LinkInv, UsbInterrupt PROVE LinkInv'
<1>1. /\ u \in UsbTypes /\ a \in ApplicationTypes /\ x \in AuxTypes
      /\ EndpointInv /\ UsbSentInv /\ SilenceInv
      /\ host \in [Modes -> HostTypes] /\ "usb" \in Modes
  BY LinkParts, OwnerParts, WirelessConstants
<1>2. UNCHANGED <<w, spi, tx, peer, pc, c, t, a, x, l>>
  BY DEF UsbInterrupt
<1> DEFINE h == host["usb"]
<1>3. h \in HostTypes /\ u.hid \in SUBSET Keys /\ u.cons \in UsageTypes
  BY <1>1 DEF UsbTypes
<1>4. Left("usb") => Silenced(h) /\ u.hid = {} /\ u.cons = NoUsage
  BY <1>1 DEF Left, SilenceInv
<1>5. CASE UsbIn
  <2>1. /\ u.busy /\ u' = [u EXCEPT !.busy = FALSE, !.hid = {}]
        /\ host' = [host EXCEPT !["usb"] = [h EXCEPT !.list = u.hid]]
    BY <1>5 DEF UsbIn
  <2>2. /\ u' \in UsbTypes /\ u'.state = u.state /\ u'.stale = u.stale /\ ~u'.busy /\ u'.hid = {}
        /\ u'.cbusy = u.cbusy /\ u'.cons = u.cons
    BY <1>1, <2>1 DEF UsbTypes
  <2> DEFINE n == [h EXCEPT !.list = u.hid]
  <2>3. /\ n \in HostTypes /\ n.list = u.hid /\ n.map = h.map /\ n.usage = h.usage
        /\ n.torn = h.torn /\ n.stray = h.stray
    BY <1>3 DEF HostTypes
  <2> HIDE DEF n, h
  <2>4. /\ host' \in [Modes -> HostTypes] /\ host'["usb"] = n
        /\ \A m \in Modes \ {"usb"} : host'[m] = host[m]
    BY <1>1, <2>1, <2>3 DEF n
  <2>5. Left("usb") => Silenced(n)
    BY <1>1, <1>4, <2>3 DEF Silenced, Holds, EndpointInv, h
  <2>6. EndpointInv'
    BY <1>1, <2>2, <2>3, <2>4 DEF EndpointInv, h
  <2>7. UsbSentInv'
    BY <1>1, <1>2, <2>1, <2>2, <2>3, <2>4 DEF UsbSentInv, UsbReady, UsbUp, h
  <2> QED BY <1>2, <2>2, <2>4, <2>5, <2>6, <2>7, UsbStepKeeps
<1>6. CASE UsbConsumerIn
  <2>1. /\ u.cbusy /\ u' = [u EXCEPT !.cbusy = FALSE, !.cons = NoUsage]
        /\ host' = [host EXCEPT !["usb"] = [h EXCEPT !.usage = u.cons]]
    BY <1>6 DEF UsbConsumerIn
  <2>2. /\ u' \in UsbTypes /\ u'.state = u.state /\ u'.stale = u.stale /\ u'.busy = u.busy
        /\ u'.hid = u.hid /\ ~u'.cbusy /\ u'.cons = NoUsage
    BY <1>1, <2>1 DEF UsbTypes, UsageTypes
  <2> DEFINE n == [h EXCEPT !.usage = u.cons]
  <2>3. /\ n \in HostTypes /\ n.list = h.list /\ n.map = h.map /\ n.usage = u.cons
        /\ n.torn = h.torn /\ n.stray = h.stray
    BY <1>3 DEF HostTypes
  <2> HIDE DEF n, h
  <2>4. /\ host' \in [Modes -> HostTypes] /\ host'["usb"] = n
        /\ \A m \in Modes \ {"usb"} : host'[m] = host[m]
    BY <1>1, <2>1, <2>3 DEF n
  <2>5. Left("usb") => Silenced(n)
    BY <1>4, <2>3 DEF Silenced, Holds
  <2>6. EndpointInv'
    BY <1>1, <2>2, <2>3, <2>4 DEF EndpointInv, h
  <2>7. UsbSentInv'
    BY <1>1, <1>2, <2>1, <2>2, <2>3, <2>4 DEF UsbSentInv, UsbReady, UsbUp, h
  <2> QED BY <1>2, <2>2, <2>4, <2>5, <2>6, <2>7, UsbStepKeeps
<1>7. Detached \in UsbTypes /\ [Detached EXCEPT !.state = "on"] \in UsbTypes
  BY DEF Detached, UsbTypes, UsageTypes
<1>8. CASE UsbReset
  <2>1. u' = Detached /\ host' = [host EXCEPT !["usb"] = Quiet]
    BY <1>8 DEF UsbReset
  <2>2. /\ host' \in [Modes -> HostTypes] /\ host'["usb"] = Quiet
        /\ \A m \in Modes \ {"usb"} : host'[m] = host[m]
    BY <1>1, <2>1, QuietHost
  <2>3. EndpointInv' /\ UsbSentInv'
    BY <2>1, <2>2 DEF EndpointInv, UsbSentInv, UsbReady, UsbUp, Detached, Quiet
  <2> QED BY <1>2, <1>7, <2>1, <2>2, <2>3, QuietHost, UsbStepKeeps DEF Detached
<1>9. CASE UsbConfigured
  <2>1. u' = [Detached EXCEPT !.state = "on"] /\ host' = host
    BY <1>9 DEF UsbConfigured
  <2>2. EndpointInv' /\ UsbSentInv'
    BY <1>1, <2>1 DEF EndpointInv, UsbSentInv, UsbReady, UsbUp, Detached
  <2> QED BY <1>1, <1>2, <1>4, <1>7, <2>1, <2>2, UsbStepKeeps DEF Detached
<1>10. CASE UsbHalt
  <2>1. u' = [u EXCEPT !.stale = TRUE, !.busy = FALSE, !.hid = {}] /\ host' = host
    BY <1>10 DEF UsbHalt
  <2>2. /\ u' \in UsbTypes /\ u'.stale /\ ~u'.busy /\ u'.hid = {}
        /\ u'.cbusy = u.cbusy /\ u'.cons = u.cons
    BY <1>1, <2>1 DEF UsbTypes
  <2>3. EndpointInv' /\ UsbSentInv'
    BY <1>1, <2>1, <2>2 DEF EndpointInv, UsbSentInv, UsbReady
  <2> QED BY <1>1, <1>2, <1>4, <2>1, <2>2, <2>3, UsbStepKeeps
<1> QED BY <1>5, <1>6, <1>8, <1>9, <1>10 DEF UsbInterrupt

-----------------------------------------------------------------------------
(* The radio's wire and its peer: a host that the keyboard left hears      *)
(* nothing but releases.                                                   *)
LEMMA ToldIsSilent ==
  ASSUME LinkInv, WireDone, tx.kind \in {"keys", "bitmap", "consumer"}, peer.link = "reports",
         Left(peer.mode)
  PROVE  Silenced(host'[peer.mode])
<1>1. /\ w \in SessionTypes /\ WireInv(w, spi, tx) /\ SessionInv(w) /\ PeerInv(w, spi, peer, host)
      /\ HostInv(w, spi, host[peer.mode]) /\ tx \in PacketTypes
      /\ host \in [Modes -> HostTypes] /\ peer.mode \in Modes
      /\ SwitchInv /\ SilenceInv
  BY LinkParts, OwnerParts DEF PeerTypes
<1>2. /\ spi = "transfer" /\ w.flight = tx.kind /\ Alive(w) /\ Spoken(w)
      /\ host' = [host EXCEPT ![peer.mode] = Told(@, tx, GivenUp)]
  BY <1>1 DEF WireDone, WireInv, Spoken
<1>3. Parted
  <2>1. peer.mode = w.target /\ Healthy
    BY <1>1, <1>2 DEF PeerInv, Healthy, Alive
  <2> QED BY <1>1, <1>2, <2>1 DEF Left, SwitchInv, RadioFollowsControls, Parted
<1>4. Unsaid(w) /\ Silenced(host[peer.mode])
  BY <1>1, <1>3 DEF SilenceInv, Left
<1> DEFINE h == host[peer.mode]
           n == host'[peer.mode]
<1>5. /\ n.list = IF tx.kind = "keys" /\ ~tx.over THEN tx.list ELSE h.list
      /\ n.map = IF tx.kind = "bitmap" THEN tx.map ELSE h.map
      /\ n.usage = IF tx.kind = "consumer" THEN tx.usage ELSE h.usage
      /\ n.stray = IF tx.kind = "consumer" THEN GivenUp ELSE h.stray
      /\ n.torn =
           IF tx.kind = "keys" /\ ~tx.over
           THEN IF GivenUp THEN "torn" ELSE IF h.torn = "no" THEN "no" ELSE "mending"
           ELSE IF tx.kind = "bitmap"
           THEN IF GivenUp THEN "torn" ELSE IF h.torn = "mending" THEN "no" ELSE h.torn
           ELSE h.torn
  <2>1. PICK late \in BOOLEAN : late = GivenUp
    BY <1>1 DEF SessionTypes, GivenUp
  <2> HIDE DEF h, n
  <2> QED BY <1>1, <1>2, <2>1, ToldFields DEF h, n
<1>6. h.torn = "mending" /\ w.linked /\ w.flight = "bitmap" => h.list = {}
  <2> SUFFICES ASSUME h.torn = "mending", w.linked, w.flight = "bitmap" PROVE h.list = {}
    OBVIOUS
  <2>1. ListSent(w, spi)
    BY <1>1 DEF SessionInv, ReportsInv, Reporting, ListSent
  <2>2. w.staged.list = {} /\ ~w.staged.over
    BY <1>4, ReportFacts DEF Unsaid, AllReleased
  <2> QED BY <1>1, <2>1, <2>2 DEF HostInv
<1>7. /\ w.linked /\ w.flight = "keys" => tx.list = {}
      /\ w.linked /\ w.flight = "bitmap" => tx.map = {}
      /\ w.linked /\ w.flight = "consumer" => tx.usage = NoUsage
  BY <1>1, <1>4, ReportFacts DEF WireInv, Reporting, Unsaid, AllReleased
<1> HIDE DEF h, n
<1>8. Silenced(h)
  BY <1>4 DEF h
<1>9. w.flight = "keys" => Silenced(n)
  BY <1>2, <1>5, <1>7, <1>8 DEF Silenced, Holds, GivenUp
<1>10. w.flight = "bitmap" => Silenced(n)
  BY <1>2, <1>5, <1>6, <1>7, <1>8 DEF Silenced, Holds, GivenUp
<1>11. w.flight = "consumer" => Silenced(n)
  BY <1>2, <1>5, <1>7, <1>8 DEF Silenced, Holds, GivenUp
<1>12. Silenced(n)
  BY <1>2, <1>9, <1>10, <1>11
<1> QED BY <1>12 DEF n

(* What the peer's steps make of the hosts.                                *)
LEMMA PeerHosts ==
  ASSUME LinkInv, PeerStep
  PROVE  /\ WirelessInv' /\ w' = w /\ (Healthy' <=> Healthy)
         /\ host'["usb"] \in {host["usb"], Quiet}
         /\ \A h \in Modes : Left(h) => Silenced(host'[h])
<1>1. /\ WirelessInv /\ SilenceInv /\ PeerInv(w, spi, peer, host) /\ tx \in PacketTypes
      /\ host \in [Modes -> HostTypes] /\ peer.mode \in Modes /\ "usb" \in Modes
  BY LinkParts, OwnerParts, WirelessConstants DEF PeerTypes
<1>2. WirelessInv'
  BY <1>1, WireDoneKeeps, LinkUpKeeps, LinkDownKeeps DEF PeerStep
<1>3. w' = w /\ (Healthy' <=> Healthy)
  BY DEF PeerStep, WireDone, LinkUp, LinkDown, Healthy
<1>4. \/ host' = [host EXCEPT ![peer.mode] = Quiet]
      \/ host' = host
      \/ /\ WireDone /\ peer.link = "reports"
         /\ host' = [host EXCEPT ![peer.mode] = Told(@, tx, GivenUp)]
  BY DEF PeerStep, WireDone, LinkUp, LinkDown
<1>5. CASE host' = [host EXCEPT ![peer.mode] = Quiet]
  <2>1. \A h \in Modes : host'[h] \in {host[h], Quiet}
    BY <1>1, <1>5
  <2> QED BY <1>1, <1>2, <1>3, <2>1, QuietHost DEF SilenceInv
<1>6. CASE host' = host
  BY <1>1, <1>2, <1>3, <1>6 DEF SilenceInv
<1>7. CASE /\ WireDone /\ peer.link = "reports"
           /\ host' = [host EXCEPT ![peer.mode] = Told(@, tx, GivenUp)]
  <2>1. \A h \in Modes \ {peer.mode} : host'[h] = host[h]
    BY <1>1, <1>7
  <2>2. peer.mode # "usb"
    BY <1>1, <1>7 DEF PeerInv
  <2>3. Left(peer.mode) => Silenced(host'[peer.mode])
    <3>1. CASE tx.kind \in {"keys", "bitmap", "consumer"}
      BY <1>7, <3>1, ToldIsSilent
    <3>2. CASE tx.kind \notin {"keys", "bitmap", "consumer"}
      <4>1. host'[peer.mode] = host[peer.mode]
        BY <1>1, <1>7, <3>2 DEF Told
      <4> QED BY <1>1, <4>1 DEF SilenceInv
    <3> QED BY <3>1, <3>2
  <2> QED BY <1>1, <1>2, <1>3, <2>1, <2>2, <2>3 DEF SilenceInv
<1> QED BY <1>4, <1>5, <1>6, <1>7

LEMMA SurroundingsKeeps == ASSUME LinkInv, Surroundings PROVE LinkInv'
<1>1. SwitchInv /\ SilenceInv /\ LinkTypeOK /\ EndpointInv /\ UsbSentInv
  BY LinkParts DEF LinkInv
<1>2. /\ UNCHANGED <<pc, u, c, t, a, x, l>>
      /\ WirelessInv' /\ w' = w /\ (Healthy' <=> Healthy)
      /\ host'["usb"] \in {host["usb"], Quiet}
      /\ \A h \in Modes : Left(h) => Silenced(host'[h])
  BY PeerHosts DEF Surroundings
<1>3. LinkTypeOK'
  BY <1>1, <1>2 DEF LinkTypeOK
<1>4. SwitchInv'
  BY <1>1, <1>2 DEF SwitchInv, RadioFollowsControls
<1>5. SilenceInv'
  <2>1. (Parted' <=> Parted) /\ \A h : Left(h)' <=> Left(h)
    BY <1>2 DEF Parted, Left
  <2> QED BY <1>1, <1>2, <2>1 DEF SilenceInv
<1>6. EndpointInv' /\ UsbSentInv'
  BY <1>1, <1>2 DEF EndpointInv, UsbSentInv, UsbReady, UsbUp, Quiet
<1> QED BY <1>2, <1>3, <1>4, <1>5, <1>6 DEF LinkInv, UsbInv

-----------------------------------------------------------------------------
LEMMA LinkInitEstablishes == ASSUME LinkInit PROVE LinkInv
<1>1. WirelessInv
  BY InitEstablishesInv DEF LinkInit
<1>2. /\ w = [Session("usb") EXCEPT !.active = FALSE, !.pending = FALSE] /\ spi = "off"
      /\ host = [h \in Modes |-> Quiet]
  BY DEF LinkInit, WirelessInitial
<1>3. ~w.active /\ ~w.pending /\ Unsaid(w) /\ Mild(w)
  BY <1>2 DEF Session, Unsaid, Mild, AllReleased
<1>4. "usb" \in Modes /\ \A h \in Modes : host[h] = Quiet
  BY <1>2, WirelessConstants
<1>5. u \in UsbTypes /\ u.hid = {} /\ u.cons = NoUsage /\ u.state = "off"
  BY DEF LinkInit, Detached, UsbTypes, UsageTypes
<1>6. c \in ControlTypes /\ t \in TransportTypes /\ c.phase = "idle"
  BY <1>4 DEF LinkInit, ControlTypes, TransportTypes
<1>7. /\ a \in ApplicationTypes /\ x \in AuxTypes /\ l \in OwnerTypes
      /\ x.usage = NoUsage /\ ~a.sentValid /\ ~l.attempted /\ ~l.fault
  BY DEF LinkInit, ApplicationTypes, AuxTypes, OwnerTypes, UsageTypes
<1>8. LinkTypeOK
  BY <1>5, <1>6, <1>7 DEF LinkTypeOK, LinkInit
<1>9. SwitchInv
  BY <1>3, <1>6, <1>7 DEF SwitchInv, RadioFollowsControls, Healthy
<1>10. SilenceInv
  BY <1>3, <1>4, <1>5, <1>7, QuietHost DEF SilenceInv
<1>11. UsbInv
  BY <1>4, <1>5 DEF UsbInv, EndpointInv, UsbSentInv, UsbReady, UsbUp, Quiet
<1> QED BY <1>1, <1>8, <1>9, <1>10, <1>11 DEF LinkInv

LEMMA LinkNextKeeps == ASSUME LinkInv, [LinkNext]_linkVars PROVE LinkInv'
<1>1. CASE UNCHANGED linkVars
  <2>1. /\ w' = w /\ spi' = spi /\ tx' = tx /\ peer' = peer /\ host' = host
        /\ UNCHANGED <<pc, u, c, t, a, x, l>>
    BY <1>1 DEF linkVars
  <2>2. WirelessInv' /\ LinkTypeOK' /\ SwitchInv'
    BY <2>1 DEF LinkInv, WirelessInv, LinkTypeOK, SwitchInv, RadioFollowsControls, Healthy
  <2>3. SilenceInv' /\ UsbInv'
    BY <2>1 DEF LinkInv, SilenceInv, Left, Parted, UsbInv, EndpointInv, UsbSentInv, UsbReady, UsbUp
  <2> QED BY <2>2, <2>3 DEF LinkInv
<1>2. CASE LoopInput
  BY <1>2, LoopInputKeeps
<1>3. CASE LoopOut
  BY <1>3, LoopOutKeeps
<1>4. CASE LoopControls
  BY <1>4, LoopControlsKeeps
<1>5. CASE UsbInterrupt
  BY <1>5, UsbInterruptKeeps
<1>6. CASE Surroundings
  BY <1>6, SurroundingsKeeps
<1> QED BY <1>1, <1>2, <1>3, <1>4, <1>5, <1>6 DEF LinkNext, Loop

(* The inductive invariant of the loop, the radio and the USB endpoints    *)
(* together (m1_live_service, m1_usb_class.c, m1_wireless.c).              *)
THEOREM LinkInvariant == LinkSpec => []LinkInv
<1>1. LinkInit => LinkInv
  BY LinkInitEstablishes
<1>2. LinkInv /\ [LinkNext]_linkVars => LinkInv'
  BY LinkNextKeeps
<1> QED BY <1>1, <1>2, PTL DEF LinkSpec

(* A host that the keyboard does not serve any more holds no key, and no   *)
(* consumer control, whatever was pressed when the transport changed       *)
(* (m1_controls.c:29, m1_live.c drained and select_transport).             *)
THEOREM LeftHostsCorrect == LinkSpec => []NoKeyLeftBehind
<1>1. ASSUME LinkInv, NEW h \in Modes \ {c.current} PROVE Silenced(host[h])
  BY <1>1, LinkParts DEF SilenceInv, Left
<1>2. LinkInv => NoKeyLeftBehind
  BY <1>1 DEF NoKeyLeftBehind, Silenced, Holds, Held
<1> QED BY <1>2, LinkInvariant, PTL

(* Outside a physical selection a working radio serves the transport that  *)
(* the controls name (m1_live.c select_transport and cancel_input).        *)
THEOREM ControlsCorrect == LinkSpec => []RadioFollowsControls
<1>1. LinkInv => RadioFollowsControls
  BY DEF LinkInv, SwitchInv
<1> QED BY <1>1, LinkInvariant, PTL
=============================================================================
