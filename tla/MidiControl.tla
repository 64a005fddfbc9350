----------------------------- MODULE MidiControl -----------------------------
(***************************************************************************)
(* midi_control.c: the command session on the second MIDI cable, and the   *)
(* streams it carries.  A SysEx message is framed by the USB interrupt and *)
(* left in a mailbox of one; the owner loop takes it, executes it, and     *)
(* sends one message at a time in chunks that the port may refuse.         *)
(*                                                                         *)
(* One pass of midi_control_service and scan_stream_service is the steps   *)
(* named by pc.  On the Huntsman the interrupt may come between any two of *)
(* them; the M1 takes USB data and resets in its own loop (pc = "loop").   *)
(*                                                                         *)
(* Time is two flags: the lease, and the age of a message being received.  *)
(* The host is arbitrary: it sends any message at any time, torn ones      *)
(* included, except that a new session has an identifier nobody holds.     *)
(***************************************************************************)
EXTENDS ScanStream

CONSTANTS
    MaxSequence,  \* the host's sequence numbers are 1 .. MaxSequence (bound)
    Commands,     \* the commands a host sends, <<sequence number, text>> (bound)
    Chunks,       \* the chunks a message is sent in
    None, Garbage \* no message; a message that fails its CRC

Requests ==
    [kind : {"HELLO", "KEEPALIVE", "CLOSE"}, session : Sessions] \cup
    {[kind |-> "COMMAND", session |-> s, sequence |-> c[1], text |-> c[2]] :
        s \in Sessions, c \in Commands}

Answers == [kind : {"READY", "ACK", "ERROR"}, sequence : 0 .. MaxSequence]

(* One outbound message: the encoding is immutable, at counts the chunks   *)
(* the port has accepted.  Bulk messages differ in their content only.     *)
Messages == [kind : {"READY", "ACK", "ERROR", "BULK"}, session : Sessions,
             sequence : 0 .. MaxSequence, at : 0 .. Chunks - 1]

ASSUME ControlConstants ==
    /\ MaxSequence \in Nat /\ Chunks \in Nat \ {0}
    /\ Commands \subseteq (1 .. MaxSequence) \X {"key", "gui", "dump", "off", "other"}
    /\ None \notin Requests \cup Answers \cup Messages
    /\ Garbage \notin Requests \cup Messages \cup {None}

VARIABLES
    pc,         \* where the owner loop is
    attached,   \* the port is configured
    reset,      \* s_reset, a reset the loop has not seen
    active,     \* s_active
    receiving,  \* s_receiving, a message is partly in s_rx
    rxLate,     \* it began 1000 ms ago or more
    rxAhead,    \* it began after the loop read the clock, and the clock moved
    rx,         \* s_rx when s_rx_ready, or None
    wire,       \* the loop's copy of the mailbox, or None
    session,    \* s_session
    sequence,   \* s_sequence
    leaseOver,  \* 2500 ms since s_activity
    reply,      \* s_reply_kind and s_reply_sequence, or None
    tx,         \* s_tx from s_tx_at on, or None
    line,       \* the session whose message the host has a part of, or NoSession
    ran         \* the commands executed in this session, in order

isrVars == <<receiving, rxLate, rxAhead, rx>>
sessionVars == <<session, sequence, leaseOver, ran>>
vars == <<board, streamVars, pc, attached, reset, active, isrVars, wire, sessionVars,
          reply, tx, line>>

ControlTypeOK ==
    /\ StreamTypeOK
    /\ pc \in {"loop", "take", "dispatch", "respond", "write", "stream"}
    /\ attached \in BOOLEAN /\ reset \in BOOLEAN /\ active \in BOOLEAN
    /\ receiving \in BOOLEAN /\ rxLate \in BOOLEAN /\ rxAhead \in BOOLEAN
    /\ rx \in Requests \cup {None, Garbage} /\ wire \in Requests \cup {None, Garbage}
    /\ session \in Sessions \cup {NoSession} /\ sequence \in 0 .. MaxSequence
    /\ leaseOver \in BOOLEAN
    /\ reply \in Answers \cup {None} /\ tx \in Messages \cup {None}
    /\ line \in Sessions \cup {NoSession}
    /\ ran \in Seq(1 .. MaxSequence)

Init ==
    /\ StreamInit
    /\ pc = "loop" /\ attached = FALSE /\ reset = FALSE /\ active = FALSE
    /\ receiving = FALSE /\ rxLate = FALSE /\ rxAhead = FALSE /\ rx = None /\ wire = None
    /\ session = NoSession /\ sequence = 0 /\ leaseOver = FALSE
    /\ reply = None /\ tx = None /\ line = NoSession /\ ran = <<>>

Ready == active /\ attached
PublishReady == Ready /\ reply = None /\ tx = None

Bulk == [kind |-> "BULK", session |-> session, sequence |-> 0, at |-> 0]

-----------------------------------------------------------------------------
(* The interrupt side.                                                     *)

Interrupt == board = "huntsman" \/ pc = "loop"
Loop == <<pc, wire, sessionVars, reply, tx, board>>

(* midi_control_receive_usb up to a byte F0.  A packet that comes while    *)
(* the mailbox is full is discarded.                                       *)
ReceiveHead ==
    /\ Interrupt /\ attached
    /\ receiving' = (rx = None)
    /\ rxLate' = FALSE
    /\ rxAhead' \in {FALSE, pc = "take"}
    /\ UNCHANGED <<Loop, streamVars, attached, reset, active, rx, line>>

(* ... up to the byte F7: the message is complete and stays until taken.   *)
ReceiveTail(m) ==
    /\ Interrupt /\ attached /\ receiving
    /\ rx' = IF rx = None THEN m ELSE rx
    /\ receiving' = FALSE /\ rxLate' = FALSE /\ rxAhead' = FALSE
    /\ UNCHANGED <<Loop, streamVars, attached, reset, active, line>>

(* A packet that is no part of a message, or an overlong message.          *)
ReceiveBroken ==
    /\ Interrupt /\ attached /\ receiving
    /\ receiving' = FALSE /\ rxLate' = FALSE /\ rxAhead' = FALSE
    /\ UNCHANGED <<Loop, streamVars, attached, reset, active, rx, line>>

(* midi_control_usb_reset, and a new connection for the host.              *)
ControlReset ==
    /\ active' = FALSE /\ reset' = TRUE
    /\ receiving' = FALSE /\ rxLate' = FALSE /\ rxAhead' = FALSE /\ rx' = None
    /\ line' = NoSession
    /\ UNCHANGED Loop

StreamKept == UNCHANGED <<mode, enabled, records, fault, faultSent, lost, owner>>

BusReset ==
    /\ board = "huntsman"
    /\ ControlReset
    /\ attached' = FALSE /\ streamReset' = TRUE
    /\ StreamKept

SetConfiguration ==
    /\ board = "huntsman"
    /\ ControlReset
    /\ attached' \in BOOLEAN
    /\ UNCHANGED streamVars

(* usb_ready of the M1 is false as soon as the USB interrupt has changed   *)
(* the generation, and until check_epoch sees it.                          *)
PortLeaves ==
    /\ board = "m1" /\ attached
    /\ attached' = FALSE
    /\ UNCHANGED <<Loop, streamVars, reset, active, isrVars, line>>

(* check_epoch of the M1: the USB device was reset or configured again.    *)
EpochChanges ==
    /\ board = "m1" /\ pc = "loop"
    /\ ControlReset
    /\ attached' \in BOOLEAN /\ streamReset' = TRUE
    /\ StreamKept

-----------------------------------------------------------------------------
(* Between two passes the owner loop acquires, and takes a snapshot.  The  *)
(* M1 takes it between the two services.                                   *)

Idle == UNCHANGED <<pc, attached, reset, active, isrVars, wire, sessionVars, reply, tx, line, board>>

Acquire ==
    /\ pc = "loop"
    /\ \E reading \in {"good", "invalid"} : Push(reading, Ready)
    /\ Idle

MissAcquisition == pc = "loop" /\ Lost /\ Idle

Snapshot == pc = (IF board = "m1" THEN "stream" ELSE "loop") /\ GuiPush(Ready) /\ Idle

(* The loop holds a message that extends the lease.                        *)
Accepted == wire \notin {None, Garbage} /\ active /\ wire.session = session

BugInOrder == reply = None             \* mutant: duplicates are executed
InOrder == wire.sequence = sequence + 1 /\ reply = None

Heard ==
    /\ pc = "dispatch" /\ wire \notin {None, Garbage}
    /\ \/ wire.kind = "HELLO"
       \/ Accepted /\ (wire.kind = "COMMAND" => InOrder)

(* Time passes.                                                            *)
LeaseRunsOut ==
    /\ active /\ ~leaseOver /\ ~Heard
    /\ leaseOver' = TRUE
    /\ UNCHANGED <<pc, attached, reset, active, isrVars, wire, session, sequence, ran,
                   reply, tx, line, board, streamVars>>

MessageAges ==
    /\ pc = "loop" /\ receiving
    /\ rxLate' = TRUE
    /\ UNCHANGED <<Loop, streamVars, attached, reset, active, receiving, rxAhead, rx, line>>

-----------------------------------------------------------------------------
(* midi_control_service, up to the call of receive_command: forget what a  *)
(* reset interrupted, end a session whose lease is over.                   *)
BugExpires == FALSE                    \* mutant: the lease never ends
Expires == active /\ leaseOver

BeginService ==
    /\ pc = "loop"
    /\ reset' = FALSE
    /\ active' = (active /\ ~reset /\ ~Expires)
    /\ IF reset THEN tx' = None /\ reply' = None ELSE UNCHANGED <<tx, reply>>
    /\ IF reset \/ Expires THEN StreamStop ELSE UNCHANGED streamVars
    /\ pc' = "take"
    /\ UNCHANGED <<board, attached, isrVars, wire, sessionVars, line>>

(* The locked part of receive_command.  The age of a partial message is    *)
(* now - s_rx_at in 32 bits: a message that began after now was read, with *)
(* the clock moved, is older than any timeout.                             *)
TakeCommand ==
    /\ pc = "take"
    /\ wire' = rx /\ rx' = None
    /\ receiving' = (receiving /\ ~rxLate /\ ~rxAhead)
    /\ rxLate' = FALSE /\ rxAhead' = FALSE
    /\ pc' = "dispatch"
    /\ UNCHANGED <<board, streamVars, attached, reset, active, sessionVars, reply, tx, line>>

(* The rest of receive_command, one action for each way out of it.         *)
Dispatched ==
    /\ pc' = "respond" /\ wire' = None
    /\ UNCHANGED <<board, attached, reset, isrVars, line>>

Ignore ==
    /\ pc = "dispatch"
    /\ wire \notin {None, Garbage} => wire.kind # "HELLO" /\ ~Accepted
    /\ Dispatched
    /\ UNCHANGED <<active, sessionVars, reply, tx, streamVars>>

BugStopStreams == UNCHANGED streamVars  \* mutant: streams outlive their session
StopStreams == StreamStop

Hello ==
    /\ pc = "dispatch"
    /\ wire \notin {None, Garbage} /\ wire.kind = "HELLO"
    /\ StopStreams
    /\ session' = wire.session /\ sequence' = 0 /\ leaseOver' = FALSE /\ ran' = <<>>
    /\ active' = TRUE
    /\ reply' = [kind |-> "READY", sequence |-> 0]
    /\ Dispatched /\ UNCHANGED tx

KeepAlive ==
    /\ pc = "dispatch" /\ Accepted /\ wire.kind = "KEEPALIVE"
    /\ leaseOver' = FALSE
    /\ Dispatched
    /\ UNCHANGED <<active, session, sequence, ran, reply, tx, streamVars>>

Close ==
    /\ pc = "dispatch" /\ Accepted /\ wire.kind = "CLOSE"
    /\ active' = FALSE
    /\ StopStreams
    /\ Dispatched
    /\ UNCHANGED <<sessionVars, reply, tx>>

(* A command out of its turn, or a message of a kind no host sends.        *)
Reject ==
    /\ pc = "dispatch" /\ Accepted /\ wire.kind = "COMMAND" /\ ~InOrder
    /\ reply' = [kind |-> "ERROR", sequence |-> wire.sequence]
    /\ Dispatched
    /\ UNCHANGED <<active, sessionVars, tx, streamVars>>

(* A command in its turn uses up its number, executed or refused, and      *)
(* extends the lease.                                                      *)
TakesTurn(answer) ==
    /\ pc = "dispatch" /\ Accepted /\ wire.kind = "COMMAND" /\ InOrder
    /\ sequence' = wire.sequence /\ leaseOver' = FALSE
    /\ ran' = Append(ran, wire.sequence)
    /\ reply' = [kind |-> answer, sequence |-> wire.sequence]
    /\ Dispatched
    /\ UNCHANGED <<active, session>>

(* The text of a command is what the board makes of it: "other" are those  *)
(* without a part in the streams, and the stream commands the Huntsman     *)
(* acknowledges but does not obey (wrong arguments, calibration).          *)
Execute ==
    /\ TakesTurn("ACK")
    /\ \/ wire.text = "key" /\ StreamKey(session, Ready)
       \/ wire.text = "gui" /\ StreamGui(session, Ready)
       \/ wire.text = "dump" /\ board = "huntsman" /\ StreamDump(session, Ready)
       \/ wire.text = "off" /\ StreamStop
       \/ wire.text = "other" /\ UNCHANGED streamVars
    /\ UNCHANGED tx

(* The M1's diagnostics publish their answer themselves, if they can.      *)
Diagnose ==
    /\ board = "m1" /\ pc = "dispatch" /\ Accepted /\ wire.kind = "COMMAND"
    /\ wire.text = "dump"
    /\ TakesTurn(IF PublishReady THEN "ACK" ELSE "ERROR")
    /\ tx' = IF PublishReady THEN Bulk ELSE tx
    /\ UNCHANGED streamVars

(* An empty, unprintable or unknown command.                               *)
Refuse == TakesTurn("ERROR") /\ UNCHANGED <<tx, streamVars>>

(* midi_control_service after receive_command: nothing survives a port     *)
(* that is not ready; a reply is encoded when the transmitter is free.     *)
BugEncodes == reply # None             \* mutant: over a message being sent
Encodes == reply # None /\ tx = None

Respond ==
    /\ pc = "respond"
    /\ IF ~Ready THEN tx' = None /\ reply' = None
       ELSE IF Encodes
       THEN /\ tx' = [kind |-> reply.kind, session |-> session, sequence |-> reply.sequence, at |-> 0]
            /\ reply' = None
       ELSE UNCHANGED <<tx, reply>>
    /\ pc' = IF tx' = None THEN "stream" ELSE "write"
    /\ UNCHANGED <<board, streamVars, attached, reset, active, isrVars, wire, sessionVars, line>>

(* The port takes a chunk, or refuses it and the same chunk is offered     *)
(* again on the next pass.                                                 *)
WriteChunk ==
    /\ pc = "write" /\ attached
    /\ IF tx.at = Chunks - 1
       THEN tx' = None /\ line' = NoSession
       ELSE tx' = [tx EXCEPT !.at = @ + 1] /\ line' = tx.session
    /\ pc' = "stream"
    /\ UNCHANGED <<board, streamVars, attached, reset, active, isrVars, wire, sessionVars, reply>>

PortRefuses ==
    /\ pc = "write" /\ pc' = "stream"
    /\ UNCHANGED <<board, streamVars, attached, reset, active, isrVars, wire, sessionVars,
                   reply, tx, line>>

(* scan_stream_service and, on the Huntsman, the log: debug_service calls  *)
(* both only while the session is ready.                                   *)
BugMayPublish == Ready /\ tx = None    \* mutant: bulk data pass a waiting reply
MayPublish == PublishReady

Stream ==
    /\ pc = "stream"
    /\ IF board = "huntsman" /\ ~Ready
       THEN UNCHANGED <<streamVars, tx>>
       ELSE /\ StreamService(Ready, MayPublish)
            /\ IF Ready /\ ~streamReset /\ Publishes(MayPublish) THEN tx' = Bulk
               ELSE \/ UNCHANGED tx
                    \/ board = "huntsman" /\ MayPublish /\ tx' = Bulk
    /\ pc' = "loop"
    /\ UNCHANGED <<board, attached, reset, active, isrVars, wire, sessionVars, reply, line>>

-----------------------------------------------------------------------------
(* What the host sends.                                                    *)

Held == {session, owner, line} \cup {m.session : m \in {rx, wire, tx} \ {None, Garbage}}
Sendable == {m \in Requests : m.kind = "HELLO" => m.session \notin Held}

Interrupts ==
    \/ ReceiveHead
    \/ \E m \in Sendable \cup {Garbage} : ReceiveTail(m)
    \/ ReceiveBroken
    \/ BusReset
    \/ SetConfiguration
    \/ PortLeaves
    \/ EpochChanges

Dispatch == Ignore \/ Hello \/ KeepAlive \/ Close \/ Reject \/ Execute \/ Diagnose \/ Refuse

ServiceStep ==
    BeginService \/ TakeCommand \/ Dispatch \/ Respond \/ WriteChunk \/ PortRefuses \/ Stream

Next ==
    \/ Interrupts
    \/ Acquire \/ MissAcquisition \/ Snapshot
    \/ LeaseRunsOut \/ MessageAges
    \/ ServiceStep

Spec == Init /\ [][Next]_vars

(* The loop runs, the lease of a host that is heard no more runs out, and  *)
(* a host that stays connected reads.                                      *)
FairSpec == Spec /\ WF_vars(ServiceStep) /\ WF_vars(LeaseRunsOut) /\ SF_vars(WriteChunk)

-----------------------------------------------------------------------------
(* Safety                                                                  *)

(* ExecutedOnceInOrder.  Within a session the commands run in the order of *)
(* their numbers, each once, whatever the host repeats, skips or sends     *)
(* while an answer waits (midi_control.c:103).                             *)
ExecutedOnceInOrder == \A i \in DOMAIN ran : ran[i] = i

(* StreamsEndWithSession.  A stream belongs to the session that asked for  *)
(* it and ends with it, be it by HELLO, CLOSE, the lease or a reset that   *)
(* interrupts any point of the loop: no host is sent what another asked    *)
(* for (midi_control.c:97, 102, 140, 142).                                 *)
StreamsEndWithSession ==
    mode # "off" /\ ~reset => active /\ owner = session

(* MessagesAreWhole.  What reaches the host on one connection is whole     *)
(* messages: the rest of one follows its beginning, and nothing else of    *)
(* that session starts in between (midi_control.c:144-158).  Until the     *)
(* loop has seen a reset a chunk of the old message may still go out.      *)
MessagesAreWhole ==
    tx # None /\ ~reset => ((tx.at > 0) <=> (line = tx.session))

(* What the safety properties rest on, for the proofs.                     *)

(* A session in force is one of the hosts', and there is a chunk to write. *)
TypeInv ==
    /\ ControlTypeOK
    /\ active => session \in Sessions
    /\ pc = "write" => tx # None

(* A command that ran used up its number.                                  *)
OrderInv == ExecutedOnceInOrder /\ Len(ran) = sequence

(* A capture that stands still or misses an acquisition without having     *)
(* latched the fault will not go on: the port was lost under it, and comes *)
(* back only through a reset that stops it.                                *)
LossInv ==
    /\ NoSilentLoss
    /\ mode = "key" /\ ~enabled => ~Ready
    /\ mode = "key" /\ lost /\ ~fault => ~enabled

(* A session that is asked for has no part of a message on the line.       *)
FreshHello(m) ==
    m \in Requests /\ m.kind = "HELLO" =>
        /\ m.session \notin {session, line}
        /\ tx # None => m.session # tx.session

FreshRequests ==
    /\ FreshHello(rx) /\ FreshHello(wire)
    /\ rx \in Requests /\ wire \in Requests /\ rx.kind = "HELLO" /\ wire.kind = "HELLO"
        => rx.session # wire.session

WholeInv ==
    /\ MessagesAreWhole
    /\ ~reset /\ Ready /\ line = session => tx # None /\ tx.session = session
    /\ FreshRequests

ControlInv == TypeInv /\ OrderInv /\ LossInv /\ StreamsEndWithSession /\ WholeInv

(* Liveness                                                                *)

(* AnswersGetOut.  An answer does not wait for ever behind the streams and *)
(* the log, which would fill the transmitter again as soon as it is free   *)
(* (midi_control.c:129-136, scan_stream.c:91).                             *)
AnswersGetOut == (reply # None) ~> (reply = None)

(* LossIsReported.  A capture that lost an acquisition sends what it had,  *)
(* however little, and then the loss marker, unless it is stopped or       *)
(* started again, or the host goes on asking: answers go first             *)
(* (scan_stream.c:88-96).                                                  *)
LossIsReported ==
    (mode = "key" /\ enabled /\ fault)
        ~> ((faultSent /\ records = <<>>) \/ mode # "key" \/ ~fault \/ reply # None)

(* SilentHostLosesStream.  A stream goes on only while its host is heard   *)
(* again and again; foreign sessions, broken messages and rejected         *)
(* commands do not keep it alive (midi_control.c:96-106, 142).             *)
SilentHostLosesStream == (mode # "off") ~> (mode = "off" \/ Heard)
=============================================================================
