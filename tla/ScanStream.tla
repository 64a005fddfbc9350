------------------------------ MODULE ScanStream ------------------------------
(***************************************************************************)
(* scan_stream.c: the telemetry a host can ask for over the control cable. *)
(* "gui" keeps the latest snapshot, "dump" holds one answer, and "key"     *)
(* captures every acquisition of one sensor: a queue that detects loss and *)
(* stops for good at the first one, after a marker the host cannot miss.   *)
(*                                                                         *)
(* The operations are actions of the owner loop, which MidiControl drives; *)
(* each takes what midi_control_ready() returns at the call.  A record is  *)
(* what the host can tell of it: a good or an invalid reading, or the loss *)
(* marker, and whether an acquisition is missing between it and the record *)
(* before it.                                                              *)
(***************************************************************************)
EXTENDS Integers, Sequences

CONSTANTS
    Sessions,     \* session identifiers of the hosts
    NoSession,    \* none yet
    RecordsMax,   \* MIDI_CONTROL_DEVICE_RECORDS
    Batch         \* MIDI_CONTROL_SAMPLE_BATCH

ASSUME StreamConstants ==
    /\ NoSession \notin Sessions
    /\ RecordsMax \in Nat /\ Batch \in 1 .. RecordsMax

VARIABLES
    board,        \* "huntsman" or "m1", fixed
    mode,         \* s_mode
    enabled,      \* s_enabled
    records,      \* s_records between s_tail and s_head
    fault,        \* s_fault
    faultSent,    \* s_fault_sent
    streamReset,  \* s_reset of scan_stream.c
    lost,         \* an acquisition since the last record is not in the stream
    owner         \* the session that asked for the stream

streamVars == <<mode, enabled, records, fault, faultSent, streamReset, lost, owner>>

Records == [mark : {"good", "invalid", "loss"}, gap : BOOLEAN]
Good == [mark |-> "good", gap |-> FALSE]

StreamTypeOK ==
    /\ board \in {"huntsman", "m1"}
    /\ mode \in {"off", "gui", "key", "dump"}
    /\ enabled \in BOOLEAN
    /\ records \in Seq(Records) /\ Len(records) <= RecordsMax
    /\ fault \in BOOLEAN /\ faultSent \in BOOLEAN /\ streamReset \in BOOLEAN
    /\ lost \in BOOLEAN
    /\ owner \in Sessions \cup {NoSession}

StreamInit ==
    /\ board \in {"huntsman", "m1"}
    /\ mode = "off" /\ enabled = FALSE /\ records = <<>>
    /\ fault = FALSE /\ faultSent = FALSE /\ streamReset = FALSE
    /\ lost = FALSE /\ owner = NoSession

-----------------------------------------------------------------------------
(* scan_stream_stop                                                        *)
StreamStop ==
    /\ mode' = "off" /\ enabled' = FALSE /\ records' = <<>>
    /\ lost' = FALSE /\ owner' = NoSession
    /\ UNCHANGED <<fault, faultSent, streamReset>>

(* scan_stream_gui                                                         *)
StreamGui(s, ready) ==
    /\ mode' = "gui" /\ enabled' = ready /\ records' = <<>>
    /\ lost' = FALSE /\ owner' = s
    /\ UNCHANGED <<fault, faultSent, streamReset>>

(* scan_stream_last_key                                                    *)
StreamKey(s, ready) ==
    /\ mode' = "key" /\ enabled' = ready /\ records' = <<>>
    /\ fault' = FALSE /\ faultSent' = FALSE
    /\ lost' = FALSE /\ owner' = s
    /\ UNCHANGED streamReset

(* scan_stream_dump_ready and, when it agrees, scan_stream_dump_push: one  *)
(* answer at a time.                                                       *)
DumpFree(ready) == ready /\ ~(mode = "dump" /\ records # <<>>)

StreamDump(s, ready) ==
    IF DumpFree(ready)
    THEN /\ mode' = "dump" /\ enabled' = ready /\ records' = <<Good>>
         /\ lost' = FALSE /\ owner' = s
         /\ UNCHANGED <<fault, faultSent, streamReset>>
    ELSE UNCHANGED streamVars

-----------------------------------------------------------------------------
(* scan_stream_push with an acquired readback.  The Huntsman calls         *)
(* scan_stream_start before each push of a stream that was asked for.      *)
Running(ready) ==
    IF board = "huntsman" /\ mode \in {"gui", "key"} THEN ready ELSE enabled

Refused(ready) == streamReset \/ ~ready \/ Len(records) = RecordsMax

Push(reading, ready) ==
    /\ enabled' = Running(ready)
    /\ IF ~Running(ready) \/ mode # "key" \/ fault
       THEN lost' = (lost \/ mode = "key") /\ UNCHANGED <<records, fault>>
       ELSE IF Refused(ready)
       THEN lost' = TRUE /\ fault' = TRUE /\ UNCHANGED records
       ELSE /\ records' = Append(records, [mark |-> reading, gap |-> lost])
            /\ fault' = (reading = "invalid")
            /\ lost' = FALSE
    /\ UNCHANGED <<mode, faultSent, streamReset, owner>>

(* scan_stream_lost: the M1 sees from its scan counters that an            *)
(* acquisition is missing.                                                 *)
BugMissed == enabled /\ mode = "key" /\ records # <<>> \* mutant: nothing queued, nothing lost
Missed == enabled /\ mode = "key"

Lost ==
    /\ board = "m1"
    /\ lost' = (lost \/ mode = "key")
    /\ fault' = (fault \/ Missed)
    /\ UNCHANGED <<mode, enabled, records, faultSent, streamReset, owner>>

(* scan_stream_gui_push                                                    *)
GuiPush(ready) ==
    /\ mode = "gui" /\ enabled /\ ready
    /\ records' = <<Good>>
    /\ UNCHANGED <<mode, enabled, fault, faultSent, streamReset, lost, owner>>

-----------------------------------------------------------------------------
(* scan_stream_service.  The loss marker is made when the records before   *)
(* it are gone; a healthy capture waits for a whole batch.                 *)
MakesMarker == mode = "key" /\ fault /\ ~faultSent /\ records = <<>>
Queue == IF MakesMarker THEN <<[mark |-> "loss", gap |-> lost]>> ELSE records

BugWaits == mode = "key" /\ Len(Queue) < Batch    \* mutant: a faulty one waits too
Waits == mode = "key" /\ ~fault /\ Len(Queue) < Batch

Publishes(publishReady) == enabled /\ Queue # <<>> /\ publishReady /\ ~Waits
Taken == IF mode = "key" /\ Len(Queue) > Batch THEN Batch
         ELSE IF mode = "key" THEN Len(Queue) ELSE 1

StreamService(ready, publishReady) ==
    IF streamReset \/ ~ready
    THEN /\ streamReset' = FALSE
         /\ mode' = "off" /\ enabled' = FALSE /\ records' = <<>>
         /\ lost' = FALSE /\ owner' = NoSession
         /\ UNCHANGED <<fault, faultSent>>
    ELSE IF ~enabled THEN UNCHANGED streamVars
    ELSE /\ records' = IF Publishes(publishReady)
                       THEN SubSeq(Queue, Taken + 1, Len(Queue)) ELSE Queue
         /\ faultSent' = (faultSent \/ MakesMarker)
         /\ lost' = (lost /\ ~MakesMarker)
         /\ UNCHANGED <<mode, enabled, fault, streamReset, owner>>

-----------------------------------------------------------------------------
(* NoSilentLoss.  A record never follows a missing acquisition unless it   *)
(* is the loss marker (scan_stream.c:67-83): the host never takes a        *)
(* waveform with a hole for a whole one, whatever was lost and whether the *)
(* queue, a reset, the session or the scan lost it.                        *)
NoSilentLoss ==
    mode = "key" => \A i \in DOMAIN records : records[i].gap => records[i].mark = "loss"
=============================================================================
