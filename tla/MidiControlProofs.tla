-------------------------- MODULE MidiControlProofs --------------------------
(***************************************************************************)
(* Proofs about the command session and its streams for every set of host  *)
(* sessions, set of commands, queue, batch and message length: whatever    *)
(* the host sends and wherever a reset comes, commands run once and in     *)
(* order, streams end with their session, messages are whole and no        *)
(* capture hides a loss.  All of them rest on ControlInv.                  *)
(***************************************************************************)
EXTENDS MidiControl, SequenceTheorems, TLAPS

(* What is taken from the record queue leaves a queue.                     *)
LEMMA RestOfQueue ==
    ASSUME NEW S, NEW s \in Seq(S), NEW n \in Nat, n <= Len(s)
    PROVE  LET rest == SubSeq(s, n + 1, Len(s)) IN
           /\ rest \in Seq(S)
           /\ Len(rest) = Len(s) - n
           /\ \A i \in 1 .. Len(rest) : rest[i] = s[n + i] /\ n + i \in 1 .. Len(s)
<1>1. \A i \in n + 1 .. Len(s) : s[i] \in S
  OBVIOUS
<1>2. n + 1 \in Int /\ Len(s) \in Int
  OBVIOUS
<1>3. /\ SubSeq(s, n + 1, Len(s)) \in Seq(S)
      /\ Len(SubSeq(s, n + 1, Len(s))) = IF n + 1 <= Len(s) THEN Len(s) - (n + 1) + 1 ELSE 0
      /\ \A i \in 1 .. Len(s) - (n + 1) + 1 :
            SubSeq(s, n + 1, Len(s))[i] = s[n + 1 + i - 1]
  BY <1>1, <1>2, SubSeqProperties
<1> QED BY <1>3

-----------------------------------------------------------------------------
(* Types                                                                   *)

LEMMA StreamKeepsType ==
    ASSUME StreamTypeOK, UNCHANGED <<board, streamVars>> PROVE StreamTypeOK'
<1>1. /\ board' = board /\ mode' = mode /\ enabled' = enabled /\ records' = records
      /\ fault' = fault /\ faultSent' = faultSent /\ streamReset' = streamReset
      /\ lost' = lost /\ owner' = owner
  BY DEF streamVars
<1> QED BY <1>1 DEF StreamTypeOK

LEMMA EmptyQueue == <<>> \in Seq(Records) /\ Len(<<>>) = 0 /\ Len(<<>>) <= RecordsMax
<1>1. <<>> \in Seq(Records) /\ Len(<<>>) = 0
  OBVIOUS
<1>2. 0 <= RecordsMax
  BY StreamConstants DEF StreamConstants
<1> QED BY <1>1, <1>2

LEMMA StopKeepsType ==
    ASSUME StreamTypeOK, board' = board, StreamStop PROVE StreamTypeOK'
BY EmptyQueue DEF StreamStop, StreamTypeOK

LEMMA PushKeepsType ==
    ASSUME StreamTypeOK, board' = board, NEW reading \in {"good", "invalid"},
           NEW ready \in BOOLEAN, Push(reading, ready)
    PROVE  StreamTypeOK'
<1>1. [mark |-> reading, gap |-> lost] \in Records
  BY DEF StreamTypeOK, Records
<1>2. RecordsMax \in Nat
  BY StreamConstants DEF StreamConstants
<1>3. records' \in Seq(Records) /\ Len(records') <= RecordsMax
  BY <1>1, <1>2 DEF Push, Refused, StreamTypeOK
<1>4. enabled' \in BOOLEAN /\ fault' \in BOOLEAN /\ lost' \in BOOLEAN
  BY DEF Push, Running, StreamTypeOK
<1> QED BY <1>3, <1>4 DEF Push, StreamTypeOK

(* The queue with the marker, and how many of its records one message takes. *)
LEMMA QueueFacts ==
    ASSUME StreamTypeOK
    PROVE  /\ Queue \in Seq(Records) /\ Len(Queue) <= RecordsMax
           /\ Taken \in Nat
           /\ Queue # <<>> => Taken <= Len(Queue)
<1>1. RecordsMax \in Nat /\ Batch \in 1 .. RecordsMax
  BY StreamConstants DEF StreamConstants
<1>2. [mark |-> "loss", gap |-> lost] \in Records
  BY DEF StreamTypeOK, Records
<1>3. Queue \in Seq(Records) /\ Len(Queue) <= RecordsMax
  BY <1>1, <1>2 DEF Queue, StreamTypeOK
<1>4. Taken \in Nat
  BY <1>1, <1>3 DEF Taken
<1>5. Queue # <<>> => Taken <= Len(Queue)
  BY <1>1, <1>3 DEF Taken
<1> QED BY <1>3, <1>4, <1>5

LEMMA ServiceKeepsType ==
    ASSUME StreamTypeOK, board' = board, NEW ready \in BOOLEAN, NEW free \in BOOLEAN,
           StreamService(ready, free)
    PROVE  StreamTypeOK'
<1>1. records' \in Seq(Records) /\ Len(records') <= RecordsMax
  <2>1. RecordsMax \in Nat
    BY StreamConstants DEF StreamConstants
  <2>2. CASE streamReset \/ ~ready
    BY <2>2, EmptyQueue DEF StreamService
  <2>3. CASE ~(streamReset \/ ~ready) /\ ~enabled
    <3>1. StreamTypeOK'
      BY <2>3, StreamKeepsType DEF StreamService
    <3> QED BY <3>1 DEF StreamTypeOK
  <2>4. CASE ~(streamReset \/ ~ready) /\ enabled /\ ~Publishes(free)
    BY <2>4, QueueFacts DEF StreamService
  <2>5. CASE ~(streamReset \/ ~ready) /\ enabled /\ Publishes(free)
    <3>1. records' = SubSeq(Queue, Taken + 1, Len(Queue))
      BY <2>5 DEF StreamService
    <3>2. Queue \in Seq(Records) /\ Taken \in Nat /\ Taken <= Len(Queue)
      BY <2>5, QueueFacts DEF Publishes
    <3> QED BY <2>1, <3>1, <3>2, QueueFacts, RestOfQueue
  <2> QED BY <2>2, <2>3, <2>4, <2>5
<1>2. CASE streamReset \/ ~ready
  BY <1>1, <1>2 DEF StreamService, StreamTypeOK
<1>3. CASE ~(streamReset \/ ~ready) /\ ~enabled
  BY <1>3, StreamKeepsType DEF StreamService
<1>4. CASE ~(streamReset \/ ~ready) /\ enabled
  <2>1. (faultSent \/ MakesMarker) \in BOOLEAN /\ (lost /\ ~MakesMarker) \in BOOLEAN
    OBVIOUS
  <2> QED BY <1>1, <1>4, <2>1 DEF StreamService, StreamTypeOK
<1> QED BY <1>2, <1>3, <1>4

LEMMA StartKeepsType ==
    ASSUME StreamTypeOK, board' = board, NEW s \in Sessions, NEW ready \in BOOLEAN,
           StreamKey(s, ready) \/ StreamGui(s, ready) \/ StreamDump(s, ready)
    PROVE  StreamTypeOK'
<1>1. CASE StreamKey(s, ready)
  BY <1>1, EmptyQueue DEF StreamKey, StreamTypeOK
<1>2. CASE StreamGui(s, ready)
  BY <1>2, EmptyQueue DEF StreamGui, StreamTypeOK
<1>3. CASE StreamDump(s, ready) /\ DumpFree(ready)
  <2>1. Good \in Records
    BY DEF Good, Records
  <2>2. <<Good>> \in Seq(Records) /\ Len(<<Good>>) = 1
    BY <2>1
  <2>3. 1 <= RecordsMax
    BY StreamConstants DEF StreamConstants
  <2> QED BY <1>3, <2>2, <2>3 DEF StreamDump, StreamTypeOK
<1>4. CASE StreamDump(s, ready) /\ ~DumpFree(ready)
  BY <1>4, StreamKeepsType DEF StreamDump
<1> QED BY <1>1, <1>2, <1>3, <1>4

LEMMA LostKeepsType ==
    ASSUME StreamTypeOK, board' = board, Lost PROVE StreamTypeOK'
<1>1. lost' \in BOOLEAN /\ fault' \in BOOLEAN
  BY DEF Lost, StreamTypeOK
<1> QED BY <1>1 DEF Lost, StreamTypeOK

LEMMA SnapshotKeepsType ==
    ASSUME StreamTypeOK, board' = board, NEW ready, GuiPush(ready) PROVE StreamTypeOK'
<1>1. Good \in Records
  BY DEF Good, Records
<1>2. <<Good>> \in Seq(Records) /\ Len(<<Good>>) = 1
  BY <1>1
<1>3. 1 <= RecordsMax
  BY StreamConstants DEF StreamConstants
<1> QED BY <1>2, <1>3 DEF GuiPush, StreamTypeOK

(* What a message of the host, an answer and a bulk message are made of.   *)
LEMMA MessageFacts ==
    /\ \A m \in Requests : m.session \in Sessions
    /\ \A m \in Requests : m.kind = "COMMAND" => m.sequence \in 1 .. MaxSequence
    /\ None \notin Requests /\ None \notin Answers /\ None \notin Messages
    /\ Garbage \notin Requests /\ Garbage # None
    /\ MaxSequence \in Nat /\ Chunks \in Nat /\ Chunks > 0
    /\ NoSession \notin Sessions
<1>1. \A c \in Commands : c[1] \in 1 .. MaxSequence
  BY ControlConstants DEF ControlConstants
<1>2. \A m \in Requests : m.session \in Sessions
  BY DEF Requests
<1>3. \A m \in Requests : m.kind = "COMMAND" => m.sequence \in 1 .. MaxSequence
  BY <1>1 DEF Requests
<1> QED BY <1>2, <1>3, ControlConstants, StreamConstants DEF ControlConstants, StreamConstants

LEMMA BulkIsMessage == session \in Sessions => Bulk \in Messages /\ Bulk # None
<1>1. 0 \in 0 .. MaxSequence /\ 0 \in 0 .. Chunks - 1
  BY MessageFacts
<1> QED BY <1>1, MessageFacts DEF Bulk, Messages

(* The steps that leave the streams alone, and those of the streams, keep  *)
(* StreamTypeOK.                                                           *)
LEMMA StreamTypeStep ==
    ASSUME TypeInv, [Next]_vars PROVE StreamTypeOK'
<1> USE DEF TypeInv, ControlTypeOK
<1>1. StreamTypeOK /\ Ready \in BOOLEAN /\ MayPublish \in BOOLEAN
  BY DEF Ready, MayPublish, PublishReady
<1>2. board' = board
  BY DEF Next, vars, Interrupts, ReceiveHead, ReceiveTail, ReceiveBroken, BusReset, SetConfiguration,
     PortLeaves, EpochChanges, ControlReset, Loop, Acquire, MissAcquisition, Snapshot, Idle,
     LeaseRunsOut, MessageAges, ServiceStep, BeginService, TakeCommand, Dispatch, Ignore, Hello,
     KeepAlive, Close, Reject, Execute, Diagnose, Refuse, TakesTurn, Dispatched, Respond,
     WriteChunk, PortRefuses, Stream
<1>3. CASE UNCHANGED streamVars
  BY <1>1, <1>2, <1>3, StreamKeepsType
<1>4. CASE /\ UNCHANGED <<mode, enabled, records, fault, faultSent, lost, owner>>
           /\ streamReset' = TRUE
  BY <1>1, <1>2, <1>4 DEF StreamTypeOK
<1>5. CASE StreamStop
  BY <1>1, <1>2, <1>5, StopKeepsType
<1>6. CASE Acquire
  BY <1>1, <1>2, <1>6, PushKeepsType DEF Acquire
<1>7. CASE MissAcquisition
  BY <1>1, <1>2, <1>7, LostKeepsType DEF MissAcquisition
<1>8. CASE Snapshot
  BY <1>1, <1>2, <1>8, SnapshotKeepsType DEF Snapshot
<1>9. CASE Execute
  <2>1. session \in Sessions
    BY <1>9 DEF Execute, TakesTurn, Accepted
  <2> QED BY <1>1, <1>2, <1>3, <1>5, <1>9, <2>1, StartKeepsType DEF Execute
<1>10. CASE Stream
  <2>1. CASE board = "huntsman" /\ ~Ready
    BY <1>3, <1>10, <2>1 DEF Stream
  <2>2. CASE ~(board = "huntsman" /\ ~Ready)
    <3>1. StreamService(Ready, MayPublish)
      BY <1>10, <2>2 DEF Stream
    <3> QED BY <1>1, <1>2, <3>1, ServiceKeepsType
  <2> QED BY <2>1, <2>2
<1>11. CASE BeginService
  BY <1>3, <1>5, <1>11 DEF BeginService
<1>12. CASE Interrupts \/ LeaseRunsOut \/ MessageAges \/ UNCHANGED vars
  BY <1>3, <1>4, <1>12 DEF Interrupts, ReceiveHead, ReceiveTail, ReceiveBroken, BusReset,
     SetConfiguration, PortLeaves, EpochChanges, StreamKept, LeaseRunsOut, MessageAges, vars
<1>13. CASE TakeCommand \/ Ignore \/ KeepAlive \/ Reject \/ Diagnose \/ Refuse
            \/ Respond \/ WriteChunk \/ PortRefuses
  BY <1>3, <1>13 DEF TakeCommand, Ignore, KeepAlive, Reject, Diagnose, Refuse, Respond,
     WriteChunk, PortRefuses
<1>14. CASE Hello \/ Close
  BY <1>5, <1>14 DEF Hello, Close, StopStreams
<1> QED BY <1>6, <1>7, <1>8, <1>9, <1>10, <1>11, <1>12, <1>13, <1>14
        DEF Next, ServiceStep, Dispatch

LEMMA InitTypeInv == Init => TypeInv
<1> SUFFICES ASSUME Init PROVE TypeInv
  OBVIOUS
<1>1. StreamTypeOK
  BY EmptyQueue DEF Init, StreamInit, StreamTypeOK
<1>2. 0 \in 0 .. MaxSequence /\ <<>> \in Seq(1 .. MaxSequence)
  BY MessageFacts
<1> QED BY <1>1, <1>2 DEF Init, TypeInv, ControlTypeOK

(* What changes beside the loop: the interrupt and the clock.              *)
LEMMA LoopKeepsType ==
    ASSUME TypeInv, StreamTypeOK', UNCHANGED Loop,
           attached' \in BOOLEAN, reset' \in BOOLEAN, active' \in BOOLEAN, active' => active,
           receiving' \in BOOLEAN, rxLate' \in BOOLEAN, rxAhead' \in BOOLEAN,
           rx' \in Requests \cup {None, Garbage}, line' \in Sessions \cup {NoSession}
    PROVE  TypeInv'
<1>1. /\ pc' = pc /\ wire' = wire /\ reply' = reply /\ tx' = tx /\ session' = session
      /\ sequence' = sequence /\ leaseOver' = leaseOver /\ ran' = ran
  BY DEF Loop, sessionVars
<1> QED BY <1>1 DEF TypeInv, ControlTypeOK

LEMMA TypeStep ==
    ASSUME TypeInv, [Next]_vars PROVE TypeInv'
<1> USE DEF TypeInv, ControlTypeOK
<1>0. StreamTypeOK'
  BY StreamTypeStep
<1>1. CASE UNCHANGED vars
  BY <1>0, <1>1 DEF vars, isrVars, sessionVars
<1>2. CASE Interrupts
  <2>1. CASE ReceiveHead
    BY <1>0, <2>1, LoopKeepsType DEF ReceiveHead
  <2>2. ASSUME NEW m \in Sendable \cup {Garbage}, ReceiveTail(m) PROVE TypeInv'
    <3>1. rx' \in Requests \cup {None, Garbage}
      BY <2>2 DEF ReceiveTail, Sendable
    <3> QED BY <1>0, <2>2, <3>1, LoopKeepsType DEF ReceiveTail
  <2>3. CASE ReceiveBroken
    BY <1>0, <2>3, LoopKeepsType DEF ReceiveBroken
  <2>4. CASE ControlReset /\ attached' \in BOOLEAN
    BY <1>0, <2>4, LoopKeepsType DEF ControlReset
  <2>5. CASE PortLeaves
    BY <1>0, <2>5, LoopKeepsType DEF PortLeaves, isrVars
  <2>6. CASE BusReset \/ SetConfiguration \/ EpochChanges
    BY <2>4, <2>6 DEF BusReset, SetConfiguration, EpochChanges
  <2> QED BY <1>2, <2>1, <2>2, <2>3, <2>5, <2>6 DEF Interrupts
<1>3. CASE Acquire \/ MissAcquisition \/ Snapshot
  BY <1>0, <1>3 DEF Acquire, MissAcquisition, Snapshot, Idle, isrVars, sessionVars
<1>4. CASE LeaseRunsOut
  BY <1>0, <1>4 DEF LeaseRunsOut, isrVars
<1>12. CASE MessageAges
  BY <1>0, <1>12, LoopKeepsType DEF MessageAges
<1>5. CASE BeginService
  <2>1. active' \in BOOLEAN /\ (active' => active)
    BY <1>5 DEF BeginService
  <2>2. tx' \in {tx, None} /\ reply' \in {reply, None}
    BY <1>5 DEF BeginService
  <2>3. /\ pc' = "take" /\ reset' = FALSE
        /\ UNCHANGED <<attached, receiving, rxLate, rxAhead, rx, wire>>
        /\ UNCHANGED <<session, sequence, leaseOver, ran, line>>
    BY <1>5 DEF BeginService, isrVars, sessionVars
  <2>4. reply' \in Answers \cup {None} /\ tx' \in Messages \cup {None}
    BY <2>2
  <2>5. active' => session' \in Sessions
    BY <2>1, <2>3
  <2> QED BY <1>0, <2>1, <2>3, <2>4, <2>5
<1>6. CASE TakeCommand
  <2>1. receiving' \in BOOLEAN
    BY <1>6 DEF TakeCommand
  <2> QED BY <1>0, <1>6, <2>1 DEF TakeCommand, sessionVars
<1>7. CASE Dispatch
  <2> USE DEF Dispatched, isrVars, sessionVars
  <2>1. CASE Ignore
    BY <1>0, <2>1 DEF Ignore
  <2>2. CASE Hello
    <3>1. wire \in Requests /\ wire.session \in Sessions
      BY <2>2, MessageFacts DEF Hello
    <3>2. 0 \in 0 .. MaxSequence /\ <<>> \in Seq(1 .. MaxSequence)
      BY MessageFacts
    <3>3. reply' \in Answers
      BY <2>2, <3>2 DEF Hello, Answers
    <3> QED BY <1>0, <2>2, <3>1, <3>2, <3>3 DEF Hello
  <2>3. CASE KeepAlive
    BY <1>0, <2>3 DEF KeepAlive
  <2>9. CASE Close
    BY <1>0, <2>9 DEF Close
  <2>4. CASE Reject
    <3>1. wire.sequence \in 0 .. MaxSequence
      BY <2>4, MessageFacts DEF Reject, Accepted
    <3>2. reply' \in Answers
      BY <2>4, <3>1 DEF Reject, Answers
    <3> QED BY <1>0, <2>4, <3>2 DEF Reject
  <2>5. ASSUME NEW answer \in {"ACK", "ERROR"}, TakesTurn(answer),
               tx' \in Messages \cup {None}
        PROVE  TypeInv'
    <3>1. wire.sequence \in 1 .. MaxSequence
      BY <2>5, MessageFacts DEF TakesTurn, Accepted
    <3>2. wire.sequence \in 0 .. MaxSequence
      BY <3>1, MessageFacts
    <3>3. reply' \in Answers
      BY <2>5, <3>2 DEF TakesTurn, Answers
    <3>4. ran' \in Seq(1 .. MaxSequence)
      BY <2>5, <3>1 DEF TakesTurn
    <3> QED BY <1>0, <2>5, <3>2, <3>3, <3>4 DEF TakesTurn
  <2>6. CASE Diagnose
    <3>1. tx' \in Messages \cup {None}
      BY <2>6, BulkIsMessage DEF Diagnose, Accepted
    <3> QED BY <2>5, <2>6, <3>1 DEF Diagnose
  <2>7. CASE Execute
    <3>1. TakesTurn("ACK") /\ tx' \in Messages \cup {None}
      BY <2>7 DEF Execute
    <3> QED BY <2>5, <3>1
  <2>8. CASE Refuse
    <3>1. TakesTurn("ERROR") /\ tx' \in Messages \cup {None}
      BY <2>8 DEF Refuse
    <3> QED BY <2>5, <3>1
  <2> QED BY <1>7, <2>1, <2>2, <2>3, <2>4, <2>6, <2>7, <2>8, <2>9 DEF Dispatch
<1>8. CASE Respond
  <2>1. tx' \in Messages \cup {None} /\ reply' \in Answers \cup {None}
    <3>1. CASE Ready /\ Encodes
      <4>1. session \in Sessions /\ reply \in Answers
        BY <3>1 DEF Ready, Encodes
      <4>2. reply.kind \in {"READY", "ACK", "ERROR"} /\ reply.sequence \in 0 .. MaxSequence
        BY <4>1 DEF Answers
      <4>3. 0 \in 0 .. Chunks - 1
        BY MessageFacts
      <4> QED BY <1>8, <3>1, <4>1, <4>2, <4>3 DEF Respond, Messages
    <3> QED BY <1>8, <3>1 DEF Respond
  <2>2. pc' \in {"stream", "write"} /\ (pc' = "write" => tx' # None)
    BY <1>8 DEF Respond
  <2> QED BY <1>0, <1>8, <2>1, <2>2 DEF Respond, isrVars, sessionVars
<1>9. CASE WriteChunk
  <2>1. tx \in Messages
    BY <1>9 DEF WriteChunk
  <2>2. tx' \in Messages \cup {None}
    <3>1. CASE tx.at # Chunks - 1
      <4>1. tx.at \in 0 .. Chunks - 1 /\ tx.at + 1 \in 0 .. Chunks - 1
        BY <2>1, <3>1, MessageFacts DEF Messages
      <4> QED BY <1>9, <2>1, <3>1, <4>1 DEF WriteChunk, Messages
    <3> QED BY <1>9, <3>1 DEF WriteChunk
  <2>3. line' \in Sessions \cup {NoSession}
    BY <1>9, <2>1 DEF WriteChunk, Messages
  <2> QED BY <1>0, <1>9, <2>2, <2>3 DEF WriteChunk, isrVars, sessionVars
<1>10. CASE PortRefuses
  BY <1>0, <1>10 DEF PortRefuses, isrVars, sessionVars
<1>11. CASE Stream
  <2>1. tx' \in Messages \cup {None}
    BY <1>11, BulkIsMessage DEF Stream, MayPublish, PublishReady, Ready
  <2> QED BY <1>0, <1>11, <2>1 DEF Stream, isrVars, sessionVars
<1> QED BY <1>1, <1>2, <1>3, <1>4, <1>5, <1>6, <1>7, <1>8, <1>9, <1>10, <1>11, <1>12
        DEF Next, ServiceStep

-----------------------------------------------------------------------------
(* Commands run once and in order                                          *)

LEMMA InitOrderInv == Init => OrderInv
BY DEF Init, OrderInv, ExecutedOnceInOrder

LEMMA OrderStep ==
    ASSUME TypeInv, OrderInv, [Next]_vars PROVE OrderInv'
<1> USE DEF TypeInv, ControlTypeOK, OrderInv, ExecutedOnceInOrder
<1>1. CASE UNCHANGED <<ran, sequence>>
  BY <1>1
<1>2. CASE Hello
  BY <1>2 DEF Hello
<1>3. ASSUME NEW answer \in {"ACK", "ERROR"}, TakesTurn(answer) PROVE OrderInv'
  <2>1. sequence' = sequence + 1 /\ ran' = Append(ran, sequence + 1)
    BY <1>3 DEF TakesTurn, InOrder
  <2>2. /\ Len(ran') = Len(ran) + 1
        /\ \A i \in 1 .. Len(ran) : ran'[i] = ran[i]
        /\ ran'[Len(ran) + 1] = sequence + 1
    BY <2>1
  <2>3. DOMAIN ran' = 1 .. Len(ran) + 1 /\ DOMAIN ran = 1 .. Len(ran)
    BY <2>1
  <2> QED BY <2>1, <2>2, <2>3
<1>4. CASE Execute \/ Diagnose \/ Refuse
  <2>1. TakesTurn("ACK") \/ TakesTurn("ERROR")
    BY <1>4 DEF Execute, Diagnose, Refuse
  <2> QED BY <1>3, <2>1
<1>5. CASE Interrupts \/ MessageAges
  BY <1>1, <1>5 DEF Interrupts, ReceiveHead, ReceiveTail, ReceiveBroken, BusReset, SetConfiguration,
     PortLeaves, EpochChanges, ControlReset, MessageAges, Loop, sessionVars
<1>6. CASE Acquire \/ MissAcquisition \/ Snapshot \/ LeaseRunsOut \/ UNCHANGED vars
  BY <1>1, <1>6 DEF Acquire, MissAcquisition, Snapshot, Idle, LeaseRunsOut, sessionVars, vars
<1>7. CASE BeginService \/ TakeCommand \/ Respond \/ WriteChunk \/ PortRefuses \/ Stream
  BY <1>1, <1>7 DEF BeginService, TakeCommand, Respond, WriteChunk, PortRefuses, Stream, sessionVars
<1>8. CASE Ignore \/ KeepAlive \/ Close \/ Reject
  BY <1>1, <1>8 DEF Ignore, KeepAlive, Close, Reject, sessionVars
<1> QED BY <1>2, <1>4, <1>5, <1>6, <1>7, <1>8 DEF Next, ServiceStep, Dispatch

-----------------------------------------------------------------------------
(* Streams end with their session                                          *)

LEMMA EndStep ==
    ASSUME TypeInv, StreamsEndWithSession, [Next]_vars PROVE StreamsEndWithSession'
<1> USE DEF StreamsEndWithSession
<1>1. CASE UNCHANGED <<mode, owner, reset, active, session>>
  BY <1>1
<1>2. CASE mode' = "off" \/ reset' = TRUE
  BY <1>2
<1>3. CASE Interrupts \/ MessageAges
  <2>1. CASE ControlReset
    BY <1>2, <2>1 DEF ControlReset
  <2> QED BY <1>1, <1>3, <2>1 DEF Interrupts, ReceiveHead, ReceiveTail, ReceiveBroken, BusReset,
      SetConfiguration, PortLeaves, EpochChanges, MessageAges, Loop, sessionVars, streamVars
<1>4. CASE Acquire \/ MissAcquisition \/ Snapshot
  BY <1>1, <1>4 DEF Acquire, MissAcquisition, Snapshot, Push, Lost, GuiPush, Idle, sessionVars
<1>5. CASE LeaseRunsOut \/ UNCHANGED vars
  BY <1>1, <1>5 DEF LeaseRunsOut, vars, sessionVars, streamVars
<1>6. CASE BeginService
  <2>1. CASE reset \/ Expires
    BY <1>2, <1>6, <2>1 DEF BeginService, StreamStop
  <2>2. CASE ~(reset \/ Expires)
    <3>1. reset' = FALSE /\ active' = active /\ UNCHANGED <<mode, owner, session>> /\ reset = FALSE
      BY <1>6, <2>2 DEF BeginService, sessionVars, streamVars, TypeInv, ControlTypeOK
    <3> QED BY <1>1, <3>1
  <2> QED BY <2>1, <2>2
<1>7. CASE Hello \/ Close
  BY <1>2, <1>7 DEF Hello, Close, StopStreams, StreamStop
<1>8. CASE Execute
  <2>1. /\ active /\ UNCHANGED <<active, session, reset>>
    BY <1>8 DEF Execute, TakesTurn, Accepted, Dispatched
  <2>2. \/ mode' = "off" \/ owner' = session \/ UNCHANGED <<mode, owner>>
    BY <1>8 DEF Execute, StreamKey, StreamGui, StreamDump, StreamStop, streamVars
  <2> QED BY <1>1, <1>2, <2>1, <2>2
<1>9. CASE Diagnose \/ Refuse
  BY <1>1, <1>9 DEF Diagnose, Refuse, TakesTurn, Dispatched, streamVars
<1>10. CASE Ignore \/ KeepAlive \/ Reject
  BY <1>1, <1>10 DEF Ignore, KeepAlive, Reject, Dispatched, sessionVars, streamVars
<1>11. CASE TakeCommand \/ Respond \/ WriteChunk \/ PortRefuses
  BY <1>1, <1>11 DEF TakeCommand, Respond, WriteChunk, PortRefuses, sessionVars, streamVars
<1>12. CASE Stream
  <2>1. UNCHANGED <<reset, active, session>>
    BY <1>12 DEF Stream, sessionVars
  <2>2. mode' = "off" \/ UNCHANGED <<mode, owner>>
    BY <1>12 DEF Stream, StreamService, streamVars
  <2> QED BY <1>1, <1>2, <2>1, <2>2
<1> QED BY <1>3, <1>4, <1>5, <1>6, <1>7, <1>8, <1>9, <1>10, <1>11, <1>12
        DEF Next, ServiceStep, Dispatch

-----------------------------------------------------------------------------
(* No capture hides a loss                                                 *)

LEMMA PushKeepsLoss ==
    ASSUME TypeInv, LossInv, NEW reading \in {"good", "invalid"}, Push(reading, Ready), Ready' = Ready
    PROVE  LossInv'
<1> USE DEF LossInv, NoSilentLoss
<1>1. mode' = mode
  BY DEF Push
<1>2. CASE mode # "key"
  BY <1>1, <1>2
<1>3. CASE mode = "key" /\ (~Running(Ready) \/ fault)
  BY <1>1, <1>3 DEF Push, Running
<1>4. CASE mode = "key" /\ Running(Ready) /\ ~fault /\ Refused(Ready)
  BY <1>1, <1>4 DEF Push
<1>5. CASE mode = "key" /\ Running(Ready) /\ ~fault /\ ~Refused(Ready)
  <2>1. Ready /\ lost = FALSE
    BY <1>5 DEF Refused, TypeInv, ControlTypeOK, StreamTypeOK
  <2>2. /\ records' = Append(records, [mark |-> reading, gap |-> FALSE])
        /\ enabled' /\ lost' = FALSE
    BY <1>5, <2>1 DEF Push
  <2>3. records \in Seq(Records)
    BY DEF TypeInv, ControlTypeOK, StreamTypeOK
  <2>4. \A i \in DOMAIN records' : records'[i].gap => records'[i].mark = "loss"
    <3> SUFFICES ASSUME NEW i \in DOMAIN records' PROVE records'[i].gap => records'[i].mark = "loss"
      OBVIOUS
    <3>1. CASE i \in 1 .. Len(records)
      BY <1>5, <2>2, <2>3, <3>1
    <3>2. CASE i = Len(records) + 1
      BY <2>2, <2>3, <3>2
    <3> QED BY <2>2, <2>3, <3>1, <3>2
  <2> QED BY <1>1, <2>2, <2>4
<1> QED BY <1>2, <1>3, <1>4, <1>5

LEMMA ServiceKeepsLoss ==
    ASSUME TypeInv, LossInv, NEW free \in BOOLEAN, StreamService(Ready, free), Ready' = Ready
    PROVE  LossInv'
<1> USE DEF LossInv, NoSilentLoss
<1>1. CASE streamReset \/ ~Ready
  BY <1>1 DEF StreamService
<1>2. CASE ~(streamReset \/ ~Ready) /\ ~enabled
  BY <1>2 DEF StreamService, streamVars
<1>3. CASE ~(streamReset \/ ~Ready) /\ enabled /\ mode = "key"
  <2>1. Queue \in Seq(Records) /\ Taken \in Nat /\ (Queue # <<>> => Taken <= Len(Queue))
    BY QueueFacts DEF TypeInv, ControlTypeOK
  <2>2. \A i \in 1 .. Len(Queue) : Queue[i].gap => Queue[i].mark = "loss"
    <3>1. records \in Seq(Records)
      BY DEF TypeInv, ControlTypeOK, StreamTypeOK
    <3>2. CASE MakesMarker
      BY <3>2 DEF Queue
    <3>3. CASE ~MakesMarker
      BY <1>3, <3>1, <3>3 DEF Queue
    <3> QED BY <3>2, <3>3
  <2>3. \A i \in DOMAIN records' : records'[i].gap => records'[i].mark = "loss"
    <3>1. CASE Publishes(free)
      <4>1. records' = SubSeq(Queue, Taken + 1, Len(Queue)) /\ Taken <= Len(Queue)
        BY <1>3, <2>1, <3>1 DEF StreamService, Publishes
      <4>2. /\ records' \in Seq(Records)
            /\ \A i \in 1 .. Len(records') : records'[i] = Queue[Taken + i] /\ Taken + i \in 1 .. Len(Queue)
        BY <2>1, <4>1, RestOfQueue
      <4> QED BY <2>2, <4>2
    <3>2. CASE ~Publishes(free)
      BY <1>3, <2>1, <2>2, <3>2 DEF StreamService
    <3> QED BY <3>1, <3>2
  <2>4. enabled' = enabled /\ mode' = mode /\ fault' = fault /\ (lost' => lost)
    BY <1>3 DEF StreamService
  <2> QED BY <1>3, <2>3, <2>4
<1>4. CASE ~(streamReset \/ ~Ready) /\ enabled /\ mode # "key"
  BY <1>4 DEF StreamService
<1> QED BY <1>1, <1>2, <1>3, <1>4

LEMMA InitLossInv == Init => LossInv
BY DEF Init, StreamInit, LossInv, NoSilentLoss

LEMMA LossStep ==
    ASSUME TypeInv, LossInv, [Next]_vars PROVE LossInv'
<1>1. CASE UNCHANGED <<mode, enabled, records, fault, lost>> /\ (Ready' => Ready)
  BY <1>1 DEF LossInv, NoSilentLoss
<1>2. CASE mode' # "key"
  BY <1>2 DEF LossInv, NoSilentLoss
<1>3. CASE Interrupts
  <2>1. CASE ControlReset /\ UNCHANGED <<mode, enabled, records, fault, lost>>
    BY <1>1, <2>1 DEF ControlReset, Ready
  <2>2. CASE BusReset \/ SetConfiguration \/ EpochChanges
    BY <2>1, <2>2 DEF BusReset, SetConfiguration, EpochChanges, StreamKept, streamVars
  <2>3. CASE PortLeaves
    BY <1>1, <2>3 DEF PortLeaves, Ready, streamVars
  <2>4. CASE ReceiveHead \/ ReceiveBroken \/ \E m \in Sendable \cup {Garbage} : ReceiveTail(m)
    BY <1>1, <2>4 DEF ReceiveHead, ReceiveTail, ReceiveBroken, Ready, streamVars
  <2> QED BY <1>3, <2>2, <2>3, <2>4 DEF Interrupts
<1>4. CASE Acquire
  BY <1>4, PushKeepsLoss DEF Acquire, Idle, Ready
<1>5. CASE MissAcquisition
  <2>1. Ready' = Ready
    BY <1>5 DEF MissAcquisition, Idle, Ready
  <2> QED BY <1>5, <2>1 DEF MissAcquisition, Lost, Missed, LossInv, NoSilentLoss
<1>6. CASE Snapshot
  BY <1>2, <1>6 DEF Snapshot, GuiPush
<1>7. CASE LeaseRunsOut \/ MessageAges \/ UNCHANGED vars
  BY <1>1, <1>7 DEF LeaseRunsOut, MessageAges, vars, streamVars, Ready
<1>8. CASE BeginService
  <2>1. CASE reset \/ Expires
    BY <1>2, <1>8, <2>1 DEF BeginService, StreamStop
  <2>2. CASE ~(reset \/ Expires)
    BY <1>1, <1>8, <2>2 DEF BeginService, streamVars, Ready
  <2> QED BY <2>1, <2>2
<1>9. CASE Hello \/ Close
  BY <1>2, <1>9 DEF Hello, Close, StopStreams, StreamStop
<1>10. CASE Execute
  <2>1. Ready' = Ready
    BY <1>10 DEF Execute, TakesTurn, Dispatched, Ready
  <2>2. CASE StreamKey(session, Ready)
    BY <2>1, <2>2 DEF StreamKey, LossInv, NoSilentLoss
  <2>3. CASE ~StreamKey(session, Ready)
    BY <1>1, <1>2, <1>10, <2>1, <2>3 DEF Execute, StreamGui, StreamDump, StreamStop, streamVars
  <2> QED BY <2>2, <2>3
<1>11. CASE Diagnose \/ Refuse
  BY <1>1, <1>11 DEF Diagnose, Refuse, TakesTurn, Dispatched, streamVars, Ready
<1>12. CASE Ignore \/ KeepAlive \/ Reject
  BY <1>1, <1>12 DEF Ignore, KeepAlive, Reject, Dispatched, streamVars, Ready
<1>13. CASE TakeCommand \/ Respond \/ WriteChunk \/ PortRefuses
  BY <1>1, <1>13 DEF TakeCommand, Respond, WriteChunk, PortRefuses, streamVars, Ready
<1>14. CASE Stream
  <2>1. Ready' = Ready /\ MayPublish \in BOOLEAN
    BY <1>14 DEF Stream, Ready, MayPublish, PublishReady
  <2>2. CASE board = "huntsman" /\ ~Ready
    BY <1>1, <1>14, <2>1, <2>2 DEF Stream, streamVars
  <2>3. CASE ~(board = "huntsman" /\ ~Ready)
    BY <1>14, <2>1, <2>3, ServiceKeepsLoss DEF Stream
  <2> QED BY <2>2, <2>3
<1> QED BY <1>3, <1>4, <1>5, <1>6, <1>7, <1>8, <1>9, <1>10, <1>11, <1>12, <1>13, <1>14
        DEF Next, ServiceStep, Dispatch

-----------------------------------------------------------------------------
(* Messages reach the host whole                                           *)

LEMMA InitWholeInv == Init => WholeInv
BY MessageFacts DEF Init, WholeInv, FreshRequests, MessagesAreWhole, FreshHello, Ready

(* A step that brings no new request, session or message leaves the        *)
(* sessions that are asked for fresh.                                      *)
LEMMA FreshKept ==
    ASSUME TypeInv, WholeInv,
           rx' \in {rx, None}, wire' \in {wire, None}, session' = session,
           line' \in {line, NoSession} \/ (tx # None /\ line' = tx.session),
           tx' = None \/ tx'.session = session \/ (tx # None /\ tx'.session = tx.session)
    PROVE  FreshRequests'
<1>1. \A m \in Requests : m.session # NoSession
  BY MessageFacts
<1>2. ASSUME NEW m, FreshHello(m)
      PROVE  m \in Requests /\ m.kind = "HELLO" =>
                /\ m.session \notin {session', line'}
                /\ tx' # None => m.session # tx'.session
  BY <1>1, <1>2 DEF FreshHello
<1>3. FreshHello(rx)'
  BY <1>2, MessageFacts DEF FreshHello, FreshRequests, WholeInv
<1>4. FreshHello(wire)'
  BY <1>2, MessageFacts DEF FreshHello, FreshRequests, WholeInv
<1>5. (rx \in Requests /\ wire \in Requests /\ rx.kind = "HELLO" /\ wire.kind = "HELLO"
       => rx.session # wire.session)'
  BY MessageFacts DEF WholeInv, FreshRequests
<1> QED BY <1>3, <1>4, <1>5 DEF FreshRequests

(* ... and the line as it was, when the transmitter stays or a reset waits. *)
LEMMA LineKept ==
    ASSUME TypeInv, WholeInv,
           \/ reset' = TRUE
           \/ UNCHANGED <<tx, line, session, reset>> /\ (Ready' => Ready)
    PROVE  /\ MessagesAreWhole'
           /\ (~reset /\ Ready /\ line = session => tx # None /\ tx.session = session)'
BY DEF WholeInv, MessagesAreWhole

(* A message that starts finds nothing of its session on the line.         *)
LEMMA StartIsWhole ==
    ASSUME TypeInv, WholeInv, Ready, tx = None,
           tx' # None, tx'.session = session, tx'.at = 0,
           UNCHANGED <<line, session, reset, rx>>, wire' \in {wire, None}
    PROVE  WholeInv'
<1>1. ~reset => line # session
  BY DEF WholeInv
<1>2. MessagesAreWhole'
  BY <1>1 DEF MessagesAreWhole
<1>3. (~reset /\ Ready /\ line = session => tx # None /\ tx.session = session)'
  OBVIOUS
<1> QED BY <1>2, <1>3, FreshKept DEF WholeInv

LEMMA GarbageIsNoMessage == Garbage \notin Messages
BY ControlConstants DEF ControlConstants

LEMMA WholeStep ==
    ASSUME TypeInv, WholeInv, [Next]_vars PROVE WholeInv'
<1>1. ASSUME UNCHANGED <<tx, line, session, reset>>, Ready' => Ready,
             rx' \in {rx, None}, wire' \in {wire, None}
      PROVE  WholeInv'
  <2>1. FreshRequests'
    BY <1>1, FreshKept
  <2> QED BY <1>1, <2>1, LineKept DEF WholeInv
<1>2. CASE Interrupts
  <2>1. CASE ReceiveHead \/ ReceiveBroken
    <3>1. UNCHANGED <<tx, line, session, reset, rx, wire, active, attached>>
      BY <2>1 DEF ReceiveHead, ReceiveBroken, Loop, sessionVars
    <3> QED BY <1>1, <3>1 DEF Ready
  <2>2. ASSUME NEW m \in Sendable \cup {Garbage}, ReceiveTail(m) PROVE WholeInv'
    <3>1. UNCHANGED <<tx, line, session, reset, wire, active, attached>>
      BY <2>2 DEF ReceiveTail, Loop, sessionVars
    <3>2. CASE rx # None
      <4>1. rx' = rx
        BY <2>2, <3>2 DEF ReceiveTail
      <4> QED BY <1>1, <3>1, <4>1 DEF Ready
    <3>3. CASE rx = None /\ m = Garbage
      <4>1. rx' = Garbage
        BY <2>2, <3>3 DEF ReceiveTail
      <4>2. FreshHello(rx)' /\ FreshHello(wire)'
        BY <3>1, <4>1, MessageFacts DEF FreshHello, FreshRequests, WholeInv
      <4> QED BY <3>1, <4>1, <4>2, LineKept, MessageFacts DEF FreshRequests, WholeInv, Ready
    <3>4. CASE rx = None /\ m \in Sendable
      <4>1. rx' = m /\ m \in Requests /\ (m.kind = "HELLO" => m.session \notin Held)
        BY <2>2, <3>4 DEF ReceiveTail, Sendable
      <4>2. /\ {session, line} \subseteq Held
            /\ tx # None /\ tx # Garbage => tx.session \in Held
            /\ wire \in Requests => wire.session \in Held
        BY MessageFacts DEF Held
      <4>3. tx # None => tx # Garbage \/ m.kind # "HELLO" \/ m.session # tx.session
        BY GarbageIsNoMessage DEF TypeInv, ControlTypeOK
      <4>4. FreshHello(rx)' /\ FreshHello(wire)'
        BY <3>1, <4>1, <4>2, <4>3, GarbageIsNoMessage DEF FreshHello, FreshRequests, WholeInv, TypeInv, ControlTypeOK
      <4>5. (rx \in Requests /\ wire \in Requests /\ rx.kind = "HELLO" /\ wire.kind = "HELLO"
             => rx.session # wire.session)'
        BY <3>1, <4>1, <4>2
      <4> QED BY <3>1, <4>4, <4>5, LineKept DEF FreshRequests, WholeInv, Ready
    <3> QED BY <3>2, <3>3, <3>4, <2>2
  <2>3. CASE ControlReset
    <3>1. /\ reset' = TRUE /\ rx' = None /\ line' = NoSession
          /\ UNCHANGED <<wire, session, tx>>
      BY <2>3 DEF ControlReset, Loop, sessionVars
    <3>2. FreshRequests'
      BY <3>1, FreshKept
    <3> QED BY <3>1, <3>2, LineKept DEF WholeInv
  <2>4. CASE PortLeaves
    <3>1. UNCHANGED <<tx, line, session, reset, rx, wire, active>> /\ attached' = FALSE
      BY <2>4 DEF PortLeaves, Loop, isrVars, sessionVars
    <3> QED BY <1>1, <3>1 DEF Ready
  <2> QED BY <1>2, <2>1, <2>2, <2>3, <2>4 DEF Interrupts, BusReset, SetConfiguration, EpochChanges
<1>3. CASE Acquire \/ MissAcquisition \/ Snapshot
  <2>1. UNCHANGED <<tx, line, session, reset, rx, wire, active, attached>>
    BY <1>3 DEF Acquire, MissAcquisition, Snapshot, Idle, isrVars, sessionVars
  <2> QED BY <1>1, <2>1 DEF Ready
<1>4. CASE LeaseRunsOut \/ MessageAges \/ UNCHANGED vars
  <2>1. UNCHANGED <<tx, line, session, reset, rx, wire, active, attached>>
    BY <1>4 DEF LeaseRunsOut, MessageAges, Loop, vars, isrVars, sessionVars
  <2> QED BY <1>1, <2>1 DEF Ready
<1>5. CASE BeginService
  <2>1. UNCHANGED <<line, session, rx, wire, attached>> /\ (active' => active)
    BY <1>5 DEF BeginService, isrVars, sessionVars
  <2>2. CASE reset
    <3>1. tx' = None /\ active' = FALSE
      BY <1>5, <2>2 DEF BeginService
    <3>2. FreshRequests'
      BY <2>1, <3>1, FreshKept
    <3> QED BY <3>1, <3>2 DEF WholeInv, MessagesAreWhole, Ready
  <2>3. CASE ~reset
    <3>1. UNCHANGED <<tx, reset>>
      BY <1>5, <2>3 DEF BeginService, TypeInv, ControlTypeOK
    <3> QED BY <1>1, <2>1, <3>1 DEF Ready
  <2> QED BY <2>2, <2>3
<1>6. CASE TakeCommand
  <2>1. /\ wire' = rx /\ rx' = None
        /\ UNCHANGED <<tx, line, session, reset, active, attached>>
    BY <1>6 DEF TakeCommand, sessionVars
  <2>2. FreshHello(rx)' /\ FreshHello(wire)'
    BY <2>1, MessageFacts DEF FreshHello, FreshRequests, WholeInv
  <2> QED BY <2>1, <2>2, LineKept, MessageFacts DEF FreshRequests, WholeInv, Ready
<1>7. CASE Dispatch
  <2>1. CASE Ignore \/ KeepAlive \/ Reject \/ Close
    <3>1. UNCHANGED <<tx, line, session, reset, rx, attached>> /\ wire' = None /\ (active' => active)
      BY <2>1 DEF Ignore, KeepAlive, Reject, Close, Dispatched, isrVars, sessionVars
    <3> QED BY <1>1, <3>1 DEF Ready
  <2>2. CASE Hello
    <3>1. /\ wire \in Requests /\ wire.kind = "HELLO" /\ session' = wire.session
          /\ UNCHANGED <<tx, line, reset, rx>> /\ wire' = None
      BY <2>2 DEF Hello, Dispatched, isrVars, TypeInv, ControlTypeOK
    <3>2. MessagesAreWhole'
      BY <3>1 DEF WholeInv, MessagesAreWhole
    <3>3. line' # session'
      BY <3>1 DEF WholeInv, FreshRequests, FreshHello
    <3>4. FreshHello(rx)' /\ FreshHello(wire)'
      BY <3>1, MessageFacts DEF WholeInv, FreshRequests, FreshHello
    <3> QED BY <3>1, <3>2, <3>3, <3>4, MessageFacts DEF FreshRequests, WholeInv
  <2>3. CASE Execute \/ Refuse
    <3>1. UNCHANGED <<tx, line, session, reset, rx, active, attached>> /\ wire' = None
      BY <2>3 DEF Execute, Refuse, TakesTurn, Dispatched, isrVars
    <3> QED BY <1>1, <3>1 DEF Ready
  <2>4. CASE Diagnose
    <3>1. UNCHANGED <<line, session, reset, rx, active, attached>> /\ wire' = None
      BY <2>4 DEF Diagnose, TakesTurn, Dispatched, isrVars
    <3>2. CASE PublishReady
      <4>1. Ready /\ tx = None /\ tx' = Bulk /\ session \in Sessions
        BY <2>4, <3>2 DEF Diagnose, PublishReady, Ready, TypeInv
      <4>2. tx' # None /\ tx'.session = session /\ tx'.at = 0
        BY <4>1, BulkIsMessage DEF Bulk
      <4> QED BY <3>1, <4>1, <4>2, StartIsWhole
    <3>3. CASE ~PublishReady
      BY <1>1, <2>4, <3>1, <3>3 DEF Diagnose, Ready
    <3> QED BY <3>2, <3>3
  <2> QED BY <1>7, <2>1, <2>2, <2>3, <2>4 DEF Dispatch
<1>8. CASE Respond
  <2>1. UNCHANGED <<line, session, reset, rx, wire, active, attached>>
    BY <1>8 DEF Respond, isrVars, sessionVars
  <2>2. CASE ~Ready
    <3>1. tx' = None
      BY <1>8, <2>2 DEF Respond
    <3>2. FreshRequests'
      BY <2>1, <3>1, FreshKept
    <3> QED BY <2>1, <2>2, <3>1, <3>2 DEF WholeInv, MessagesAreWhole, Ready
  <2>3. CASE Ready /\ Encodes
    <3>1. tx = None /\ tx' = [kind |-> reply.kind, session |-> session,
                              sequence |-> reply.sequence, at |-> 0]
      BY <1>8, <2>3 DEF Respond, Encodes
    <3>2. tx' \in Messages \cup {None}
      BY TypeStep DEF TypeInv, ControlTypeOK
    <3>3. reply \in Answers /\ session \in Sessions
      BY <2>3 DEF Encodes, Ready, TypeInv, ControlTypeOK
    <3>4. tx' \in Messages
      <4>1. reply.kind \in {"READY", "ACK", "ERROR"} /\ reply.sequence \in 0 .. MaxSequence
        BY <3>3 DEF Answers
      <4>2. 0 \in 0 .. Chunks - 1
        BY MessageFacts
      <4> QED BY <3>1, <3>3, <4>1, <4>2 DEF Messages
    <3>5. tx' # None /\ tx'.session = session /\ tx'.at = 0
      BY <3>1, <3>4, MessageFacts
    <3> QED BY <2>1, <2>3, <3>1, <3>5, StartIsWhole
  <2>4. CASE Ready /\ ~Encodes
    <3>1. tx' = tx
      BY <1>8, <2>4 DEF Respond
    <3> QED BY <1>1, <2>1, <3>1 DEF Ready
  <2> QED BY <2>2, <2>3, <2>4
<1>9. CASE WriteChunk
  <2>1. UNCHANGED <<session, reset, rx, wire, active, attached>>
    BY <1>9 DEF WriteChunk, isrVars, sessionVars
  <2>2. tx \in Messages /\ tx # None
    BY <1>9 DEF WriteChunk, TypeInv, ControlTypeOK
  <2>3. tx.at \in 0 .. Chunks - 1 /\ tx.session \in Sessions
    BY <2>2 DEF Messages
  <2>4. CASE tx.at = Chunks - 1
    <3>1. tx' = None /\ line' = NoSession
      BY <1>9, <2>4 DEF WriteChunk
    <3>2. FreshRequests'
      BY <2>1, <3>1, FreshKept
    <3>3. Ready' => line' # session'
      BY <2>1, <3>1, MessageFacts DEF Ready, TypeInv
    <3> QED BY <3>1, <3>2, <3>3 DEF WholeInv, MessagesAreWhole
  <2>5. CASE tx.at # Chunks - 1
    <3>1. tx' = [tx EXCEPT !.at = tx.at + 1] /\ line' = tx.session
      BY <1>9, <2>5 DEF WriteChunk
    <3>2. tx'.session = tx.session /\ tx'.at = tx.at + 1
      BY <2>2, <3>1 DEF Messages
    <3>3. tx' \in Messages
      <4>1. tx.at + 1 \in 0 .. Chunks - 1
        BY <2>3, <2>5, MessageFacts
      <4> QED BY <2>2, <3>1, <4>1 DEF Messages
    <3>4. FreshRequests'
      BY <2>1, <2>2, <3>1, <3>2, FreshKept
    <3>5. tx' # None /\ tx'.at > 0 /\ line' = tx'.session
      BY <2>3, <3>1, <3>2, <3>3, MessageFacts
    <3> QED BY <3>4, <3>5 DEF WholeInv, MessagesAreWhole
  <2> QED BY <2>4, <2>5
<1>10. CASE PortRefuses
  <2>1. UNCHANGED <<tx, line, session, reset, rx, wire, active, attached>>
    BY <1>10 DEF PortRefuses, isrVars, sessionVars
  <2> QED BY <1>1, <2>1 DEF Ready
<1>11. CASE Stream
  <2>1. UNCHANGED <<line, session, reset, rx, wire, active, attached>>
    BY <1>11 DEF Stream, isrVars, sessionVars
  <2>2. CASE tx' = tx
    BY <1>1, <2>1, <2>2 DEF Ready
  <2>3. CASE tx' # tx
    <3>1. tx' = Bulk /\ Ready /\ tx = None /\ session \in Sessions
      BY <1>11, <2>3 DEF Stream, Publishes, MayPublish, PublishReady, Ready, TypeInv
    <3>2. tx' # None /\ tx'.session = session /\ tx'.at = 0
      BY <3>1, BulkIsMessage DEF Bulk
    <3> QED BY <2>1, <3>1, <3>2, StartIsWhole
  <2> QED BY <2>2, <2>3
<1> QED BY <1>2, <1>3, <1>4, <1>5, <1>6, <1>7, <1>8, <1>9, <1>10, <1>11
        DEF Next, ServiceStep

-----------------------------------------------------------------------------
(* The theorems                                                            *)

(* ControlInv is an invariant of the session and its streams               *)
(* (midi_control.c, scan_stream.c).                                        *)
THEOREM ControlInvariant == Spec => []ControlInv
<1>1. Init => ControlInv
  <2> SUFFICES ASSUME Init PROVE ControlInv
    OBVIOUS
  <2>1. StreamsEndWithSession
    BY DEF Init, StreamInit, StreamsEndWithSession
  <2> QED BY <2>1, InitTypeInv, InitOrderInv, InitLossInv, InitWholeInv DEF ControlInv
<1>2. ControlInv /\ [Next]_vars => ControlInv'
  BY TypeStep, OrderStep, LossStep, EndStep, WholeStep DEF ControlInv
<1> QED BY <1>1, <1>2, PTL DEF Spec

(* Every variable keeps its type; the record queue never exceeds its bound *)
(* and a command's number never leaves the host's range.                   *)
THEOREM ControlTypeCorrect == Spec => []ControlTypeOK
<1>1. ControlInv => ControlTypeOK
  BY DEF ControlInv, TypeInv
<1> QED BY <1>1, ControlInvariant, PTL

(* Within a session each command runs once, in the order of the numbers    *)
(* (midi_control.c:103).                                                   *)
THEOREM OrderCorrect == Spec => []ExecutedOnceInOrder
<1>1. ControlInv => ExecutedOnceInOrder
  BY DEF ControlInv, OrderInv
<1> QED BY <1>1, ControlInvariant, PTL

(* A stream runs only for the session that asked for it                    *)
(* (midi_control.c:97, 102, 140, 142).                                     *)
THEOREM StreamsCorrect == Spec => []StreamsEndWithSession
<1>1. ControlInv => StreamsEndWithSession
  BY DEF ControlInv
<1> QED BY <1>1, ControlInvariant, PTL

(* No record hides an acquisition lost before it (scan_stream.c:67-83).    *)
THEOREM LossCorrect == Spec => []NoSilentLoss
<1>1. ControlInv => NoSilentLoss
  BY DEF ControlInv, LossInv
<1> QED BY <1>1, ControlInvariant, PTL

(* What a host receives of a session is whole messages                     *)
(* (midi_control.c:144-158).                                               *)
THEOREM MessagesCorrect == Spec => []MessagesAreWhole
<1>1. ControlInv => MessagesAreWhole
  BY DEF ControlInv, WholeInv
<1> QED BY <1>1, ControlInvariant, PTL
=============================================================================
