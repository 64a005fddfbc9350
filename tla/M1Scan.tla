------------------------------- MODULE M1Scan -------------------------------
(***************************************************************************)
(* The M1's acquisition: m1_hal.c starts, pauses, captures and stops the   *)
(* scanner, its two interrupts advance it bank by bank, m1_scan.c queues   *)
(* complete frames and gives up the oldest when the foreground falls       *)
(* behind, and m1_live.c takes one frame a turn and must notice every one  *)
(* that is missing.                                                        *)
(*                                                                         *)
(* A frame is its age, the number of frames completed since.  A slot of    *)
(* the queue holds the age of what it really contains, the sequence number *)
(* the code derives from its counters is told as an age too, and           *)
(* `sequence - scan_sequence == 1` says that the ages differ by one.       *)
(***************************************************************************)
EXTENDS Integers

CONSTANTS
    Banks,        \* M1_BANK_COUNT (6)
    QueueFrames   \* M1_SCAN_QUEUE_FRAMES (32)

ASSUME ScanConstants == Banks \in Nat \ {0} /\ QueueFrames \in Nat \ {0}

VARIABLES
    hal,    \* "off": not healthy; "idle": initialised, ADC on; "run"; "paused";
            \* "single": a one-shot capture; "done": captured, ADC off
    q,      \* m1_scan_t: busy, next bank, pending, head, the ring; noise: errors # scan_errors_seen
    r       \* the reader, m1_live.c or m1_wake.c: the last frame and the number it was told

scanVars == <<hal, q, r>>

Old == QueueFrames + 1      \* as old as makes a difference; also a slot with nothing to give
Older(age) == IF age < Old THEN age + 1 ELSE Old
Spent == [i \in 0..(QueueFrames - 1) |-> Old]

Empty == [busy |-> FALSE, next |-> 0, pending |-> 0, head |-> 0, ring |-> Spent, noise |-> FALSE]
Flushed(k) == [k EXCEPT !.busy = FALSE, !.next = 0, !.pending = 0, !.ring = Spent]
Faulted(k) == [Flushed(k) EXCEPT !.noise = TRUE]

-----------------------------------------------------------------------------
(* m1_hal_timer_irq and m1_hal_dma_irq over m1_scan_bank.                  *)
BugMadeRoom(k) == \* mutant: the head stays
    IF k.pending < QueueFrames THEN k ELSE [k EXCEPT !.pending = @ - 1, !.noise = TRUE]
MadeRoom(k) ==
    IF k.pending < QueueFrames THEN k
    ELSE [k EXCEPT !.pending = @ - 1, !.head = (@ + 1) % QueueFrames, !.noise = TRUE]
Queued(k) ==
    LET slot == (k.head + k.pending) % QueueFrames
    IN  [k EXCEPT !.busy = FALSE, !.next = 0, !.pending = @ + 1,
                  !.ring = [i \in DOMAIN @ |-> IF i = slot THEN 0 ELSE Older(@[i])]]
Aged(v) == [v EXCEPT !.told = Older(@), !.frame = Older(@)]

TimerIrq ==
    /\ hal = "run" /\ ~q.busy
    /\ q' = [q EXCEPT !.busy = TRUE]
    /\ UNCHANGED <<hal, r>>

DmaIrq ==
    /\ hal \in {"run", "single"} /\ q.busy
    /\ IF q.next + 1 < Banks
       THEN q' = [q EXCEPT !.next = @ + 1] /\ UNCHANGED <<hal, r>>
       ELSE /\ q' = Queued(MadeRoom(q)) /\ r' = Aged(r)
            /\ hal' = IF hal = "single" THEN "done" ELSE hal

(* fail: a DMA error, a bad bank, an overrun or a capture that never ends. *)
ScanFails ==
    /\ hal \in {"run", "single"}
    /\ hal' = "off" /\ q' = Faulted(q) /\ UNCHANGED r

-----------------------------------------------------------------------------
(* m1_hal_frame: m1_scan_take behind the health check.                     *)
FrameWaits == hal # "off" /\ q.pending > 0
Told == q.pending - 1
Taken(k) == [k EXCEPT !.pending = @ - 1, !.head = (@ + 1) % QueueFrames, !.ring[k.head] = Old]

(* m1_live_service takes a frame; an interrupt may still come between that *)
(* and the reading of the error count.  `gap`: the numbers say that a frame *)
(* is missing; `hole`: one is.  Cancels: the frame cancels all input.      *)
Unread == [taken |-> FALSE, seen |-> FALSE, told |-> Old, frame |-> Old, gap |-> FALSE, hole |-> FALSE]

Take ==
    /\ ~r.taken /\ FrameWaits
    /\ q' = Taken(q)
    /\ r' = [r EXCEPT !.taken = TRUE, !.told = Told, !.frame = q.ring[q.head],
                      !.gap = r.seen /\ r.told # Told + 1, !.hole = r.frame # q.ring[q.head] + 1]
    /\ UNCHANGED hal

BugLost(gap, noise) == gap /\ noise \* mutant: both are asked for
Lost(gap, noise) == gap \/ noise

Cancels == ~r.seen \/ Lost(r.gap, q.noise)

Judge ==
    /\ r.taken
    /\ r' = [r EXCEPT !.taken = FALSE, !.seen = TRUE, !.gap = FALSE, !.hole = FALSE]
    /\ q' = [q EXCEPT !.noise = FALSE]
    /\ UNCHANGED hal

(* m1_save.c stops the scan around a flash write with interrupts masked,   *)
(* and publish_storage_gap invalidates what the foreground had.            *)
SaveGap ==
    /\ ~r.taken /\ hal = "run"
    /\ q' = Flushed(q) /\ r' = Unread
    /\ UNCHANGED hal

-----------------------------------------------------------------------------
(* The frame the foreground gets is the one whose number it is told,       *)
(* however often the queue overflowed meanwhile (m1_scan.c:20-37, :51).    *)
FrameIsItsSequence == r.frame = r.told

(* A frame that does not follow the one before cancels all input: velocity *)
(* is never measured across a hole (m1_live.c:594-600).                    *)
LossesAreNoticed == r.taken /\ r.hole => Cancels
=============================================================================
