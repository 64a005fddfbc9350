------------------------ MODULE ProfileJournalProofs ------------------------
(***************************************************************************)
(* Proofs about the profile journal for every set of settings and          *)
(* calibrations, every generation width from two bits up and either board: *)
(* while no fault is latched the RAM copy names what a boot would choose,  *)
(* what is reported as saved survives a power cut, flash is not worn, and  *)
(* saves and resets are atomic.  All of them rest on JournalInv.           *)
(***************************************************************************)
EXTENDS ProfileJournal, TLAPS

(* Slot s of the pages decides when the other one holds no record.         *)
LEMMA SoleRecordIsNewest ==
    ASSUME NEW pages \in [Slots -> Pages], NEW s \in Slots, pages[Other(s)] \notin Records
    PROVE  NewestSlot(pages, Slots) = IF pages[s] \in Records THEN s ELSE NoSlot
<1>1. CASE s = 0
  BY <1>1 DEF NewestSlot, Valid, Slots, Other
<1>2. CASE s = 1
  BY <1>2 DEF NewestSlot, Valid, Slots, Other
<1> QED BY <1>1, <1>2 DEF Slots

(* A record numbered one after the other wins, across the wrap too.        *)
LEMMA NextIsNewer ==
    ASSUME NEW a \in 0 .. Generations - 1, NEW b \in 0 .. Generations - 1,
           b = (a + 1) % Generations
    PROVE  Newer(b, a) /\ ~Newer(a, b)
<1> USE JournalConstants DEF JournalConstants
<1>1. 1 <= (Generations \div 2) - 1 /\ (Generations \div 2) - 1 < Generations - 1
  OBVIOUS
<1>2. (b - a) % Generations = 1 /\ (a - b) % Generations = Generations - 1
  <2>1. CASE a + 1 < Generations
    <3>1. b = a + 1
      BY <2>1
    <3>2. b - a = 1 /\ a - b = 0 - 1
      BY <3>1
    <3> QED BY <3>2
  <2>2. CASE a + 1 = Generations
    <3>1. b = 0
      BY <2>2
    <3>2. b - a = 1 - Generations /\ a - b = Generations - 1
      BY <3>1, <2>2
    <3> QED BY <3>2
  <2> QED BY <2>1, <2>2
<1> QED BY <1>1, <1>2 DEF Newer

LEMMA SuccessorIsNewest ==
    ASSUME NEW pages \in [Slots -> Pages], NEW s \in Slots,
           pages[s] \in Records, pages[Other(s)] \in Records,
           pages[Other(s)].gen = (pages[s].gen + 1) % Generations
    PROVE  NewestSlot(pages, Slots) = Other(s)
<1>1. \A r \in Records : r.gen \in 0 .. Generations - 1
  BY DEF Records
<1>2. Newer(pages[Other(s)].gen, pages[s].gen) /\ ~Newer(pages[s].gen, pages[Other(s)].gen)
  BY <1>1, NextIsNewer
<1>3. Valid(pages) = Slots
  BY DEF Valid, Slots, Other
<1>4. NewestSlot(pages, Slots) = IF Newer(pages[1].gen, pages[0].gen) THEN 1 ELSE 0
  BY <1>3 DEF NewestSlot, Slots
<1> QED BY <1>2, <1>4 DEF Slots, Other

LEMMA NewestIsASlot ==
    ASSUME NEW pages \in [Slots -> Pages], NEW readable \in SUBSET Slots
    PROVE  LET n == NewestSlot(pages, readable) IN
           /\ n \in Slots \cup {NoSlot}
           /\ n # NoSlot => pages[n] \in Records
           /\ n = NoSlot => \A s \in readable : pages[s] \notin Records
<1> DEFINE good == Valid(pages) \cap readable
<1>1. \A s \in good : s \in Slots /\ pages[s] \in Records
  BY DEF Valid
<1>2. CASE good = {}
  BY <1>2 DEF NewestSlot, Valid, NoSlot
<1>3. CASE good # {} /\ 0 \notin good
  <2>1. good = {1}
    BY <1>1, <1>3 DEF Slots
  <2> QED BY <2>1, <1>1 DEF NewestSlot, Slots, NoSlot
<1>4. CASE 0 \in good
  <2>1. good # {} /\ good # {1}
    BY <1>4
  <2> QED BY <2>1, <1>1, <1>4 DEF NewestSlot, Slots, NoSlot
<1> QED BY <1>2, <1>3, <1>4

-----------------------------------------------------------------------------
(* The inductive invariant.                                                *)

FlashTypeOK ==
    /\ board \in {"huntsman", "m1"} /\ gate \in {"blind", "busy", "open"}
    /\ flash \in [Slots -> Pages]
    /\ phase \in {"idle", "erase", "program", "verify", "clear older", "clear newest", "stopped"}
    /\ candidate \in Records \cup {None}

StoreTypeOK ==
    /\ ready \in BOOLEAN /\ applied \in BOOLEAN /\ loaded \in BOOLEAN /\ fault \in BOOLEAN
    /\ slot \in Slots \cup {NoSlot}
    /\ record \in Records \cup {None}
    /\ pending \in BOOLEAN /\ observed \in Settings \cup {None} /\ age \in 0 .. Quiet

AppTypeOK ==
    /\ live \in Settings
    /\ resetPending \in BOOLEAN /\ busy \in BOOLEAN /\ held \in BOOLEAN

JournalTypeOK == FlashTypeOK /\ StoreTypeOK /\ AppTypeOK

RecordHasSlot == slot = NoSlot <=> record = None

(* JournalTracksFlash holds from the load on and through a reset, not only *)
(* while the store is ready: a calibration is saved on the M1 after a      *)
(* reset, when it no longer is.                                            *)
TracksFlash ==
    loaded /\ ~fault /\ phase \notin {"verify", "stopped"} =>
        /\ slot = Current
        /\ slot # NoSlot => record = flash[slot]

(* While a save is verified the old record is still there.                 *)
SaveInProgress ==
    Saving =>
        /\ loaded /\ ~fault
        /\ candidate \in Records /\ candidate.gen = NextGeneration
        /\ IF slot = NoSlot THEN flash[Other(TargetSlot)] \notin Records
           ELSE flash[slot] = record

ClearInProgress ==
    /\ Clearing => loaded /\ (board = "m1" => ~fault)
    /\ phase = "clear newest" => flash[FirstErased] \notin Records

PendingIsDifference ==
    ready /\ ~fault /\ observed # None =>
        (pending <=> record = None \/ record.settings # observed)

LoadedState == (ready => loaded) /\ (resetPending => loaded /\ ~ready)

JournalInv ==
    /\ JournalTypeOK /\ RecordHasSlot /\ TracksFlash
    /\ SaveInProgress /\ ClearInProgress
    /\ PendingIsDifference /\ LoadedState

LEMMA InitInv == Init => JournalInv
<1> SUFFICES ASSUME Init PROVE JournalInv
  OBVIOUS
<1> USE DEF Init
<1>1. JournalTypeOK
  <2>1. flash \in [Slots -> Pages]
    BY DEF Pages
  <2>2. board \in {"huntsman", "m1"} /\ live \in Settings /\ age \in 0 .. Quiet
    BY JournalConstants DEF JournalConstants
  <2> QED BY <2>1, <2>2 DEF JournalTypeOK, FlashTypeOK, StoreTypeOK, AppTypeOK
<1> QED BY <1>1 DEF JournalInv, RecordHasSlot, TracksFlash, SaveInProgress, ClearInProgress,
                    PendingIsDifference, LoadedState, Saving, Clearing

LEMMA OtherSlot ==
    \A s \in Slots : Other(s) \in Slots /\ Other(s) # s /\ Other(Other(s)) = s
BY DEF Slots, Other

(* A page that is written leaves the other one as it was.                  *)
LEMMA PageWritten ==
    ASSUME JournalTypeOK, NEW s \in Slots, NEW p \in Pages, flash' = [flash EXCEPT ![s] = p]
    PROVE  /\ flash' \in [Slots -> Pages]
           /\ flash'[s] = p /\ flash'[Other(s)] = flash[Other(s)]
           /\ Other(s) \in Slots /\ Other(s) # s /\ Other(Other(s)) = s
BY OtherSlot DEF JournalTypeOK, FlashTypeOK, StoreTypeOK, AppTypeOK

LEMMA SlotFacts ==
    ASSUME JournalTypeOK
    PROVE  /\ TargetSlot \in Slots /\ FirstErased \in Slots
           /\ Other(TargetSlot) \in Slots /\ Other(FirstErased) \in Slots
           /\ slot # NoSlot => slot = Other(TargetSlot) /\ slot = Other(FirstErased)
           /\ slot # NoSlot => slot \in Slots /\ slot # TargetSlot /\ slot # FirstErased
           /\ NoSlot \notin Slots
<1>1. NoSlot \notin Slots /\ 0 \in Slots
  BY DEF Slots, NoSlot
<1> QED BY <1>1, OtherSlot DEF JournalTypeOK, StoreTypeOK, TargetSlot, FirstErased

LEMMA LoadKeepsInv ==
    ASSUME JournalInv, NEW unreadable \in SUBSET Slots, Load(unreadable)
    PROVE  JournalInv'
<1> DEFINE s == NewestSlot(flash, Slots \ unreadable)
<1>1. s \in Slots \cup {NoSlot} /\ (s # NoSlot => flash[s] \in Records)
  BY NewestIsASlot DEF JournalInv, JournalTypeOK, FlashTypeOK, StoreTypeOK, AppTypeOK
<1>2. slot' = s /\ record' = IF s = NoSlot THEN None ELSE flash[s]
  BY DEF Load
<1> HIDE DEF s
<1>3. record' # None <=> s # NoSlot
  BY <1>1, <1>2, PageKinds DEF PageKinds
<1>4. live' \in Settings
  BY <1>1, <1>2, <1>3 DEF Load, JournalInv, JournalTypeOK, FlashTypeOK, AppTypeOK, Records
<1>5. JournalTypeOK'
  <2>1. slot' \in Slots \cup {NoSlot} /\ record' \in Records \cup {None}
    BY <1>1, <1>2
  <2>2. fault' \in BOOLEAN /\ age' \in 0 .. Quiet
    BY JournalConstants DEF Load, JournalConstants
  <2> QED BY <1>4, <2>1, <2>2
             DEF Load, JournalInv, JournalTypeOK, FlashTypeOK, StoreTypeOK, AppTypeOK, handVars
<1>6. ~fault' => unreadable = {}
  BY DEF Load
<1>7. TracksFlash'
  BY <1>2, <1>6 DEF Load, TracksFlash, Current, s
<1> QED BY <1>2, <1>3, <1>5, <1>7
        DEF Load, JournalInv, RecordHasSlot, SaveInProgress, ClearInProgress, PendingIsDifference,
            LoadedState, Saving, Clearing

(* Steps that touch neither the flash nor the current record.              *)
LEMMA QuietStepKeepsInv ==
    ASSUME JournalInv, JournalTypeOK', phase = "idle", PendingIsDifference',
           flash' = flash, phase' = phase, slot' = slot, record' = record,
           loaded' = loaded, ready' = ready, resetPending' = resetPending,
           fault => fault'
    PROVE  JournalInv'
<1>1. TracksFlash'
  BY DEF JournalInv, TracksFlash, Current
<1>2. RecordHasSlot' /\ LoadedState'
  BY DEF JournalInv, RecordHasSlot, LoadedState
<1>3. SaveInProgress' /\ ClearInProgress'
  BY DEF SaveInProgress, ClearInProgress, Saving, Clearing
<1> QED BY <1>1, <1>2, <1>3 DEF JournalInv

LEMMA NoticeKeepsInv == ASSUME JournalInv, Notice PROVE JournalInv'
<1>1. Differs \in BOOLEAN
  BY DEF Differs
<1>2. JournalTypeOK'
  BY <1>1, JournalConstants
     DEF Notice, JournalInv, JournalTypeOK, FlashTypeOK, StoreTypeOK, AppTypeOK, handVars,
         JournalConstants
<1>3. PendingIsDifference'
  BY DEF Notice, PendingIsDifference, Differs
<1> QED BY <1>2, <1>3, QuietStepKeepsInv DEF Notice

LEMMA EditKeepsInv == ASSUME JournalInv, NEW s \in Settings, Edit(s) PROVE JournalInv'
<1>1. JournalTypeOK'
  BY DEF Edit, JournalInv, JournalTypeOK, FlashTypeOK, StoreTypeOK, AppTypeOK, handVars, storeVars
<1>2. PendingIsDifference'
  BY DEF Edit, PendingIsDifference, JournalInv, storeVars
<1> QED BY <1>1, <1>2, QuietStepKeepsInv DEF Edit, storeVars

LEMMA PlayKeepsInv == ASSUME JournalInv, Play PROVE JournalInv'
<1>1. (~held) \in BOOLEAN /\ (~busy) \in BOOLEAN
  OBVIOUS
<1>2. JournalTypeOK'
  <2>1. FlashTypeOK' /\ AppTypeOK'
    BY <1>1 DEF Play, JournalInv, JournalTypeOK, FlashTypeOK, AppTypeOK, handVars
  <2>2. StoreTypeOK'
    BY DEF Play, JournalInv, JournalTypeOK, StoreTypeOK, storeVars
  <2> QED BY <2>1, <2>2 DEF JournalTypeOK
<1>3. PendingIsDifference'
  BY DEF Play, PendingIsDifference, JournalInv, storeVars
<1> QED BY <1>2, <1>3, QuietStepKeepsInv DEF Play, storeVars

LEMMA GateTurnsKeepsInv == ASSUME JournalInv, GateTurns PROVE JournalInv'
<1>1. gate' \in {"blind", "busy", "open"}
  BY DEF GateTurns, Gates
<1>2. JournalTypeOK'
  <2>1. FlashTypeOK'
    BY <1>1 DEF GateTurns, JournalInv, JournalTypeOK, FlashTypeOK
  <2>2. StoreTypeOK' /\ AppTypeOK'
    BY DEF GateTurns, JournalInv, JournalTypeOK, StoreTypeOK, AppTypeOK, storeVars
  <2> QED BY <2>1, <2>2 DEF JournalTypeOK
<1>3. PendingIsDifference'
  BY DEF GateTurns, PendingIsDifference, JournalInv, storeVars
<1> QED BY <1>2, <1>3, QuietStepKeepsInv DEF GateTurns, storeVars

LEMMA TickKeepsInv == ASSUME JournalInv, Tick PROVE JournalInv'
<1>1. age' \in 0 .. Quiet
  BY JournalConstants DEF Tick, JournalInv, JournalTypeOK, StoreTypeOK, JournalConstants
<1>2. JournalTypeOK'
  BY <1>1 DEF Tick, JournalInv, JournalTypeOK, FlashTypeOK, StoreTypeOK, AppTypeOK, handVars
<1>3. PendingIsDifference'
  BY DEF Tick, PendingIsDifference, JournalInv
<1> QED BY <1>2, <1>3, QuietStepKeepsInv DEF Tick

LEMMA GateFailsKeepsInv == ASSUME JournalInv, GateFails PROVE JournalInv'
<1>1. JournalTypeOK'
  BY DEF GateFails, JournalInv, JournalTypeOK, FlashTypeOK, StoreTypeOK, AppTypeOK, handVars
<1>2. PendingIsDifference'
  BY DEF GateFails, PendingIsDifference
<1> QED BY <1>1, <1>2, QuietStepKeepsInv DEF GateFails

(* A save starts from what a boot would choose.                            *)
LEMMA BeginKeepsInv ==
    ASSUME JournalInv, phase = "idle", loaded, ~fault,
           NEW b \in Bounds \cup {NoBounds},
           candidate' = [gen |-> NextGeneration, settings |-> live, bounds |-> b],
           phase' = "erase",
           UNCHANGED <<flash, storeVars, loaded, live, resetPending, busy, handVars>>
    PROVE  JournalInv'
<1>1. NextGeneration \in 0 .. Generations - 1
  <2>1. CASE record = None
    BY <2>1, JournalConstants DEF NextGeneration, JournalConstants
  <2>2. CASE record # None
    <3>1. record.gen \in 0 .. Generations - 1
      BY <2>2 DEF JournalInv, JournalTypeOK, FlashTypeOK, StoreTypeOK, AppTypeOK, Records
    <3> QED BY <2>2, <3>1, JournalConstants DEF NextGeneration, JournalConstants
  <2> QED BY <2>1, <2>2
<1>2. candidate' \in Records
  BY <1>1 DEF Records, JournalInv, JournalTypeOK, FlashTypeOK, StoreTypeOK, AppTypeOK
<1>3. JournalTypeOK'
  BY <1>2 DEF JournalInv, JournalTypeOK, FlashTypeOK, StoreTypeOK, AppTypeOK, handVars, storeVars
<1>4. TracksFlash /\ slot = Current /\ (slot # NoSlot => record = flash[slot])
  BY DEF JournalInv, TracksFlash
<1>5. TracksFlash'
  BY <1>4 DEF TracksFlash, Current, storeVars
<1>6. SaveInProgress'
  <2>1. candidate'.gen = NextGeneration'
    BY DEF NextGeneration, storeVars
  <2>2. slot = NoSlot => flash[Other(TargetSlot)] \notin Records
    BY <1>4, NewestIsASlot, SlotFacts DEF Current, JournalInv, JournalTypeOK, FlashTypeOK
  <2>3. TargetSlot' = TargetSlot
    BY DEF TargetSlot, storeVars
  <2> QED BY <1>2, <1>4, <2>1, <2>2, <2>3 DEF SaveInProgress, storeVars
<1> QED BY <1>3, <1>5, <1>6
        DEF JournalInv, RecordHasSlot, ClearInProgress, PendingIsDifference, LoadedState,
            Clearing, storeVars

LEMMA BeginSaveKeepsInv == ASSUME JournalInv, BeginSave PROVE JournalInv'
<1>1. KeptBounds \in Bounds \cup {NoBounds}
  BY DEF KeptBounds, JournalInv, JournalTypeOK, FlashTypeOK, StoreTypeOK, AppTypeOK, Records
<1>2. loaded /\ ~fault
  BY DEF BeginSave, SaveDue, Watching, JournalInv, LoadedState
<1> QED BY <1>1, <1>2, BeginKeepsInv DEF BeginSave

LEMMA BeginCalibrationSaveKeepsInv ==
    ASSUME JournalInv, NEW b \in Bounds, BeginCalibrationSave(b) PROVE JournalInv'
<1>1. b \in Bounds \cup {NoBounds}
  OBVIOUS
<1> QED BY <1>1, BeginKeepsInv DEF BeginCalibrationSave, CalibrationDue

LEMMA BeginClearKeepsInv == ASSUME JournalInv, BeginClear PROVE JournalInv'
<1>1. JournalTypeOK'
  <2>1. FlashTypeOK'
    BY DEF BeginClear, JournalInv, JournalTypeOK, FlashTypeOK, handVars
  <2>2. StoreTypeOK' /\ AppTypeOK'
    BY DEF BeginClear, JournalInv, JournalTypeOK, StoreTypeOK, AppTypeOK, handVars, storeVars
  <2> QED BY <2>1, <2>2 DEF JournalTypeOK
<1>2. TracksFlash'
  BY DEF BeginClear, JournalInv, TracksFlash, Current, storeVars
<1> QED BY <1>1, <1>2
        DEF BeginClear, JournalInv, RecordHasSlot, SaveInProgress, ClearInProgress, ClearAllowed,
            PendingIsDifference, LoadedState, Saving, Clearing, storeVars, handVars

LEMMA ApplyDefaultsKeepsInv == ASSUME JournalInv, ApplyDefaults PROVE JournalInv'
<1>1. JournalTypeOK'
  BY JournalConstants
     DEF ApplyDefaults, JournalInv, JournalTypeOK, FlashTypeOK, StoreTypeOK, AppTypeOK, handVars,
         storeVars, JournalConstants
<1>2. TracksFlash'
  BY DEF ApplyDefaults, JournalInv, TracksFlash, Current, storeVars, LoadedState
<1> QED BY <1>1, <1>2
        DEF ApplyDefaults, JournalInv, RecordHasSlot, SaveInProgress, ClearInProgress,
            PendingIsDifference, LoadedState, Saving, Clearing, storeVars, handVars

LEMMA PowerCutKeepsInv == ASSUME JournalInv, PowerCut PROVE JournalInv'
<1>1. flash' \in [Slots -> Pages]
  <2>1. Blank \in Pages /\ Torn \in Pages
    BY DEF Pages
  <2>2. TargetSlot \in Slots /\ FirstErased \in Slots /\ Other(FirstErased) \in Slots
    BY SlotFacts DEF JournalInv
  <2>3. flash' = flash \/ \E s \in Slots, p \in Pages : flash' = [flash EXCEPT ![s] = p]
    BY <2>1, <2>2 DEF PowerCut
  <2> QED BY <2>3, PageWritten DEF JournalInv, JournalTypeOK, FlashTypeOK, StoreTypeOK, AppTypeOK
<1>2. JournalTypeOK'
  <2>1. live' \in Settings /\ age' \in 0 .. Quiet
    <3>1. live' = DefaultSettings /\ age' = 0
      BY DEF PowerCut, ForgetRecord
    <3> QED BY <3>1, JournalConstants DEF JournalConstants
  <2>2. UNCHANGED <<board, gate, held>>
    BY DEF PowerCut, handVars
  <2> QED BY <1>1, <2>1, <2>2
             DEF PowerCut, ForgetRecord, JournalInv, JournalTypeOK, FlashTypeOK, StoreTypeOK,
                 AppTypeOK
<1> QED BY <1>2
        DEF PowerCut, ForgetRecord, JournalInv, RecordHasSlot, TracksFlash, SaveInProgress,
            ClearInProgress, PendingIsDifference, LoadedState, Saving, Clearing

-----------------------------------------------------------------------------
(* The steps of a save and of a reset.                                     *)

(* The step in progress fails, whatever it left on the page.               *)
LEMMA FailureKeepsInv ==
    ASSUME JournalInv, flash' \in [Slots -> Pages], SaveFails,
           UNCHANGED <<loaded, live, resetPending, busy, handVars>>
    PROVE  JournalInv'
<1>1. FlashTypeOK'
  BY DEF SaveFails, JournalInv, JournalTypeOK, FlashTypeOK, handVars
<1>2. StoreTypeOK' /\ AppTypeOK'
  BY DEF SaveFails, JournalInv, JournalTypeOK, StoreTypeOK, AppTypeOK, handVars
<1> QED BY <1>1, <1>2
        DEF SaveFails, JournalInv, JournalTypeOK, RecordHasSlot, TracksFlash, SaveInProgress,
            ClearInProgress, PendingIsDifference, LoadedState, Saving, Clearing

(* The step in progress succeeds: the page it wrote is not that of the     *)
(* current record.                                                         *)
LEMMA WriteKeepsType ==
    ASSUME JournalInv, flash' \in [Slots -> Pages],
           phase' \in {"erase", "program", "verify", "clear older", "clear newest"},
           candidate' = candidate,
           UNCHANGED <<storeVars, loaded, live, resetPending, busy, handVars>>
    PROVE  /\ JournalTypeOK' /\ RecordHasSlot' /\ PendingIsDifference' /\ LoadedState'
           /\ TargetSlot' = TargetSlot /\ FirstErased' = FirstErased
           /\ NextGeneration' = NextGeneration
<1>1. FlashTypeOK'
  BY DEF JournalInv, JournalTypeOK, FlashTypeOK, handVars
<1>2. StoreTypeOK' /\ AppTypeOK'
  BY DEF JournalInv, JournalTypeOK, StoreTypeOK, AppTypeOK, handVars, storeVars
<1>3. RecordHasSlot' /\ PendingIsDifference' /\ LoadedState'
  BY DEF JournalInv, RecordHasSlot, PendingIsDifference, LoadedState, storeVars
<1>4. TargetSlot' = TargetSlot /\ FirstErased' = FirstErased /\ NextGeneration' = NextGeneration
  BY DEF TargetSlot, FirstErased, NextGeneration, storeVars
<1> QED BY <1>1, <1>2, <1>3, <1>4 DEF JournalTypeOK

(* What the other page of a tracked journal is worth.                      *)
LEMMA TrackedPages ==
    ASSUME JournalInv, loaded, ~fault, phase \notin {"verify", "stopped"}
    PROVE  /\ slot = NoSlot => \A s \in Slots : flash[s] \notin Records
           /\ slot # NoSlot => slot \in Slots /\ flash[slot] = record /\ record \in Records
<1>1. slot = Current /\ (slot # NoSlot => record = flash[slot])
  BY DEF JournalInv, TracksFlash
<1>2. flash \in [Slots -> Pages] /\ Slots \in SUBSET Slots
  BY DEF JournalInv, JournalTypeOK, FlashTypeOK
<1>3. slot = NoSlot => \A s \in Slots : flash[s] \notin Records
  BY <1>1, <1>2, NewestIsASlot DEF Current
<1>4. slot # NoSlot => flash[slot] \in Records /\ slot \in Slots
  BY <1>1, <1>2, NewestIsASlot DEF Current
<1> QED BY <1>1, <1>3, <1>4

(* Spoiling the page opposite to the current record changes nothing.       *)
LEMMA OppositeSpoiled ==
    ASSUME JournalInv, loaded, ~fault, phase \notin {"verify", "stopped"},
           NEW s \in Slots, slot # NoSlot => s = Other(slot),
           NEW p \in Pages, p \notin Records, flash' = [flash EXCEPT ![s] = p]
    PROVE  /\ NewestSlot(flash', Slots) = slot
           /\ slot # NoSlot => flash'[slot] = record
<1>1. /\ flash' \in [Slots -> Pages] /\ flash'[s] = p /\ flash'[Other(s)] = flash[Other(s)]
      /\ Other(s) \in Slots /\ Other(s) # s /\ Other(Other(s)) = s
  BY PageWritten DEF JournalInv
<1>2. NewestSlot(flash', Slots) = IF flash'[Other(s)] \in Records THEN Other(s) ELSE NoSlot
  BY <1>1, SoleRecordIsNewest
<1>3. CASE slot = NoSlot
  BY <1>1, <1>2, <1>3, TrackedPages
<1>4. CASE slot # NoSlot
  <2>1. slot = Other(s)
    BY <1>4, OtherSlot, TrackedPages
  <2> QED BY <1>1, <1>2, <1>4, <2>1, TrackedPages
<1> QED BY <1>3, <1>4

LEMMA EraseTargetKeepsInv == ASSUME JournalInv, EraseTarget PROVE JournalInv'
<1>1. /\ TargetSlot \in Slots /\ Blank \in Pages /\ Torn \in Pages
      /\ Blank \notin Records /\ Torn \notin Records
      /\ slot # NoSlot => TargetSlot = Other(slot)
  BY SlotFacts, PageKinds DEF PageKinds, Pages, JournalInv, TargetSlot
<1>2. /\ phase = "erase" /\ loaded /\ ~fault
      /\ candidate \in Records /\ candidate.gen = NextGeneration
  BY DEF EraseTarget, JournalInv, SaveInProgress, Saving
<1>3. UNCHANGED <<loaded, live, resetPending, busy, handVars>>
  BY DEF EraseTarget
<1>4. CASE /\ flash' = [flash EXCEPT ![TargetSlot] = Blank]
           /\ phase' = "program" /\ UNCHANGED <<candidate, storeVars>>
  <2>1. /\ flash' \in [Slots -> Pages]
        /\ flash'[TargetSlot] = Blank
    BY <1>1, <1>4, PageWritten DEF JournalInv
  <2>2. /\ NewestSlot(flash', Slots) = slot
        /\ slot # NoSlot => flash'[slot] = record
    BY <1>1, <1>2, <1>4, OppositeSpoiled
  <2>3. /\ JournalTypeOK' /\ RecordHasSlot' /\ PendingIsDifference' /\ LoadedState'
        /\ TargetSlot' = TargetSlot /\ NextGeneration' = NextGeneration
    BY <1>3, <1>4, <2>1, WriteKeepsType
  <2>4. slot' = slot /\ record' = record /\ fault' = fault /\ loaded' = loaded
    BY <1>3, <1>4 DEF storeVars
  <2>5. TracksFlash'
    BY <2>2, <2>4 DEF TracksFlash, Current
  <2>6. slot = NoSlot => flash'[Other(TargetSlot)] \notin Records
    BY <1>1, <1>2, <1>4, PageWritten, TrackedPages DEF JournalInv
  <2>7. SaveInProgress'
    BY <1>2, <1>4, <2>2, <2>3, <2>4, <2>6 DEF SaveInProgress
  <2> QED BY <1>4, <2>3, <2>5, <2>7 DEF JournalInv, ClearInProgress, Clearing
<1>5. CASE flash' \in {flash, [flash EXCEPT ![TargetSlot] = Torn]} /\ SaveFails
  <2>1. flash' \in [Slots -> Pages]
    BY <1>1, <1>5, PageWritten DEF JournalInv, JournalTypeOK, FlashTypeOK
  <2> QED BY <1>3, <1>5, <2>1, FailureKeepsInv
<1> QED BY <1>4, <1>5 DEF EraseTarget

LEMMA ProgramTargetKeepsInv == ASSUME JournalInv, ProgramTarget PROVE JournalInv'
<1>1. /\ phase = "program" /\ loaded /\ ~fault
      /\ candidate \in Records /\ candidate.gen = NextGeneration
  BY DEF ProgramTarget, JournalInv, SaveInProgress, Saving
<1>2. /\ TargetSlot \in Slots /\ {candidate, Blank, Torn} \subseteq Pages
  BY <1>1, SlotFacts DEF Pages, JournalInv
<1>3. UNCHANGED <<loaded, live, resetPending, busy, handVars>>
  BY DEF ProgramTarget
<1>4. ASSUME NEW p \in {candidate, Torn}, flash' = [flash EXCEPT ![TargetSlot] = p],
             phase' = "verify", UNCHANGED <<candidate, storeVars>>
      PROVE  JournalInv'
  <2>1. p \in Pages
    BY <1>2
  <2>2. /\ flash' \in [Slots -> Pages]
        /\ flash'[Other(TargetSlot)] = flash[Other(TargetSlot)]
    BY <1>2, <1>4, <2>1, PageWritten DEF JournalInv
  <2>3. /\ JournalTypeOK' /\ RecordHasSlot' /\ PendingIsDifference' /\ LoadedState'
        /\ TargetSlot' = TargetSlot /\ NextGeneration' = NextGeneration
    BY <1>3, <1>4, <2>2, WriteKeepsType
  <2>4. slot' = slot /\ record' = record /\ fault' = fault /\ loaded' = loaded
    BY <1>3, <1>4 DEF storeVars
  <2>5. IF slot = NoSlot THEN flash'[Other(TargetSlot)] \notin Records ELSE flash'[slot] = record
    BY <1>1, <1>2, <2>2, SlotFacts, OtherSlot, TrackedPages DEF JournalInv
  <2>6. SaveInProgress'
    BY <1>1, <1>4, <2>3, <2>4, <2>5 DEF SaveInProgress
  <2> QED BY <1>4, <2>3, <2>6 DEF JournalInv, TracksFlash, ClearInProgress, Clearing
<1>5. ASSUME NEW p \in {candidate, Torn, Blank}, flash' = [flash EXCEPT ![TargetSlot] = p],
             SaveFails
      PROVE  JournalInv'
  <2>1. p \in Pages
    BY <1>2
  <2>2. flash' \in [Slots -> Pages]
    BY <1>2, <1>5, <2>1, PageWritten DEF JournalInv
  <2> QED BY <1>3, <1>5, <2>2, FailureKeepsInv
<1> QED BY <1>4, <1>5 DEF ProgramTarget

(* The page read back is what a boot would choose.                         *)
LEMMA VerifiedIsNewest ==
    ASSUME JournalInv, Saving, flash[TargetSlot] = candidate,
           slot # NoSlot => flash[slot] = record,
           slot = NoSlot => flash[Other(TargetSlot)] \notin Records
    PROVE  NewestSlot(flash, Slots) = TargetSlot
<1>1. candidate \in Records /\ candidate.gen = NextGeneration
  BY DEF JournalInv, SaveInProgress
<1>2. flash \in [Slots -> Pages] /\ TargetSlot \in Slots
  BY SlotFacts DEF JournalInv, JournalTypeOK, FlashTypeOK
<1>3. CASE slot = NoSlot
  BY <1>1, <1>2, <1>3, SoleRecordIsNewest
<1>4. CASE slot # NoSlot
  <2>1. slot \in Slots /\ Other(slot) = TargetSlot
    BY <1>4, SlotFacts DEF JournalInv, TargetSlot
  <2>2. record # None /\ record \in Records
    BY <1>4 DEF JournalInv, RecordHasSlot, JournalTypeOK, StoreTypeOK
  <2>3. candidate.gen = (record.gen + 1) % Generations
    BY <1>1, <2>2 DEF NextGeneration
  <2> QED BY <1>1, <1>2, <1>4, <2>1, <2>2, <2>3, SuccessorIsNewest
<1> QED BY <1>3, <1>4

LEMMA VerifyTargetKeepsInv == ASSUME JournalInv, VerifyTarget PROVE JournalInv'
<1>1. /\ phase = "verify" /\ Saving /\ loaded /\ ~fault
      /\ candidate \in Records
      /\ slot = NoSlot => flash[Other(TargetSlot)] \notin Records
      /\ slot # NoSlot => flash[slot] = record
  BY DEF VerifyTarget, JournalInv, SaveInProgress, Saving
<1>2. /\ flash' = flash /\ flash' \in [Slots -> Pages] /\ TargetSlot \in Slots
      /\ UNCHANGED <<loaded, live, resetPending, busy, handVars>>
  BY SlotFacts DEF VerifyTarget, JournalInv, JournalTypeOK, FlashTypeOK
<1>3. CASE /\ ReadsBack
           /\ slot' = TargetSlot /\ record' = candidate
           /\ pending' = FALSE /\ observed' = None
           /\ ResumeMayFault
           /\ phase' = "idle" /\ candidate' = None
           /\ UNCHANGED <<ready, applied, age>>
  <2>1. NewestSlot(flash, Slots) = TargetSlot
    BY <1>1, <1>3, VerifiedIsNewest DEF ReadsBack
  <2>2. fault' \in BOOLEAN
    BY <1>3 DEF ResumeMayFault
  <2>3. FlashTypeOK'
    BY <1>2, <1>3 DEF JournalInv, JournalTypeOK, FlashTypeOK, handVars
  <2>4. StoreTypeOK'
    BY <1>1, <1>2, <1>3, <2>2 DEF JournalInv, JournalTypeOK, StoreTypeOK
  <2>5. AppTypeOK'
    BY <1>2 DEF JournalInv, JournalTypeOK, AppTypeOK, handVars
  <2>6. TracksFlash'
    BY <1>2, <1>3, <2>1 DEF TracksFlash, Current, ReadsBack
  <2>7. RecordHasSlot'
    <3>1. TargetSlot # NoSlot
      BY <1>2, SlotFacts DEF JournalInv
    <3> QED BY <1>1, <1>3, <3>1, PageKinds DEF RecordHasSlot, PageKinds
  <2> QED BY <1>2, <1>3, <2>3, <2>4, <2>5, <2>6, <2>7
          DEF JournalInv, JournalTypeOK, SaveInProgress, ClearInProgress, PendingIsDifference,
              LoadedState, Saving, Clearing
<1>4. CASE SaveFails
  BY <1>2, <1>4, FailureKeepsInv
<1> QED BY <1>3, <1>4 DEF VerifyTarget

LEMMA FailStopKeepsInv == ASSUME JournalInv, FailStop PROVE JournalInv'
<1>1. flash' \in [Slots -> Pages]
  <2>1. Blank \in Pages /\ Torn \in Pages /\ \A s \in Slots : flash[s] \in Pages
    BY DEF Pages, JournalInv, JournalTypeOK, FlashTypeOK
  <2>2. TargetSlot \in Slots /\ FirstErased \in Slots /\ Other(FirstErased) \in Slots
    BY SlotFacts DEF JournalInv
  <2>3. phase = "program" => candidate \in Pages
    BY DEF JournalInv, SaveInProgress, Saving, Pages
  <2>4. \E s \in Slots, p \in Pages : flash' = [flash EXCEPT ![s] = p]
    <3>1. CASE phase = "program"
      BY <2>1, <2>2, <2>3, <3>1 DEF FailStop
    <3>2. CASE phase = "erase"
      BY <2>1, <2>2, <3>2 DEF FailStop
    <3>3. CASE phase = "clear older"
      BY <2>1, <2>2, <3>3 DEF FailStop
    <3>4. CASE phase = "clear newest"
      BY <2>1, <2>2, <3>4 DEF FailStop
    <3> QED BY <3>1, <3>2, <3>3, <3>4 DEF FailStop
  <2> QED BY <2>4, PageWritten DEF JournalInv
<1>2. FlashTypeOK'
  BY <1>1 DEF FailStop, JournalInv, JournalTypeOK, FlashTypeOK, handVars
<1>3. StoreTypeOK' /\ AppTypeOK'
  BY DEF FailStop, JournalInv, JournalTypeOK, StoreTypeOK, AppTypeOK, handVars, storeVars
<1>4. RecordHasSlot' /\ PendingIsDifference' /\ LoadedState'
  BY DEF FailStop, JournalInv, RecordHasSlot, PendingIsDifference, LoadedState, storeVars
<1> QED BY <1>2, <1>3, <1>4
        DEF FailStop, JournalInv, JournalTypeOK, TracksFlash, SaveInProgress, ClearInProgress,
            Saving, Clearing

LEMMA EraseOlderKeepsInv == ASSUME JournalInv, EraseOlder PROVE JournalInv'
<1>1. /\ FirstErased \in Slots /\ Blank \in Pages /\ Torn \in Pages
      /\ Blank \notin Records
      /\ slot # NoSlot => FirstErased = Other(slot)
  BY SlotFacts, PageKinds DEF PageKinds, Pages, JournalInv, FirstErased
<1>2. phase = "clear older" /\ loaded /\ (board = "m1" => ~fault)
  BY DEF EraseOlder, JournalInv, ClearInProgress, Clearing
<1>3. UNCHANGED <<loaded, live, resetPending, busy, handVars>>
  BY DEF EraseOlder
<1>4. CASE /\ flash' = [flash EXCEPT ![FirstErased] = Blank]
           /\ phase' = "clear newest" /\ UNCHANGED <<candidate, storeVars>>
  <2>1. flash' \in [Slots -> Pages] /\ flash'[FirstErased] = Blank
    BY <1>1, <1>4, PageWritten DEF JournalInv
  <2>2. /\ JournalTypeOK' /\ RecordHasSlot' /\ PendingIsDifference' /\ LoadedState'
        /\ FirstErased' = FirstErased
    BY <1>3, <1>4, <2>1, WriteKeepsType
  <2>3. /\ slot' = slot /\ record' = record /\ fault' = fault /\ loaded' = loaded
        /\ board' = board
    BY <1>3, <1>4 DEF storeVars, handVars
  <2>4. TracksFlash'
    BY <1>1, <1>2, <1>4, <2>3, OppositeSpoiled DEF TracksFlash, Current
  <2>5. ClearInProgress'
    BY <1>1, <1>2, <2>1, <2>2, <2>3 DEF ClearInProgress
  <2> QED BY <1>4, <2>2, <2>4, <2>5 DEF JournalInv, SaveInProgress, Saving
<1>5. CASE flash' \in {flash, [flash EXCEPT ![FirstErased] = Torn]} /\ SaveFails
  <2>1. flash' \in [Slots -> Pages]
    BY <1>1, <1>5, PageWritten DEF JournalInv, JournalTypeOK, FlashTypeOK
  <2> QED BY <1>3, <1>5, <2>1, FailureKeepsInv
<1> QED BY <1>4, <1>5 DEF EraseOlder

LEMMA EraseNewestKeepsInv == ASSUME JournalInv, EraseNewest PROVE JournalInv'
<1> DEFINE s == Other(FirstErased)
<1>1. /\ s \in Slots /\ Other(s) = FirstErased /\ Blank \in Pages /\ Torn \in Pages
      /\ Blank \notin Records
  BY SlotFacts, OtherSlot, PageKinds DEF PageKinds, Pages, JournalInv
<1>2. loaded /\ flash[FirstErased] \notin Records
  BY DEF EraseNewest, JournalInv, ClearInProgress, Clearing
<1>3. CASE /\ flash' = [flash EXCEPT ![s] = Blank]
           /\ ForgetRecord /\ ResumeMayFault
           /\ resetPending' = (resetPending \/ ~fault')
           /\ phase' = "idle" /\ candidate' = candidate
  <2>1. /\ flash' \in [Slots -> Pages] /\ flash'[s] = Blank /\ flash'[Other(s)] \notin Records
    BY <1>1, <1>2, <1>3, PageWritten DEF JournalInv
  <2>2. NewestSlot(flash', Slots) = NoSlot
    BY <1>1, <2>1, SoleRecordIsNewest
  <2>3. FlashTypeOK'
    BY <1>3, <2>1 DEF EraseNewest, JournalInv, JournalTypeOK, FlashTypeOK, handVars
  <2>4. StoreTypeOK'
    <3>1. fault' \in BOOLEAN
      BY <1>3 DEF ResumeMayFault
    <3>2. 0 \in 0 .. Quiet
      BY JournalConstants DEF JournalConstants
    <3> QED BY <1>2, <1>3, <3>1, <3>2
            DEF EraseNewest, ForgetRecord, JournalInv, JournalTypeOK, StoreTypeOK
  <2>5. AppTypeOK'
    <3>1. resetPending' \in BOOLEAN
      BY <1>3
    <3> QED BY <3>1 DEF EraseNewest, JournalInv, JournalTypeOK, AppTypeOK, handVars
  <2>6. TracksFlash' /\ RecordHasSlot' /\ PendingIsDifference'
    BY <1>3, <2>2 DEF ForgetRecord, TracksFlash, Current, RecordHasSlot, PendingIsDifference
  <2>7. LoadedState'
    BY <1>2, <1>3 DEF EraseNewest, ForgetRecord, LoadedState
  <2> QED BY <1>3, <2>3, <2>4, <2>5, <2>6, <2>7
          DEF JournalInv, JournalTypeOK, SaveInProgress, ClearInProgress, Saving, Clearing
<1>4. CASE /\ flash' \in {flash, [flash EXCEPT ![s] = Torn]}
           /\ SaveFails /\ UNCHANGED resetPending
  <2>1. flash' \in [Slots -> Pages]
    BY <1>1, <1>4, PageWritten DEF JournalInv, JournalTypeOK, FlashTypeOK
  <2> QED BY <1>4, <2>1, FailureKeepsInv DEF EraseNewest
<1> QED BY <1>3, <1>4 DEF EraseNewest

LEMMA StepKeepsInv == JournalInv /\ [Next]_vars => JournalInv'
<1>1. ASSUME JournalInv, UNCHANGED vars PROVE JournalInv'
  <2>1. FlashTypeOK'
    BY <1>1 DEF vars, handVars, JournalInv, JournalTypeOK, FlashTypeOK
  <2>2. StoreTypeOK' /\ AppTypeOK'
    BY <1>1 DEF vars, handVars, storeVars, JournalInv, JournalTypeOK, StoreTypeOK, AppTypeOK
  <2>3. TracksFlash' /\ RecordHasSlot' /\ PendingIsDifference' /\ LoadedState'
    BY <1>1 DEF vars, storeVars, JournalInv, TracksFlash, Current, RecordHasSlot,
                PendingIsDifference, LoadedState
  <2>4. SaveInProgress' /\ ClearInProgress'
    BY <1>1 DEF vars, handVars, storeVars, JournalInv, SaveInProgress, ClearInProgress, Saving,
                Clearing, TargetSlot, FirstErased, NextGeneration
  <2> QED BY <2>1, <2>2, <2>3, <2>4 DEF JournalInv, JournalTypeOK
<1> QED BY <1>1, LoadKeepsInv, NoticeKeepsInv, BeginSaveKeepsInv, BeginCalibrationSaveKeepsInv,
           EraseTargetKeepsInv, ProgramTargetKeepsInv, VerifyTargetKeepsInv, FailStopKeepsInv,
           GateFailsKeepsInv, BeginClearKeepsInv, EraseOlderKeepsInv, EraseNewestKeepsInv,
           ApplyDefaultsKeepsInv, EditKeepsInv, PlayKeepsInv, GateTurnsKeepsInv, TickKeepsInv,
           PowerCutKeepsInv
        DEF Next, Boot, Write, Clear

(* The journal keeps JournalInv, whatever fails and whenever the power     *)
(* does.                                                                   *)
THEOREM JournalInvariant == Spec => []JournalInv
BY InitInv, StepKeepsInv, PTL DEF Spec

-----------------------------------------------------------------------------
(* What it means.                                                          *)

(* While no fault is latched the slot and the record in RAM are those a    *)
(* boot would choose (device_store.c: device_store_load, accept).          *)
THEOREM TrackingCorrect == Spec => []JournalTracksFlash
<1>1. JournalInv => JournalTracksFlash
  BY DEF JournalInv, LoadedState, TracksFlash, RecordHasSlot, JournalTracksFlash
<1> QED BY <1>1, JournalInvariant, PTL

(* What the telemetry shows as saved (m1_live.c: storage_flags, valid and  *)
(* not pending) is what a boot after a power cut restores.                 *)
THEOREM DurabilityCorrect == Spec => []SavedMeansDurable
<1>1. ASSUME JournalInv PROVE SavedMeansDurable
  <2> SUFFICES ASSUME ready, ~pending, ~fault, observed = live, phase = "idle"
               PROVE  Current # NoSlot /\ flash[Current].settings = live
    BY DEF SavedMeansDurable
  <2>1. observed # None
    BY <1>1, PageKinds DEF JournalInv, JournalTypeOK, AppTypeOK, PageKinds
  <2>2. record # None /\ record.settings = live
    BY <1>1, <2>1 DEF JournalInv, PendingIsDifference
  <2>3. slot # NoSlot /\ slot = Current /\ record = flash[slot]
    BY <1>1, <2>2 DEF JournalInv, RecordHasSlot, LoadedState, TracksFlash
  <2> QED BY <2>2, <2>3
<1> QED BY <1>1, JournalInvariant, PTL

(* The only steps that start a save.                                       *)
LEMMA SaveStarts ==
    ASSUME Next, phase = "idle", phase' = "erase"
    PROVE  BeginSave \/ \E b \in Bounds : BeginCalibrationSave(b)
<1>1. ~Boot /\ ~Notice
  BY DEF Boot, Load, Notice
<1>2. ~Write /\ ~FailStop /\ ~GateFails
  BY DEF Write, EraseTarget, ProgramTarget, VerifyTarget, FailStop, GateFails
<1>3. ~BeginClear /\ ~Clear /\ ~ApplyDefaults
  BY DEF BeginClear, Clear, EraseOlder, EraseNewest, ApplyDefaults
<1>4. ~(\E s \in Settings : Edit(s)) /\ ~Play /\ ~GateTurns /\ ~Tick /\ ~PowerCut
  BY DEF Edit, Play, GateTurns, Tick, PowerCut
<1> QED BY <1>1, <1>2, <1>3, <1>4 DEF Next

(* Unchanged settings are not rewritten (device_store_service).            *)
THEOREM WearCorrect == Spec => NoWear
<1>1. ASSUME JournalInv, [Next]_vars, phase = "idle", phase' = "erase", ~busy
      PROVE  Current = NoSlot \/ flash[Current].settings # live
  <2>1. BeginSave
    BY <1>1, SaveStarts DEF vars, BeginCalibrationSave, CalibrationDue
  <2>2. ready /\ ~fault /\ observed = live /\ pending
    BY <2>1 DEF BeginSave, SaveDue, Watching, Unseen
  <2>3. record = None \/ record.settings # live
    BY <1>1, <2>2, PageKinds
       DEF JournalInv, PendingIsDifference, JournalTypeOK, AppTypeOK, PageKinds
  <2>4. slot = Current /\ (slot # NoSlot => record # None /\ record = flash[slot])
    BY <1>1, <2>2 DEF JournalInv, LoadedState, TracksFlash, RecordHasSlot
  <2> QED BY <2>3, <2>4
<1> QED BY <1>1, JournalInvariant, PTL DEF Spec, NoWear

-----------------------------------------------------------------------------
(* The refinement.                                                         *)

LEMMA RecordsAreProfiles ==
    \A r \in Records : /\ ProfileOf(r) \in Profiles
                       /\ ProfileOf(r) # Nothing /\ ProfileOf(r) # NoRequest
BY PageKinds DEF PageKinds, Records, Profiles, ProfileOf

LEMMA RequestFacts ==
    ASSUME JournalInv
    PROVE  /\ Saving => Request = ProfileOf(candidate) /\ Request # NoRequest
           /\ Clearing => Request = Nothing /\ Request # NoRequest
           /\ ~Saving /\ ~Clearing => Request = NoRequest
<1>1. Nothing # NoRequest
  BY PageKinds DEF PageKinds
<1>2. Saving => ~Clearing /\ candidate \in Records
  BY DEF JournalInv, SaveInProgress, Saving, Clearing
<1> QED BY <1>1, <1>2, RecordsAreProfiles DEF Request

(* The abstract cell after a page was spoiled, in a journal that need not  *)
(* be tracked: the newest profile stays, or the one before it is back, or  *)
(* nothing is left.                                                        *)
LEMMA Spoiled ==
    ASSUME JournalInv, NEW s \in Slots, NEW p \in Pages, p \notin Records,
           flash' = [flash EXCEPT ![s] = p]
    PROVE  /\ OlderProfile' = Nothing
           /\ \/ SavedProfile' = SavedProfile
              \/ SavedProfile' = OlderProfile /\ OlderProfile # Nothing
              \/ SavedProfile' = Nothing
           /\ flash[Other(s)] \notin Records => SavedProfile' = Nothing
<1>1. /\ flash' \in [Slots -> Pages] /\ flash'[s] = p /\ flash'[Other(s)] = flash[Other(s)]
      /\ Other(s) \in Slots /\ Other(s) # s
      /\ flash \in [Slots -> Pages]
  BY PageWritten DEF JournalInv, JournalTypeOK, FlashTypeOK
<1>2. OlderProfile' = Nothing
  BY <1>1 DEF OlderProfile, Valid
<1>3. Current' = IF flash[Other(s)] \in Records THEN Other(s) ELSE NoSlot
  <2>1. Other(Other(s)) = s
    BY OtherSlot
  <2> QED BY <1>1, <2>1, SoleRecordIsNewest DEF Current
<1>4. NoSlot \notin Slots
  BY DEF NoSlot, Slots
<1>5. CASE flash[Other(s)] \notin Records
  BY <1>2, <1>3, <1>5 DEF SavedProfile
<1>6. CASE flash[Other(s)] \in Records
  <2>1. SavedProfile' = ProfileOf(flash[Other(s)])
    BY <1>1, <1>3, <1>4, <1>6 DEF SavedProfile
  <2>2. Current \in Slots /\ flash[Current] \in Records
    <3>1. Slots \in SUBSET Slots
      OBVIOUS
    <3> QED BY <1>1, <1>6, <3>1, NewestIsASlot DEF Current
  <2>3. CASE Current = Other(s)
    BY <1>2, <1>4, <1>6, <2>1, <2>2, <2>3 DEF SavedProfile
  <2>4. CASE Current # Other(s)
    <3>1. Current = s
      BY <2>2, <2>4 DEF Other, Slots
    <3>2. Valid(flash) = Slots
      BY <1>1, <1>6, <2>2, <3>1 DEF Valid, Slots, Other
    <3>3. OlderProfile = ProfileOf(flash[Other(s)])
      BY <3>1, <3>2 DEF OlderProfile
    <3> QED BY <1>2, <1>6, <2>1, <3>3, RecordsAreProfiles
  <2> QED BY <2>3, <2>4
<1> QED BY <1>5, <1>6

(* One opposite to the current record leaves the newest profile alone.     *)
LEMMA OppositeKeepsProfile ==
    ASSUME JournalInv, loaded, ~fault, phase \notin {"verify", "stopped"},
           NEW s \in Slots, slot # NoSlot => s = Other(slot),
           NEW p \in Pages, p \notin Records, flash' = [flash EXCEPT ![s] = p]
    PROVE  SavedProfile' = SavedProfile
<1>1. slot = Current /\ (slot # NoSlot => record = flash[slot])
  BY DEF JournalInv, TracksFlash
<1>2. Current' = slot /\ (slot # NoSlot => flash'[slot] = record)
  BY OppositeSpoiled DEF Current
<1> QED BY <1>1, <1>2 DEF SavedProfile

(* The candidate on its page is the saved profile, and what it replaces    *)
(* may linger.                                                             *)
LEMMA CandidateTakesEffect ==
    ASSUME JournalInv, phase = "program", flash' = [flash EXCEPT ![TargetSlot] = candidate]
    PROVE  SavedProfile' = ProfileOf(candidate) /\ OlderProfile' \in {SavedProfile, Nothing}
<1>1. /\ loaded /\ ~fault
      /\ candidate \in Records /\ candidate.gen = NextGeneration
  BY DEF JournalInv, SaveInProgress, Saving
<1>2. TargetSlot \in Slots /\ NoSlot \notin Slots /\ candidate \in Pages
  BY <1>1, SlotFacts DEF JournalInv, Pages
<1>3. /\ flash' \in [Slots -> Pages] /\ flash'[TargetSlot] = candidate
      /\ flash'[Other(TargetSlot)] = flash[Other(TargetSlot)]
      /\ Other(TargetSlot) \in Slots /\ Other(TargetSlot) # TargetSlot
      /\ Other(Other(TargetSlot)) = TargetSlot
  BY <1>2, PageWritten DEF JournalInv
<1>4. CASE slot = NoSlot
  <2>1. flash'[Other(TargetSlot)] \notin Records
    BY <1>1, <1>3, <1>4, TrackedPages
  <2>2. Current' = TargetSlot
    BY <1>1, <1>2, <1>3, <2>1, SoleRecordIsNewest DEF Current
  <2>3. OlderProfile' = Nothing
    BY <1>3, <2>1 DEF OlderProfile, Valid
  <2> QED BY <1>2, <1>3, <2>2, <2>3 DEF SavedProfile
<1>5. CASE slot # NoSlot
  <2>1. slot = Other(TargetSlot) /\ flash[slot] = record /\ record \in Records /\ slot = Current
    BY <1>1, <1>5, SlotFacts, TrackedPages DEF JournalInv, TracksFlash
  <2>2. candidate.gen = (record.gen + 1) % Generations
    BY <1>1, <2>1, PageKinds DEF NextGeneration, PageKinds
  <2>3. Current' = TargetSlot
    BY <1>1, <1>3, <2>1, <2>2, SuccessorIsNewest DEF Current
  <2>4. Valid(flash') = Slots
    BY <1>1, <1>2, <1>3, <2>1 DEF Valid, Slots, Other
  <2>5. OlderProfile' = ProfileOf(record)
    BY <1>3, <2>1, <2>3, <2>4 DEF OlderProfile
  <2>6. SavedProfile = ProfileOf(record)
    BY <1>5, <2>1 DEF SavedProfile
  <2> QED BY <1>2, <1>3, <2>3, <2>5, <2>6 DEF SavedProfile
<1> QED BY <1>4, <1>5

(* Whatever is left on the page that a save or a reset is writing, and     *)
(* whether or not the request goes on, the abstract cell makes a step.     *)
WrittenSlot ==
    IF phase = "clear older" THEN FirstErased
    ELSE IF phase = "clear newest" THEN Other(FirstErased) ELSE TargetSlot

LEMMA WriteIsAtomic ==
    ASSUME JournalInv, phase \in {"erase", "program", "clear older", "clear newest"},
           NEW p, p \in {flash[WrittenSlot], Blank, Torn} \/ (phase = "program" /\ p = candidate),
           flash' = [flash EXCEPT ![WrittenSlot] = p],
           Request' \in {Request, NoRequest}
    PROVE  Atomic!Next
<1>1. Doubtful' \in BOOLEAN
  BY DEF Doubtful
<1>2. Request # NoRequest
  BY RequestFacts DEF Saving, Clearing
<1>3. WrittenSlot \in Slots /\ Blank \in Pages /\ Torn \in Pages
  BY SlotFacts DEF WrittenSlot, Pages, JournalInv
<1>4. CASE p = flash[WrittenSlot]
  <2>1. flash' = flash
    BY <1>3, <1>4 DEF JournalInv, JournalTypeOK, FlashTypeOK
  <2>2. SavedProfile' = SavedProfile /\ OlderProfile' = OlderProfile
    BY <2>1 DEF SavedProfile, OlderProfile, Current
  <2> QED BY <1>1, <1>2, <2>2 DEF Atomic!Next, Atomic!End
<1>5. CASE phase = "program" /\ p = candidate
  <2>1. SavedProfile' = ProfileOf(candidate) /\ OlderProfile' \in {SavedProfile, Nothing}
    BY <1>5, CandidateTakesEffect DEF WrittenSlot
  <2>2. Request = ProfileOf(candidate)
    BY <1>5, RequestFacts DEF Saving
  <2> QED BY <1>1, <1>2, <2>1, <2>2 DEF Atomic!Next, Atomic!TakeEffect, Atomic!Underway
<1>6. CASE p \in {Blank, Torn}
  <2>1. p \in Pages /\ p \notin Records
    BY <1>3, <1>6, PageKinds DEF PageKinds
  <2>2. /\ OlderProfile' = Nothing
        /\ \/ SavedProfile' = SavedProfile
           \/ SavedProfile' = OlderProfile /\ OlderProfile # Nothing
           \/ SavedProfile' = Nothing
        /\ flash[Other(WrittenSlot)] \notin Records => SavedProfile' = Nothing
    BY <1>3, <2>1, Spoiled
  <2>3. CASE phase # "clear newest" /\ ~fault
    <3>1. loaded /\ phase \notin {"verify", "stopped"}
      BY <2>3 DEF JournalInv, SaveInProgress, ClearInProgress, Saving, Clearing
    <3>2. slot # NoSlot => WrittenSlot = Other(slot)
      BY <2>3 DEF WrittenSlot, TargetSlot, FirstErased
    <3>3. SavedProfile' = SavedProfile
      BY <1>3, <2>1, <2>3, <3>1, <3>2, OppositeKeepsProfile
    <3> QED BY <1>1, <1>2, <2>2, <3>3 DEF Atomic!Next, Atomic!Forget, Atomic!Underway
  <2>4. CASE phase = "clear older" /\ fault
    <3>1. Doubtful /\ Request = Nothing
      BY <2>4, RequestFacts
         DEF Doubtful, JournalInv, ClearInProgress, Clearing, JournalTypeOK, FlashTypeOK
    <3>2. CASE SavedProfile' = SavedProfile
      BY <1>1, <1>2, <2>2, <3>2 DEF Atomic!Next, Atomic!Forget, Atomic!Underway
    <3>3. CASE SavedProfile' = OlderProfile /\ OlderProfile # Nothing
      BY <1>1, <1>2, <2>2, <3>1, <3>3 DEF Atomic!Next, Atomic!Revive, Atomic!Underway
    <3>4. CASE SavedProfile' = Nothing
      BY <1>1, <1>2, <2>2, <3>1, <3>4 DEF Atomic!Next, Atomic!TakeEffect, Atomic!Underway
    <3> QED BY <2>2, <3>2, <3>3, <3>4
  <2>5. CASE phase = "clear newest"
    <3>1. flash[Other(WrittenSlot)] \notin Records
      BY <2>5, SlotFacts, OtherSlot DEF WrittenSlot, JournalInv, ClearInProgress
    <3>2. SavedProfile' = Nothing /\ Request = Nothing
      BY <2>2, <2>5, <3>1, RequestFacts DEF Clearing
    <3> QED BY <1>1, <1>2, <2>2, <3>2 DEF Atomic!Next, Atomic!TakeEffect, Atomic!Underway
  <2>6. phase \in {"erase", "program"} => ~fault
    BY DEF JournalInv, SaveInProgress, Saving
  <2> QED BY <2>3, <2>4, <2>5, <2>6
<1> QED BY <1>4, <1>5, <1>6

(* Steps that leave the pages alone and start or end nothing.              *)
LEMMA StutterIsAtomic ==
    ASSUME flash' = flash, phase' = phase, candidate' = candidate
    PROVE  Atomic!Next
<1>1. Doubtful' \in BOOLEAN
  BY DEF Doubtful
<1>2. SavedProfile' = SavedProfile /\ OlderProfile' = OlderProfile /\ Request' = Request
  BY DEF SavedProfile, OlderProfile, Current, Request, Saving, Clearing
<1> QED BY <1>1, <1>2 DEF Atomic!Next

(* Steps that leave the pages alone and end a request, or meet none.       *)
LEMMA EndIsAtomic ==
    ASSUME JournalInv, flash' = flash, phase' \in {"idle", "stopped"}
    PROVE  Atomic!Next
<1>1. Doubtful' \in BOOLEAN
  BY DEF Doubtful
<1>2. SavedProfile' = SavedProfile /\ OlderProfile' = OlderProfile /\ Request' = NoRequest
  BY DEF SavedProfile, OlderProfile, Current, Request, Saving, Clearing
<1>3. Request = NoRequest => Request' = Request
  BY <1>2
<1> QED BY <1>1, <1>2, <1>3 DEF Atomic!Next, Atomic!End

LEMMA BeginIsAtomic ==
    ASSUME JournalInv, phase = "idle", loaded, ~fault, flash' = flash, phase' = "erase",
           NEW b \in Bounds \cup {KeptBounds},
           candidate' = [gen |-> NextGeneration, settings |-> live, bounds |-> b]
    PROVE  Atomic!Next
<1>1. Doubtful' \in BOOLEAN
  BY DEF Doubtful
<1>2. SavedProfile' = SavedProfile /\ OlderProfile' = OlderProfile
  BY DEF SavedProfile, OlderProfile, Current
<1>3. Request = NoRequest
  BY RequestFacts DEF Saving, Clearing
<1>4. Request' = [settings |-> live, bounds |-> b]
  BY DEF Request, Saving, ProfileOf
<1>5. slot = Current /\ (slot # NoSlot => record = flash[slot] /\ record \in Records)
  BY TrackedPages DEF JournalInv, TracksFlash
<1>6. Atomic!KeptBounds = KeptBounds
  <2>1. CASE slot = NoSlot
    BY <1>5, <2>1 DEF Atomic!KeptBounds, KeptBounds, SavedProfile, JournalInv, RecordHasSlot
  <2>2. CASE slot # NoSlot
    <3>1. SavedProfile = ProfileOf(record) /\ SavedProfile # Nothing
      BY <1>5, <2>2, RecordsAreProfiles DEF SavedProfile
    <3>2. record # None
      BY <2>2 DEF JournalInv, RecordHasSlot
    <3> QED BY <3>1, <3>2 DEF Atomic!KeptBounds, KeptBounds, ProfileOf
  <2> QED BY <2>1, <2>2
<1>7. KeptBounds \in Bounds \cup {NoBounds} /\ live \in Settings
  BY DEF KeptBounds, JournalInv, JournalTypeOK, StoreTypeOK, AppTypeOK, Records
<1>8. Atomic!AskSave(live, b)
  BY <1>2, <1>3, <1>4, <1>6 DEF Atomic!AskSave
<1> QED BY <1>1, <1>7, <1>8 DEF Atomic!Next

LEMMA BeginClearIsAtomic == ASSUME JournalInv, BeginClear PROVE Atomic!Next
<1>1. Doubtful' \in BOOLEAN
  BY DEF Doubtful
<1>2. SavedProfile' = SavedProfile /\ OlderProfile' = OlderProfile
  BY DEF BeginClear, SavedProfile, OlderProfile, Current
<1>3. Request = NoRequest /\ Request' = Nothing
  BY RequestFacts DEF BeginClear, Request, Saving, Clearing
<1> QED BY <1>1, <1>2, <1>3 DEF Atomic!Next, Atomic!AskReset

(* A request that goes on stays what it was.                               *)
LEMMA RequestStays ==
    /\ phase' \in {"idle", "stopped"} => Request' = NoRequest
    /\ Saving /\ Saving' /\ candidate' = candidate => Request' = Request
    /\ Clearing /\ Clearing' => Request' = Request
BY DEF Request, Saving, Clearing, ProfileOf

LEMMA WritingIsAtomic ==
    ASSUME JournalInv, EraseTarget \/ ProgramTarget \/ EraseOlder \/ EraseNewest \/ FailStop
    PROVE  Atomic!Next
<1>1. WrittenSlot \in Slots
  BY SlotFacts DEF WrittenSlot, JournalInv
<1>2. flash = [flash EXCEPT ![WrittenSlot] = flash[WrittenSlot]]
  BY <1>1 DEF JournalInv, JournalTypeOK, FlashTypeOK
<1>3. CASE EraseTarget
  <2>1. /\ phase = "erase"
        /\ \E p \in {flash[WrittenSlot], Blank, Torn} : flash' = [flash EXCEPT ![WrittenSlot] = p]
    BY <1>2, <1>3 DEF EraseTarget, WrittenSlot
  <2>2. Request' \in {Request, NoRequest}
    BY <1>3, RequestStays DEF EraseTarget, SaveFails, Saving
  <2> QED BY <2>1, <2>2, WriteIsAtomic
<1>4. CASE ProgramTarget
  <2>1. /\ phase = "program"
        /\ \E p \in {candidate, Blank, Torn} : flash' = [flash EXCEPT ![WrittenSlot] = p]
    BY <1>4 DEF ProgramTarget, WrittenSlot
  <2>2. Request' \in {Request, NoRequest}
    BY <1>4, RequestStays DEF ProgramTarget, SaveFails, Saving
  <2> QED BY <2>1, <2>2, WriteIsAtomic
<1>5. CASE EraseOlder
  <2>1. /\ phase = "clear older"
        /\ \E p \in {flash[WrittenSlot], Blank, Torn} : flash' = [flash EXCEPT ![WrittenSlot] = p]
    BY <1>2, <1>5 DEF EraseOlder, WrittenSlot
  <2>2. Request' \in {Request, NoRequest}
    BY <1>5, RequestStays DEF EraseOlder, SaveFails, Clearing
  <2> QED BY <2>1, <2>2, WriteIsAtomic
<1>6. CASE EraseNewest
  <2>1. /\ phase = "clear newest"
        /\ \E p \in {flash[WrittenSlot], Blank, Torn} : flash' = [flash EXCEPT ![WrittenSlot] = p]
    BY <1>2, <1>6 DEF EraseNewest, WrittenSlot
  <2>2. Request' \in {Request, NoRequest}
    BY <1>6, RequestStays DEF EraseNewest, SaveFails
  <2> QED BY <2>1, <2>2, WriteIsAtomic
<1>7. CASE FailStop
  <2>1. /\ phase \in {"erase", "program", "clear older", "clear newest"}
        /\ \E p \in {flash[WrittenSlot], Blank, Torn} \cup
                    (IF phase = "program" THEN {candidate} ELSE {}) :
              flash' = [flash EXCEPT ![WrittenSlot] = p]
    BY <1>7 DEF FailStop, WrittenSlot
  <2>2. Request' \in {Request, NoRequest}
    BY <1>7, RequestStays DEF FailStop
  <2> QED BY <2>1, <2>2, WriteIsAtomic
<1> QED BY <1>3, <1>4, <1>5, <1>6, <1>7

LEMMA PowerCutIsAtomic == ASSUME JournalInv, PowerCut PROVE Atomic!Next
<1>1. CASE flash' = flash
  BY <1>1, EndIsAtomic DEF PowerCut
<1>2. CASE flash' # flash
  <2>1. /\ phase \in {"erase", "program", "clear older", "clear newest"}
        /\ \E p \in {Blank, Torn} : flash' = [flash EXCEPT ![WrittenSlot] = p]
    BY <1>2 DEF PowerCut, WrittenSlot
  <2>2. Request' = NoRequest
    BY RequestStays DEF PowerCut
  <2> QED BY <2>1, <2>2, WriteIsAtomic
<1> QED BY <1>1, <1>2

LEMMA StepIsAtomic == JournalInv /\ Next => Atomic!Next
<1> SUFFICES ASSUME JournalInv, Next PROVE Atomic!Next
  OBVIOUS
<1>1. CASE Boot \/ Notice \/ GateFails \/ ApplyDefaults
  BY <1>1, StutterIsAtomic DEF Boot, Load, Notice, GateFails, ApplyDefaults
<1>2. CASE (\E s \in Settings : Edit(s)) \/ Play \/ GateTurns \/ Tick
  BY <1>2, StutterIsAtomic DEF Edit, Play, GateTurns, Tick
<1>3. CASE BeginSave
  <2>1. loaded /\ ~fault
    BY <1>3 DEF BeginSave, SaveDue, Watching, JournalInv, LoadedState
  <2> QED BY <1>3, <2>1, BeginIsAtomic DEF BeginSave
<1>4. ASSUME NEW b \in Bounds, BeginCalibrationSave(b) PROVE Atomic!Next
  BY <1>4, BeginIsAtomic DEF BeginCalibrationSave, CalibrationDue
<1>5. CASE EraseTarget \/ ProgramTarget \/ Clear \/ FailStop
  BY <1>5, WritingIsAtomic DEF Clear
<1>6. CASE VerifyTarget
  BY <1>6, EndIsAtomic DEF VerifyTarget, SaveFails
<1>7. CASE BeginClear
  BY <1>7, BeginClearIsAtomic
<1>8. CASE PowerCut
  BY <1>8, PowerCutIsAtomic
<1> QED BY <1>1, <1>2, <1>3, <1>4, <1>5, <1>6, <1>7, <1>8 DEF Next, Write

(* The journal implements the atomic cell of AtomicProfile: a save takes   *)
(* effect in one instant and a reset too, whatever fails and whenever the  *)
(* power does (device_store.c; docs/DEVICE_CONFIG_STORAGE.md).             *)
THEOREM RefinementCorrect == Spec => ImplementsAtomicProfile
<1>1. Init => Atomic!Init
  <2> SUFFICES ASSUME Init PROVE Atomic!Init
    OBVIOUS
  <2>1. Valid(flash) = {}
    BY PageKinds DEF Init, Valid, PageKinds
  <2>2. SavedProfile = Nothing /\ OlderProfile = Nothing
    <3>1. Current = NoSlot /\ Valid(flash) # Slots
      BY <2>1 DEF Current, NewestSlot, Slots
    <3> QED BY <3>1 DEF SavedProfile, OlderProfile
  <2>3. Request = NoRequest /\ Doubtful = FALSE
    BY DEF Init, Request, Saving, Clearing, Doubtful
  <2> QED BY <2>2, <2>3 DEF Atomic!Init
<1>2. JournalInv /\ [Next]_vars
        => [Atomic!Next]_<<SavedProfile, OlderProfile, Request, Doubtful>>
  <2>1. ASSUME UNCHANGED vars
        PROVE  UNCHANGED <<SavedProfile, OlderProfile, Request, Doubtful>>
    BY <2>1 DEF vars, handVars, storeVars, SavedProfile, OlderProfile, Current, Request, Saving,
                Clearing, Doubtful
  <2> QED BY <2>1, StepIsAtomic
<1> QED BY <1>1, <1>2, JournalInvariant, PTL DEF Spec, ImplementsAtomicProfile, Atomic!Spec
=============================================================================
