--------------------------- MODULE ProfileJournal ---------------------------
(***************************************************************************)
(* device_store.c: the whole profile lives in two flash pages.  A save     *)
(* erases, programs and reads back the page that does not hold the current *)
(* record, and becomes current by its generation number; loading takes the *)
(* newest valid record; a reset erases both pages, the older first.  Power *)
(* may be lost at any point, an erase or a program may fail or leave a     *)
(* torn page, and the controller may fail to read a page at boot.          *)
(*                                                                         *)
(* The two boards differ.  The Huntsman hands the application a load       *)
(* operation, which runs again after a reset, and clears without looking   *)
(* at the store's fault.  The M1 loads once, at boot, refuses to clear a   *)
(* faulted store, and brackets every transaction with a begin and an end   *)
(* that may themselves fail.  It also holds a transaction back, for as     *)
(* long as it takes, until its outputs are silent, its transports drained, *)
(* its lights idle and its supply good; nothing says that this ever comes. *)
(***************************************************************************)
EXTENDS Integers, FiniteSets

CONSTANTS
    Settings,         \* the settings a profile can hold
    DefaultSettings,  \* those of a fresh board
    Bounds,           \* completed calibrations
    NoBounds,         \* no calibration saved
    Generations,      \* generation numbers wrap at this power of two (2^32)
    Quiet,            \* SETTINGS_SAVE_QUIET_MS, in ticks
    Blank, Torn,      \* an erased page, a page no record can be read from
    Nothing, None,    \* no profile, no value
    NoRequest,        \* the abstract store has no request in progress
    Boards            \* among "huntsman" and "m1"

Slots == 0 .. 1
NoSlot == 255
Other(s) == 1 - s

ASSUME JournalConstants ==
    /\ DefaultSettings \in Settings
    /\ NoBounds \notin Bounds
    /\ Generations \in Nat /\ Generations >= 4
    /\ Quiet \in Nat
    /\ Boards \subseteq {"huntsman", "m1"}

Profiles == [settings : Settings, bounds : Bounds \cup {NoBounds}]
Records == [gen : 0 .. Generations - 1, settings : Settings, bounds : Bounds \cup {NoBounds}]
Pages == Records \cup {Blank, Torn}

ASSUME PageKinds ==
    /\ Blank \notin Records /\ Torn \notin Records /\ Nothing \notin Records
    /\ None \notin Records /\ None \notin Settings
    /\ Nothing \notin Profiles /\ NoRequest \notin Profiles \cup {Nothing}

VARIABLES
    board,        \* the board at hand
    gate,         \* what a turn of its loop allows: one of Gates
    flash,        \* the two pages
    phase,        \* idle, or the step of the save or reset in progress
    candidate,    \* the record being written, or None
    ready,        \* pages were read since boot or the last reset
    applied,      \* the loaded profile was handed to the application
    loaded,       \* the board will not load any more
    fault,        \* no automatic write may happen any more
    slot,         \* the page of the current record, or NoSlot
    record,       \* the current record, or None
    pending,      \* settings differ from the record and wait to be saved
    observed,     \* the settings last looked at, or None
    age,          \* ticks since they changed
    live,         \* the application's settings
    resetPending, \* the profile is gone, defaults wait for a neutral frame
    busy,         \* an editor, menu page or calibration is open
    held          \* a key is down

(* "blind": no valid, fresh frame, so the store is not looked at; "busy":  *)
(* the M1 has frames, but m1_save.c or storage_blocked puts a transaction  *)
(* off (M1_SAVE_DEFER), which leaves everything as it is; "open": neither. *)
Gates == {"blind", "open"} \cup (IF board = "m1" THEN {"busy"} ELSE {})
Scanning == gate # "blind"
Open == gate = "open"

storeVars == <<ready, applied, fault, slot, record, pending, observed, age>>
handVars == <<board, gate, held>>
vars == <<board, gate, flash, phase, candidate, storeVars, loaded, live, resetPending, busy, held>>

-----------------------------------------------------------------------------
(* Reading the journal.                                                    *)

Valid(pages) == {s \in Slots : pages[s] \in Records}

(* (int32_t)(a - b) > 0                                                    *)
BugNewer(a, b) == a > b           \* mutant: no wraparound
Newer(a, b) == (a - b) % Generations \in 1 .. (Generations \div 2) - 1

(* device_store_load: the slot of the newest valid record, the first one   *)
(* unless the second is newer.                                             *)
NewestSlot(pages, readable) ==
    LET good == Valid(pages) \cap readable
    IN  IF good = {} THEN NoSlot
        ELSE IF good = {1} \/ (good = Slots /\ Newer(pages[1].gen, pages[0].gen))
        THEN 1 ELSE 0

NextGeneration == IF record = None THEN 1 ELSE (record.gen + 1) % Generations
KeptBounds == IF record = None THEN NoBounds ELSE record.bounds

(* "Never fall back to overwriting the sole good snapshot."                *)
TargetSlot == IF slot = NoSlot THEN 0 ELSE Other(slot)

(* device_store_clear: the page that does not hold the current record.     *)
BugFirstErased == IF slot = NoSlot THEN 0 ELSE slot \* mutant: newest first
FirstErased == IF slot = NoSlot THEN 0 ELSE Other(slot)

ForgetRecord ==
    /\ ready' = FALSE /\ applied' = FALSE
    /\ slot' = NoSlot /\ record' = None
    /\ pending' = FALSE /\ observed' = None /\ age' = 0

-----------------------------------------------------------------------------
(* Boot: the Huntsman's first valid frame, or the M1's initialization,     *)
(* loads, and the profile is applied before anything else runs.  A page    *)
(* the controller cannot read faults the store.                            *)

Load(unreadable) ==
    /\ phase = "idle" /\ ~loaded
    /\ board = "huntsman" => Scanning
    /\ loaded' = TRUE
    /\ LET s == NewestSlot(flash, Slots \ unreadable)
       IN /\ slot' = s
          /\ record' = IF s = NoSlot THEN None ELSE flash[s]
    /\ ready' = TRUE /\ applied' = TRUE
    /\ fault' = (unreadable # {})
    /\ pending' = FALSE /\ observed' = None /\ age' = 0
    /\ live' = IF record' = None THEN live ELSE record'.settings
    /\ UNCHANGED <<flash, phase, candidate, resetPending, busy, handVars>>

-----------------------------------------------------------------------------
(* device_store_service: poll the settings and, once they have been quiet  *)
(* long enough with every key up and nothing open, save them.              *)

Watching == Scanning /\ ready /\ applied /\ ~fault /\ ~resetPending
Unseen == observed # live
BugFirstSave == record # None /\ record.settings # live \* mutant: no first save
BugAnyEdit == TRUE                            \* mutant: every edit is pending
Differs == record = None \/ record.settings # live

Due(waited) == waited >= Quiet /\ ~busy /\ ~held

(* Settings seen for the first time start the wait again, or end it if the *)
(* record holds them already.                                              *)
Notice ==
    /\ phase = "idle" /\ Watching
    /\ Unseen
    /\ observed' = live
    /\ pending' = Differs
    /\ age' = IF Differs THEN 0 ELSE age
    /\ UNCHANGED <<flash, phase, candidate, ready, applied, fault, slot, record, loaded,
                   live, resetPending, busy, handVars>>

SaveDue == Watching /\ ~Unseen /\ pending /\ Due(age)

BeginSave ==
    /\ phase = "idle" /\ SaveDue /\ Open
    /\ candidate' = [gen |-> NextGeneration, settings |-> live, bounds |-> KeptBounds]
    /\ phase' = "erase"
    /\ UNCHANGED <<flash, storeVars, loaded, live, resetPending, busy, handVars>>

(* device_store_update with a completed calibration: it asks for no load.  *)
CalibrationDue == Scanning /\ loaded /\ busy /\ ~fault /\ ~resetPending

BeginCalibrationSave(b) ==
    /\ phase = "idle" /\ CalibrationDue /\ Open
    /\ candidate' = [gen |-> NextGeneration, settings |-> live, bounds |-> b]
    /\ phase' = "erase"
    /\ UNCHANGED <<flash, storeVars, loaded, live, resetPending, busy, handVars>>

(* The M1 faults the store when it cannot resume after a transaction.      *)
ResumeMayFault == fault' \in {FALSE} \cup (IF board = "m1" THEN {TRUE} ELSE {})

SaveFails ==
    /\ fault' = TRUE
    /\ phase' = "idle" /\ candidate' = None
    /\ UNCHANGED <<ready, applied, slot, record, pending, observed, age>>

(* The board's writer: erase and blank-check, ...                          *)
EraseTarget ==
    /\ phase = "erase"
    /\ \/ /\ flash' = [flash EXCEPT ![TargetSlot] = Blank]
          /\ phase' = "program"
          /\ UNCHANGED <<candidate, storeVars>>
       \/ /\ flash' \in {flash, [flash EXCEPT ![TargetSlot] = Torn]}
          /\ SaveFails
    /\ UNCHANGED <<loaded, live, resetPending, busy, handVars>>

(* ... program word by word, ...                                           *)
ProgramTarget ==
    /\ phase = "program"
    /\ \/ /\ flash' \in {[flash EXCEPT ![TargetSlot] = p] : p \in {candidate, Torn}}
          /\ phase' = "verify"
          /\ UNCHANGED <<candidate, storeVars>>
       \/ /\ flash' \in {[flash EXCEPT ![TargetSlot] = p] : p \in {candidate, Torn, Blank}}
          /\ SaveFails
    /\ UNCHANGED <<loaded, live, resetPending, busy, handVars>>

(* ... and the journal reads the page back before it accepts it.           *)
BugReadsBack == TRUE                          \* mutant: trust the writer
ReadsBack == flash[TargetSlot] = candidate

VerifyTarget ==
    /\ phase = "verify"
    /\ \/ /\ ReadsBack
          /\ slot' = TargetSlot /\ record' = candidate
          /\ pending' = FALSE /\ observed' = None
          /\ ResumeMayFault
          /\ phase' = "idle" /\ candidate' = None
          /\ UNCHANGED <<ready, applied, age>>
       \/ SaveFails
    /\ UNCHANGED <<flash, loaded, live, resetPending, busy, handVars>>

(* The M1's writer stops for good in RAM when the controller stays busy.   *)
FailStop ==
    /\ board = "m1"
    /\ phase \in {"erase", "program", "clear older", "clear newest"}
    /\ LET s == IF phase = "clear older" THEN FirstErased
                ELSE IF phase = "clear newest" THEN Other(FirstErased) ELSE TargetSlot
           finished == IF phase = "program" THEN {candidate} ELSE {}
       IN flash' \in {[flash EXCEPT ![s] = p] : p \in {flash[s], Blank, Torn} \cup finished}
    /\ phase' = "stopped" /\ candidate' = None
    /\ UNCHANGED <<storeVars, loaded, live, resetPending, busy, handVars>>

-----------------------------------------------------------------------------
(* device_store_clear behind the board's clear_profile, and the neutral    *)
(* frame that applies the defaults.                                        *)

ClearAllowed == Scanning /\ loaded /\ (board = "m1" => ~fault /\ ~resetPending)

BeginClear ==
    /\ phase = "idle" /\ ClearAllowed /\ Open
    /\ phase' = "clear older"
    /\ UNCHANGED <<flash, candidate, storeVars, loaded, live, resetPending, busy, handVars>>

EraseOlder ==
    /\ phase = "clear older"
    /\ \/ /\ flash' = [flash EXCEPT ![FirstErased] = Blank]
          /\ phase' = "clear newest"
          /\ UNCHANGED <<candidate, storeVars>>
       \/ /\ flash' \in {flash, [flash EXCEPT ![FirstErased] = Torn]}
          /\ SaveFails
    /\ UNCHANGED <<loaded, live, resetPending, busy, handVars>>

EraseNewest ==
    /\ phase = "clear newest"
    /\ LET s == Other(FirstErased)
       IN \/ /\ flash' = [flash EXCEPT ![s] = Blank]
             /\ ForgetRecord
             /\ ResumeMayFault
             /\ resetPending' = (resetPending \/ ~fault')
             /\ phase' = "idle"
             /\ UNCHANGED candidate
          \/ /\ flash' \in {flash, [flash EXCEPT ![s] = Torn]}
             /\ SaveFails
             /\ UNCHANGED resetPending
    /\ UNCHANGED <<loaded, live, busy, handVars>>

(* The M1's begin can fail before anything is written, and before it looks *)
(* at what would put the transaction off.                                  *)
GateFails ==
    /\ board = "m1"
    /\ phase = "idle"
    /\ SaveDue \/ CalibrationDue \/ ClearAllowed
    /\ fault' = TRUE
    /\ UNCHANGED <<flash, phase, candidate, ready, applied, slot, record, pending, observed,
                   age, loaded, live, resetPending, busy, handVars>>

ApplyDefaults ==
    /\ phase = "idle"
    /\ resetPending /\ ~held /\ Scanning
    /\ live' = DefaultSettings
    /\ resetPending' = FALSE /\ busy' = FALSE
    /\ loaded' = (board = "m1")
    /\ UNCHANGED <<flash, phase, candidate, storeVars, handVars>>

-----------------------------------------------------------------------------
(* The environment: the player, time and the power supply.                 *)

Edit(s) ==
    /\ phase = "idle" /\ live # s
    /\ live' = s
    /\ UNCHANGED <<flash, phase, candidate, storeVars, loaded, resetPending, busy, handVars>>

Play ==
    /\ phase = "idle"
    /\ \/ held' = ~held /\ UNCHANGED <<board, gate, busy>>
       \/ busy' = ~busy /\ UNCHANGED handVars
    /\ UNCHANGED <<flash, phase, candidate, storeVars, loaded, live, resetPending>>

(* Frames stop or turn invalid and come again; a host, the lights, the     *)
(* supply or the pacing of saves shuts the M1's gate and opens it.         *)
GateTurns ==
    /\ phase = "idle"
    /\ gate' \in Gates \ {gate}
    /\ UNCHANGED <<board, held, flash, phase, candidate, storeVars, loaded, live,
                   resetPending, busy>>

Tick ==
    /\ phase = "idle" /\ pending /\ age < Quiet
    /\ age' = age + 1
    /\ UNCHANGED <<flash, phase, candidate, ready, applied, fault, slot, record, pending,
                   observed, loaded, live, resetPending, busy, handVars>>

(* Power is lost and returns; an erase or program in progress tears its    *)
(* page.                                                                   *)
PowerCut ==
    /\ LET torn == IF phase \in {"erase", "program"} THEN {TargetSlot}
                   ELSE IF phase = "clear older" THEN {FirstErased}
                   ELSE IF phase = "clear newest" THEN {Other(FirstErased)} ELSE {}
       IN \/ flash' = flash
          \/ \E s \in torn, p \in {Blank, Torn} : flash' = [flash EXCEPT ![s] = p]
    /\ ForgetRecord /\ fault' = FALSE
    /\ phase' = "idle" /\ candidate' = None
    /\ loaded' = FALSE /\ live' = DefaultSettings
    /\ resetPending' = FALSE /\ busy' = FALSE
    /\ UNCHANGED handVars

Init ==
    /\ board \in Boards
    /\ gate = "blind"
    /\ flash \in [Slots -> {Blank, Torn}]
    /\ phase = "idle" /\ candidate = None
    /\ ready = FALSE /\ applied = FALSE /\ loaded = FALSE /\ fault = FALSE
    /\ slot = NoSlot /\ record = None
    /\ pending = FALSE /\ observed = None /\ age = 0
    /\ live = DefaultSettings
    /\ resetPending = FALSE /\ busy = FALSE /\ held = FALSE

Write == EraseTarget \/ ProgramTarget \/ VerifyTarget
Clear == EraseOlder \/ EraseNewest
Boot == \E unreadable \in SUBSET Slots : Load(unreadable)

Next ==
    \/ Boot
    \/ Notice \/ BeginSave
    \/ \E b \in Bounds : BeginCalibrationSave(b)
    \/ Write \/ FailStop \/ GateFails
    \/ BeginClear \/ Clear \/ ApplyDefaults
    \/ \E s \in Settings : Edit(s)
    \/ Play \/ GateTurns \/ Tick
    \/ PowerCut

Spec == Init /\ [][Next]_vars

(* The owner loop and the clock keep running.  A save begins only if its   *)
(* gate stays open; that it opens is not assumed.                          *)
FairSpec ==
    /\ Spec
    /\ WF_vars(Boot) /\ WF_vars(Notice) /\ WF_vars(BeginSave) /\ WF_vars(Tick)
    /\ WF_vars(Write) /\ WF_vars(Clear) /\ WF_vars(ApplyDefaults)

-----------------------------------------------------------------------------
(* What a boot that can read both pages would restore.                     *)
Current == NewestSlot(flash, Slots)
ProfileOf(r) == [settings |-> r.settings, bounds |-> r.bounds]
SavedProfile == IF Current = NoSlot THEN Nothing ELSE ProfileOf(flash[Current])

Saving == phase \in {"erase", "program", "verify"}
Clearing == phase \in {"clear older", "clear newest"}

(* The journal implements one atomic cell: whatever the power does in the  *)
(* middle of a save or a reset, a boot finds the old profile or the new    *)
(* one whole, never a mixture and never an older one.  The exception is a  *)
(* Huntsman whose store is faulted: it lets itself be reset, erases the    *)
(* page opposite to its current one first, and that may be the newest.     *)
Request == IF Saving THEN ProfileOf(candidate) ELSE IF Clearing THEN Nothing ELSE NoRequest
OlderProfile == IF Valid(flash) = Slots THEN ProfileOf(flash[Other(Current)]) ELSE Nothing
Doubtful == fault /\ board = "huntsman"

Atomic == INSTANCE AtomicProfile
            WITH profile <- SavedProfile, older <- OlderProfile, request <- Request,
                 doubtful <- Doubtful, Idle <- NoRequest
ImplementsAtomicProfile == Atomic!Spec

(* Unless the store is faulted, the RAM copy names the page and the record *)
(* that a boot would choose, so that the next save goes to the other page. *)
JournalTracksFlash ==
    ready /\ ~fault /\ phase \in {"idle", "erase", "program"} =>
        /\ slot = Current
        /\ record = IF slot = NoSlot THEN None ELSE flash[slot]

(* "Release all keys and wait for settings saved before unplugging": what  *)
(* the GUI reports as saved survives a power cut.                          *)
SavedMeansDurable ==
    ready /\ ~pending /\ ~fault /\ observed = live /\ phase = "idle" =>
        Current # NoSlot /\ flash[Current].settings = live

(* "No unchanged settings are rewritten": only a calibration rewrites the  *)
(* settings that the flash already holds.                                  *)
NoWear ==
    [][phase = "idle" /\ phase' = "erase" /\ ~busy =>
          Current = NoSlot \/ flash[Current].settings # live]_vars

(* Settings that are left alone get saved once the gate stays open, however *)
(* often and long saves were put off before ("Unknown, stale, low or       *)
(* changing supplies defer the save"), unless a fault is latched or the    *)
(* power keeps failing; on the Huntsman after a reset too, ...             *)
Calm == ~busy /\ ~held /\ ~fault /\ phase # "stopped" /\ Open
Lasts(s) == <>[](Calm /\ live = s) => <>[](Current # NoSlot /\ flash[Current].settings = s)
SettingsGetSaved ==
    <>[][~PowerCut /\ ~BeginClear]_vars /\ <>[](board = "m1" => ready)
        => \A s \in Settings : Lasts(s)

(* ... but not on the M1, where nothing makes the store ready again.       *)
SavingSurvivesReset ==
    <>[][~PowerCut /\ ~BeginClear]_vars => \A s \in Settings : Lasts(s)

=============================================================================
