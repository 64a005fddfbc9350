---------------------------- MODULE AtomicProfile ----------------------------
(***************************************************************************)
(* What DEVICE_CONFIG_STORAGE.md promises of the saved profile, with no    *)
(* pages, generations or power cuts in sight: there is one saved profile   *)
(* or none; a save replaces it whole, a reset removes it whole, and        *)
(* nothing else ever changes it.  A save of settings keeps the calibration *)
(* that was saved with them.                                               *)
(*                                                                         *)
(* The profile before it may linger.  It is never seen again, unless the   *)
(* store is in doubt about which one is the newest: then a reset that is   *)
(* interrupted can bring it back.                                          *)
(***************************************************************************)
CONSTANTS Settings, Bounds, NoBounds, Nothing, Idle

VARIABLES
    profile, \* what a boot would restore: [settings, bounds] or Nothing
    older,   \* the profile before it, while it lingers, or Nothing
    request, \* the profile being saved, Nothing during a reset, or Idle
    doubtful \* the store cannot tell the two apart

KeptBounds == IF profile = Nothing THEN NoBounds ELSE profile.bounds

Init == profile = Nothing /\ older = Nothing /\ request = Idle /\ doubtful = FALSE

AskSave(s, b) ==
    /\ request = Idle
    /\ b \in Bounds \cup {KeptBounds}
    /\ request' = [settings |-> s, bounds |-> b]
    /\ UNCHANGED <<profile, older>>

AskReset == request = Idle /\ request' = Nothing /\ UNCHANGED <<profile, older>>

(* Whatever a request does may be the last of it: power is lost.           *)
Underway == request # Idle /\ request' \in {request, Idle}

(* The one instant at which the saved profile changes.                     *)
TakeEffect == Underway /\ profile' = request /\ older' \in {profile, Nothing}

Forget == Underway /\ older' = Nothing /\ UNCHANGED profile

Revive ==
    /\ Underway /\ request = Nothing
    /\ doubtful /\ older # Nothing
    /\ profile' = older /\ older' = Nothing

End == request # Idle /\ request' = Idle /\ UNCHANGED <<profile, older>>

Next ==
    /\ doubtful' \in BOOLEAN
    /\ \/ \E s \in Settings, b \in Bounds \cup {NoBounds} : AskSave(s, b)
       \/ AskReset
       \/ TakeEffect
       \/ Forget
       \/ Revive
       \/ End
       \/ UNCHANGED <<profile, older, request>>

Spec == Init /\ [][Next]_<<profile, older, request, doubtful>>
=============================================================================
