--------------------------- MODULE MCKeyboardMidi ---------------------------
(* Keyboards of two keys: two notes of one pitch; a note with an octave    *)
(* key; the pedal with Fn; a note key that is muted, remapped or given a   *)
(* stored profile while it sounds; and one whose profile is reset.         *)
EXTENDS KeyboardMidi

AllNotes == Notes
TwoScales == {Notes, {0}}
Silent == [k \in Keys |-> Unmapped]
Second == [Silent EXCEPT ![2] = 0]

Shared == [role |-> <<"note", "note">>, mapping |-> [k \in Keys |-> 0],
           janko |-> Silent, lower |-> {}, commands |-> {"toggle"}]
With(r) == [Shared EXCEPT !.role = <<r, "note">>, !.mapping = Second]
FnPedal == [Shared EXCEPT !.role = <<"sustain", "fn">>, !.mapping = Silent]
Edited(commands) ==
    [With("spare") EXCEPT !.janko = [Silent EXCEPT ![2] = MaxNote], !.lower = {2},
                          !.commands = {"toggle"} \cup commands]
Restored == Edited({"reset"})

AllScenarios ==
    {Shared, With("up"), FnPedal,
     Edited({"raw"}), Edited({"lower", "janko"}), Edited({"music", "remap"}), Edited({"apply"}), Restored}
ResetOnly == {Restored}
=============================================================================
