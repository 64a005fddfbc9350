---------------------------- MODULE MCKeyboardApp ----------------------------
(* A reset and its confirmation; a calibration; the trigger editor; MIDI's *)
(* pages; brightness and rapid trigger.                                    *)
EXTENDS KeyboardApp

MCKeyboards == {{"fn", "r", "y", "n", "a"}, {"fn", "c", "a", "esc"}, {"fn", "tab", "esc", "one", "up"},
                {"fn", "enter", "e", "one"}, {"fn", "enter", "tab", "v", "one"},
                {"fn", "k", "caps", "esc"}}
=============================================================================
