---------------------------- MODULE MCKeyboardRaw ----------------------------
(* Two keys; readings 1 (bottom), 2 (pressed), 4 and 5 (between the  *)
(* thresholds), 6 (released), 0 (broken) and 7 (out of range).             *)
EXTENDS KeyboardRaw

MCSamples == (0 .. 7) \ {3}
MCCommands == {"enable", "set", "all", "pressAll", "map", "observe"}
=============================================================================
