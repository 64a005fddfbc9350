----------------------------- MODULE MCM1Power -----------------------------
(* M1Power for TLC: one bank a frame, a queue of two.                      *)
EXTENDS M1Power
=============================================================================
