-------------------------- MODULE MCProfileJournal --------------------------
(* Two settings, one calibration, generations that wrap at four.           *)
EXTENDS ProfileJournal
=============================================================================
