---------------------------- MODULE MCMidiControl ----------------------------
(* One host's session, with the commands that start and stop the streams.  *)
EXTENDS MidiControl

Streams == {<<1, "key">>, <<1, "gui">>, <<1, "dump">>, <<1, "other">>}
=============================================================================
