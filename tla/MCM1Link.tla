------------------------------ MODULE MCM1Link ------------------------------
EXTENDS M1Link

(* Bound: the key and the knob's usage are not both on their way.          *)
KeyInPlay ==
    \/ a.down # {} \/ (a.sentValid /\ a.sent # {}) \/ u.hid # {}
    \/ Carried(w.committed) # {} \/ Carried(w.staged) # {}
    \/ \E h \in Modes : Held(h) # {}
UsageInPlay ==
    \/ x.pending # NoUsage \/ x.usage # NoUsage \/ u.cons # NoUsage
    \/ w.usage # NoUsage \/ w.usageStaged # NoUsage
    \/ \E h \in Modes : host[h].usage # NoUsage
OneInPlay == ~(KeyInPlay /\ UsageInPlay)
=============================================================================
