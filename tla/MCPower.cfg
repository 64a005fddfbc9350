SPECIFICATION PowerSpec
CONSTANTS
    Banks = 1
    QueueFrames = 2
    Radios = {"bt"}
INVARIANTS
    FrameIsItsSequence
    LossesAreNoticed
    NoProducerOutlivesItsRail
PROPERTIES
    FailsOnlyForCause
    CableIsServed
