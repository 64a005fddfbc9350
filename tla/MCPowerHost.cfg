SPECIFICATION PowerSpec
CONSTANTS
    Banks = 1
    QueueFrames = 1
    Radios = {"bt"}
PROPERTIES
    LostHostIsNoFault
