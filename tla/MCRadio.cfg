SPECIFICATION WirelessSpec
CONSTANTS
    Modes = {"usb", "bt"}
    RfModes = {}
    Keys = {1, 2, 3}
    LowKeys = {1}
    ListSlots = 1
    Usages = {"volume"}
    NoUsage = NoUsage
    Glitches = {"search", "unknown"}
INVARIANTS
    HostIsKnownUnlessTorn
    AsleepMeansReleased
PROPERTIES
    SleepingPeerIsLeftAlone
    HeldKeysStay
CHECK_DEADLOCK FALSE
