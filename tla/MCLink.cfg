SPECIFICATION LinkSpec
CONSTANTS
    Modes = {"usb", "bt"}
    RfModes = {}
    Keys = {1}
    LowKeys = {1}
    ListSlots = 1
    Usages = {mute}
    mute = mute
    NoUsage = NoUsage
    Glitches = {}
INVARIANTS
    NoKeyLeftBehind
    RadioFollowsControls
CONSTRAINT OneInPlay
