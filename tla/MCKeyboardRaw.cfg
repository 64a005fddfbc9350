SPECIFICATION RawSpec
CONSTANTS
    NumKeys = 2
    Samples <- MCSamples
    MaxSample = 6
    BottomOut = 2
    Window = 3
    DefaultPress = 4
    DefaultRelease = 5
    Presses = {2, 5}
    Releases = {3, 5}
    RawCommands <- MCCommands
INVARIANTS
    WorklistCovers
    ThresholdsOrdered
PROPERTIES
    FullScanEquivalent
    StrikesAreMeasured
    ArmingIsSilent
