SPECIFICATION FairMidiSpec
CONSTANTS
    NumKeys = 2
    Samples = {2, 6}
    MaxSample = 6
    BottomOut = 2
    Window = 3
    DefaultPress = 4
    DefaultRelease = 5
    Presses = {}
    Releases = {}
    RawCommands = {"enable", "observe"}
    MaxNote = 1
    Unmapped = Unmapped
    Slots = 2
    QueueSize = 2
    OctaveStep = 1
    OctaveLimit = 1
    Scales <- TwoScales
    Chromatic <- AllNotes
    Scenarios <- AllScenarios
INVARIANTS
    MidiTypeOK
    HostFollowsKeys
    NoStrandedVoice
    CleanupIsFinal
    CleanupCovers
PROPERTIES
    CleanupOnlyAdvances
    LettingGoSilences
